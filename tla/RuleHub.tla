------------------------------- MODULE RuleHub -------------------------------
(***************************************************************************)
(* What the policy hub promises to the gateways that subscribe to it: an   *)
(* authoritative table of rules, one version per change, a bounded log of  *)
(* the last changes (ChangeLog), and a fresh epoch after every restart.    *)
(* PolicyEngine implements this specification; RuleSync is built on it.    *)
(***************************************************************************)
EXTENDS Integers, Sequences

CONSTANTS Ids,       \* rule ids ("src:ip")
          Rules,     \* the rules an id can hold, records with a version field
          NoRule,    \* stands for "no rule under this id"
          LogCap,    \* capacity of the change log (m_cap)
          MaxVer     \* bound on the versions explored

ASSUME HubAssumption == /\ NoRule \notin Rules
                        /\ \A r \in Rules : r.version \in Nat
                        /\ LogCap \in Nat \ {0}
                        /\ MaxVer \in Nat

VARIABLES epoch,     \* m_epoch; restarts are numbered, the code draws at random
          ver,       \* m_ver
          rules,     \* m_store
          log        \* m_log

hubVars == <<epoch, ver, rules, log>>

(* ChangeLog: one entry per version; rule = NoRule in a deletion.          *)
LogEntry == [version : Nat, id : Ids, rule : Rules \cup {NoRule}]

(* ChangeLog::append: push at the back, drop the oldest past the capacity. *)
LogAppend(l, e) ==
    LET full == Append(l, e)
    IN  IF Len(full) > LogCap THEN Tail(full) ELSE full

(* Mutant: one entry too few is enough.                                    *)
CanCoverLate(l, from) == l # << >> /\ from + 2 >= l[1].version

(* ChangeLog::canCover: the entry that follows version from is still held. *)
CanCover(l, from) == l # << >> /\ from + 1 >= l[1].version

(* ChangeLog::collect: the operations with version in (from, to]. The order *)
(* of the operations of a delta is the order of their versions.            *)
Collect(l, from, to) ==
    {e \in {l[n] : n \in 1 .. Len(l)} : from < e.version /\ e.version <= to}

(* PolicyEngine::nextPush: nothing, a snapshot, or the delta after sentVer.*)
NothingToPush(sentVer, sentOnce) == sentOnce /\ sentVer = ver

NextPush(sentVer, sentOnce) ==
    IF ~sentOnce \/ sentVer > ver \/ ~CanCover(log, sentVer)
    THEN [kind |-> "SNAP", epoch |-> epoch, version |-> ver, rules |-> rules]
    ELSE [kind |-> "DELTA", epoch |-> epoch, prev |-> sentVer, version |-> ver,
          ops |-> Collect(log, sentVer, ver)]

HubTypeOK == /\ epoch \in Nat
             /\ ver \in Nat
             /\ rules \in [Ids -> Rules \cup {NoRule}]
             /\ log \in Seq(LogEntry)

HubInit == /\ epoch = 1
           /\ ver = 0
           /\ rules = [i \in Ids |-> NoRule]
           /\ log = << >>

(* recordLocked followed by m_store.put: one change, one version, one log  *)
(* entry.                                                                  *)
Put(i, r) == /\ ver < MaxVer
             /\ r.version = ver + 1
             /\ ver' = ver + 1
             /\ rules' = [rules EXCEPT ![i] = r]
             /\ log' = LogAppend(log, [version |-> ver + 1, id |-> i, rule |-> r])
             /\ UNCHANGED epoch

(* m_store.erase followed by recordLocked.                                 *)
Erase(i) == /\ rules[i] # NoRule
            /\ ver' = ver + 1
            /\ rules' = [rules EXCEPT ![i] = NoRule]
            /\ log' = LogAppend(log, [version |-> ver + 1, id |-> i, rule |-> NoRule])
            /\ UNCHANGED epoch

(* Mutant: the epoch survives the restart.                                 *)
HubRestartSameEpoch ==
    /\ ver' \in 0 .. ver
    /\ rules' \in [Ids -> {r \in Rules : r.version <= ver'} \cup {NoRule}]
    /\ log' = << >>
    /\ UNCHANGED epoch

(* A restart: a new epoch, an empty log, the rules and the version the     *)
(* database still holds. The version may fall back behind the one that     *)
(* gateways have already seen.                                             *)
HubRestart == /\ epoch' = epoch + 1
              /\ ver' \in 0 .. ver
              /\ rules' \in [Ids -> {r \in Rules : r.version <= ver'} \cup {NoRule}]
              /\ log' = << >>

HubNext == \/ \E i \in Ids, r \in Rules : Put(i, r)
           \/ \E i \in Ids : Erase(i)
           \/ HubRestart

HubSpec == HubInit /\ [][HubNext]_hubVars
=============================================================================
