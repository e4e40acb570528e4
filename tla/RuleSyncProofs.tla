--------------------------- MODULE RuleSyncProofs ---------------------------
(***************************************************************************)
(* Proofs that the hub and its gateways agree, for any number of ids,      *)
(* rules, versions, epochs, connections and faults and any size of the     *)
(* change log: the deltas are right (DeltasRebuild), the gateway's copy is *)
(* never torn (CopiesAreNotTorn), what is acknowledged is applied          *)
(* (AcksAreApplied), and the two loops of a session and the sessions of a  *)
(* gateway agree (SessionsAreSound).                                       *)
(*                                                                         *)
(* The log is a contiguous window of versions whose last entry per id      *)
(* agrees with the rules (LogSound); from this a delta rebuilds the rules. *)
(* Every push that is held, on the way or applied is then one of a version *)
(* the hub has had (BaseInv).                                              *)
(*                                                                         *)
(* The actions are first reduced to kinds of steps (Kinds), each by what   *)
(* it does to one session, and these to what one connection sees (Views).  *)
(* The other invariants are about one connection each and are proved view  *)
(* by view: AckSound about what travels back, FlightSound about what is on *)
(* the way, WakeSound about what is due. ServeSound relates two sessions   *)
(* by who has listed whom: of two that are past the listing, one is listed *)
(* by the other or has lost its socket, or is about to.                    *)
(***************************************************************************)
EXTENDS RuleSync, WellFoundedInduction, TLAPS

(* What rules, a ghost of them or a snapshot may be: a rule or none for    *)
(* every id.                                                               *)
RuleSets == [Ids -> Rules \cup {NoRule}]
(* What the ghost hist may be.                                             *)
Histories == [1..MaxEpoch -> [0..MaxVer -> RuleSets]]

(* The types of the hub's side.                                            *)
HubTyped ==
  /\ epoch \in 1..MaxEpoch /\ ver \in 0..MaxVer /\ announced \in 0..ver
  /\ rules \in RuleSets /\ log \in Seq(LogEntry)
  /\ hist \in Histories

(* The change log is a window: its entries carry the versions just before  *)
(* the current one, one each; the last entry of an id has its current      *)
(* rule; and an id without an entry after version v has now the rule it    *)
(* had at v.                                                               *)
LogSound ==
  /\ hist[epoch][ver] = rules
  /\ Len(log) <= ver
  /\ \A n \in 1..Len(log) : log[n].version = ver - Len(log) + n
  /\ \A n \in 1..Len(log) :
       (\A m \in (n + 1)..Len(log) : log[m].id # log[n].id) => log[n].rule = rules[log[n].id]
  /\ \A v \in (ver - Len(log))..ver, i \in Ids :
       (\A n \in 1..Len(log) : log[n].version > v => log[n].id # i) => hist[epoch][v][i] = rules[i]

----------------------------------------------------------------------------
(* An edit of rule i to r, a removal where r is NoRule.                    *)
Edits(i, r) ==
  /\ ver < MaxVer /\ ver' = ver + 1 /\ epoch' = epoch
  /\ rules' = [rules EXCEPT ![i] = r]
  /\ log' = LogAppend(log, [version |-> ver + 1, id |-> i, rule |-> r])
  /\ hist' = [hist EXCEPT ![epoch][ver + 1] = rules']
  /\ announced' = announced /\ draining' = draining

(* A restart of the hub.                                                   *)
Reboots ==
  /\ epoch < MaxEpoch /\ epoch' = epoch + 1 /\ ver' \in 0..ver
  /\ rules' \in RuleSets /\ log' = <<>>
  /\ hist' = [hist EXCEPT ![epoch + 1][ver'] = rules']
  /\ announced' = ver' /\ draining' = FALSE

(* A step that leaves rules, versions and log alone.                       *)
Rests == UNCHANGED <<hubVars, hist>> /\ announced' \in {announced, ver}

(* Every step is one of these three as far as the hub is concerned.        *)
LEMMA HubKinds ==
  ASSUME SyncNext
  PROVE  \/ (\E i \in Ids, r \in Rules \cup {NoRule} : Edits(i, r) /\ EditRule)
         \/ (Reboots /\ Restart)
         \/ Rests
<1>1. ASSUME EditRule
      PROVE  \E i \in Ids, r \in Rules \cup {NoRule} : Edits(i, r)
  <2>1. CASE \E i \in Ids, r \in Rules : Put(i, r)
    BY <1>1, <2>1 DEF EditRule, Put, Remembered, Edits
  <2>2. CASE \E i \in Ids : Erase(i)
    BY <1>1, <2>2 DEF EditRule, Erase, Remembered, Edits
  <2> QED
    BY <1>1, <2>1, <2>2 DEF EditRule
<1>2. ASSUME Restart
      PROVE  Reboots
  <2>1. rules' \in RuleSets
    BY <1>2 DEF Restart, HubRestart, RuleSets
  <2> QED
    BY <1>2, <2>1 DEF Restart, HubRestart, Remembered, Reboots
<1>3. ASSUME Publish \/ BeginStop \/ \E s \in Conns : StopStep(s) \/ ForceStop(s)
      PROVE  Rests
  BY <1>3 DEF Publish, BeginStop, StopStep, Stop, CloseNow, ForceStop, Elsewhere, hubSide, Rests
<1>4. ASSUME NEW s \in Conns, SendStep(s) \/ RecvStep(s) \/ RecvTimeout(s) \/ Dial(s)
      PROVE  Rests
  <2>1. CASE SendStep(s)
    BY <2>1 DEF SendStep, SendWake, SendReady, SendReadied, SendCurrent, SendPush, SendMark, SendEmit,
       SendSent, SendPing, SendBye, Elsewhere, hubSide, Rests
  <2>2. CASE RecvStep(s)
    BY <2>2 DEF RecvStep, RecvHello, RecvBind, RecvReplace, RecvReplaced, RecvMsg, RecvEnd, RecvClose,
       Elsewhere, hubSide, Rests
  <2>3. CASE RecvTimeout(s) \/ Dial(s)
    BY <2>3 DEF RecvTimeout, Dial, hubSide, Rests
  <2> QED
    BY <1>4, <2>1, <2>2, <2>3
<1>5. ASSUME \/ GwStep \/ GwBreak \/ GwRestart
             \/ \E i \in Ids : GwExpire(i)
      PROVE  Rests
  BY <1>5 DEF GwStep, GwReady, GwPush, GwControl, GwEof, GwBreak, GwRestart, GwExpire, hubSide,
     Rests
<1> QED
  BY <1>1, <1>2, <1>3, <1>4, <1>5 DEF SyncNext

(* What appending to the log leaves: the entry at the end, and before it   *)
(* the old entries, without the first of them when the log was full.       *)
LEMMA AppendLog ==
  ASSUME NEW l \in Seq(LogEntry), NEW e \in LogEntry
  PROVE  /\ LogAppend(l, e) \in Seq(LogEntry)
         /\ \E k \in {0, 1} :
              /\ Len(LogAppend(l, e)) = Len(l) + 1 - k
              /\ Len(l) + 1 - k >= 1
              /\ \A n \in 1..(Len(l) + 1 - k) :
                   LogAppend(l, e)[n] = IF n = Len(l) + 1 - k THEN e ELSE l[n + k]
<1> DEFINE full == Append(l, e)
<1>1. /\ full \in Seq(LogEntry) /\ Len(full) = Len(l) + 1 /\ Len(l) \in Nat
      /\ \A n \in 1..(Len(l) + 1) : full[n] = IF n = Len(l) + 1 THEN e ELSE l[n]
  OBVIOUS
<1> HIDE DEF full
<1>2. CASE Len(full) > LogCap
  <2>1. Len(l) >= 1
    BY <1>1, <1>2, HubAssumption
  <2>2. /\ Tail(full) \in Seq(LogEntry) /\ Len(Tail(full)) = Len(l)
        /\ \A n \in 1..Len(l) : Tail(full)[n] = full[n + 1]
    BY <1>1, <2>1
  <2>3. LogAppend(l, e) = Tail(full)
    BY <1>2 DEF LogAppend, full
  <2>4. \A n \in 1..Len(l) : Tail(full)[n] = IF n = Len(l) THEN e ELSE l[n + 1]
    BY <1>1, <2>2
  <2> QED
    BY <1>1, <2>1, <2>2, <2>3, <2>4
<1>3. CASE ~(Len(full) > LogCap)
  <2>1. LogAppend(l, e) = full
    BY <1>3 DEF LogAppend, full
  <2> QED
    BY <1>1, <2>1
<1> QED
  BY <1>2, <1>3

(* Version v of epoch e was the hub's at some time, if the hub is at       *)
(* version ve of epoch ep: a restart may fall back to an older version     *)
(* number but never to an old epoch.                                       *)
Known(e, v, ep, ve) == e \in 1..ep /\ v \in 0..MaxVer /\ (e = ep => v <= ve)

(* A step keeps the hub's types, and keeps what is remembered of every     *)
(* version the hub has had: edits and restarts write to a place of hist    *)
(* that was not in use.                                                    *)
LEMMA HubStays ==
  ASSUME HubTyped, SyncNext
  PROVE  /\ HubTyped'
         /\ \A e, v : Known(e, v, epoch, ver) =>
              Known(e, v, epoch', ver') /\ hist'[e][v] = hist[e][v] /\ hist[e][v] \in RuleSets
         /\ epoch' = epoch => ver <= ver'
<1>0. /\ epoch \in 1..MaxEpoch /\ ver \in 0..MaxVer /\ announced \in 0..ver /\ MaxVer \in Nat
      /\ rules \in RuleSets /\ log \in Seq(LogEntry) /\ hist \in Histories /\ MaxEpoch \in Nat
  BY HubAssumption, SyncAssumption DEF HubTyped
<1>a. \A e, v : Known(e, v, epoch, ver) => hist[e][v] \in RuleSets
  BY <1>0 DEF Known, Histories
<1>b. ASSUME NEW e \in 1..MaxEpoch, NEW v \in 0..MaxVer, NEW x \in RuleSets,
             hist' = [hist EXCEPT ![e][v] = x]
      PROVE  /\ hist' \in Histories
             /\ \A f \in 1..MaxEpoch, w \in 0..MaxVer :
                  hist'[f][w] = IF f = e /\ w = v THEN x ELSE hist[f][w]
  BY <1>0, <1>b DEF Histories
<1>1. ASSUME NEW i \in Ids, NEW r \in Rules \cup {NoRule}, Edits(i, r)
      PROVE  /\ HubTyped'
             /\ \A e, v : Known(e, v, epoch, ver) =>
                  Known(e, v, epoch', ver') /\ hist'[e][v] = hist[e][v]
             /\ epoch' = epoch => ver <= ver'
  <2>1. rules' \in RuleSets
    BY <1>0, <1>1 DEF Edits, RuleSets
  <2>2. [version |-> ver + 1, id |-> i, rule |-> r] \in LogEntry
    BY <1>0 DEF LogEntry
  <2>3. log' \in Seq(LogEntry)
    BY <1>0, <1>1, <2>2, AppendLog DEF Edits
  <2>4. ver' = ver + 1 /\ epoch' = epoch /\ ver + 1 \in 0..MaxVer /\ announced' = announced
    BY <1>0, <1>1 DEF Edits
  <2>5. /\ hist' \in Histories
        /\ \A f \in 1..MaxEpoch, w \in 0..MaxVer :
             hist'[f][w] = IF f = epoch /\ w = ver + 1 THEN rules' ELSE hist[f][w]
    BY <1>0, <1>1, <1>b, <2>1, <2>4 DEF Edits
  <2>6. HubTyped'
    BY <1>0, <2>1, <2>3, <2>4, <2>5 DEF HubTyped
  <2> QED
    BY <1>0, <2>4, <2>5, <2>6 DEF Known
<1>2. ASSUME Reboots
      PROVE  /\ HubTyped'
             /\ \A e, v : Known(e, v, epoch, ver) =>
                  Known(e, v, epoch', ver') /\ hist'[e][v] = hist[e][v]
             /\ epoch' = epoch => ver <= ver'
  <2>1. /\ epoch' = epoch + 1 /\ epoch + 1 \in 1..MaxEpoch /\ ver' \in 0..MaxVer
        /\ rules' \in RuleSets
        /\ log' \in Seq(LogEntry) /\ announced' = ver'
    BY <1>0, <1>2 DEF Reboots
  <2>2. /\ hist' \in Histories
        /\ \A f \in 1..MaxEpoch, w \in 0..MaxVer :
             hist'[f][w] = IF f = epoch + 1 /\ w = ver' THEN rules' ELSE hist[f][w]
    <3>1. hist' = [hist EXCEPT ![epoch + 1][ver'] = rules']
      BY <1>2 DEF Reboots
    <3> QED
      BY <1>b, <2>1, <3>1
  <2>3. HubTyped'
    BY <1>0, <2>1, <2>2 DEF HubTyped
  <2> QED
    BY <1>0, <2>1, <2>2, <2>3 DEF Known
<1>3. ASSUME Rests
      PROVE  /\ HubTyped'
             /\ \A e, v : Known(e, v, epoch, ver) =>
                  Known(e, v, epoch', ver') /\ hist'[e][v] = hist[e][v]
             /\ epoch' = epoch => ver <= ver'
  BY <1>0, <1>3 DEF Rests, hubVars, HubTyped
<1> QED
  BY <1>a, <1>1, <1>2, <1>3, HubKinds

(* A step keeps the log a window, also where appending to a full log drops *)
(* its first entry, and after a restart, where it is empty.                *)
LEMMA LogStays ==
  ASSUME HubTyped, LogSound, SyncNext
  PROVE  LogSound'
<1>0. /\ epoch \in 1..MaxEpoch /\ ver \in 0..MaxVer /\ MaxVer \in Nat
      /\ rules \in RuleSets /\ log \in Seq(LogEntry) /\ hist \in Histories /\ MaxEpoch \in Nat
      /\ Len(log) \in Nat
  BY HubAssumption, SyncAssumption DEF HubTyped
<1>1. ASSUME NEW i \in Ids, NEW r \in Rules \cup {NoRule}, Edits(i, r)
      PROVE  LogSound'
  <2> DEFINE e == [version |-> ver + 1, id |-> i, rule |-> r]
  <2>1. /\ e \in LogEntry /\ e.version = ver + 1 /\ e.id = i /\ e.rule = r
    BY <1>0 DEF LogEntry
  <2> HIDE DEF e
  <2>2. log' = LogAppend(log, e)
    BY <1>1 DEF Edits, e
  <2>3. PICK k \in {0, 1} :
              /\ Len(log') = Len(log) + 1 - k
              /\ Len(log) + 1 - k >= 1
              /\ \A n \in 1..(Len(log) + 1 - k) :
                   log'[n] = IF n = Len(log) + 1 - k THEN e ELSE log[n + k]
    BY <1>0, <2>1, <2>2, AppendLog
  <2>4. ver' = ver + 1 /\ epoch' = epoch /\ ver + 1 \in 0..MaxVer
    BY <1>0, <1>1 DEF Edits
  <2>5. rules' \in RuleSets /\ \A j \in Ids : rules'[j] = IF j = i THEN r ELSE rules[j]
    BY <1>0, <1>1 DEF Edits, RuleSets
  <2>6. \A w \in 0..MaxVer : hist'[epoch][w] = IF w = ver + 1 THEN rules' ELSE hist[epoch][w]
    BY <1>0, <1>1, <2>4 DEF Edits, Histories
  <2>7. /\ hist'[epoch'][ver'] = rules' /\ Len(log') <= ver'
        /\ \A n \in 1..Len(log') : log'[n].version = ver' - Len(log') + n
    <3>1. hist'[epoch'][ver'] = rules'
      BY <2>4, <2>6
    <3>2. Len(log) <= ver /\ \A n \in 1..Len(log) : log[n].version = ver - Len(log) + n
      BY DEF LogSound
    <3>3. Len(log') <= ver'
      BY <1>0, <2>3, <2>4, <3>2
    <3>4. ASSUME NEW n \in 1..Len(log')
          PROVE  log'[n].version = ver' - Len(log') + n
      <4>1. CASE n = Len(log')
        BY <1>0, <2>1, <2>3, <2>4, <4>1
      <4>2. CASE n # Len(log')
        <5>1. n + k \in 1..Len(log) /\ log'[n] = log[n + k]
          BY <1>0, <2>3, <4>2
        <5> QED
          BY <1>0, <2>3, <2>4, <3>2, <5>1
      <4> QED
        BY <4>1, <4>2
    <3> QED
      BY <3>1, <3>3, <3>4
  <2>8. \A n \in 1..Len(log) : log[n].id \in Ids
    <3>1. \A n \in 1..Len(log) : log[n] \in LogEntry
      BY <1>0
    <3> QED
      BY <3>1 DEF LogEntry
  <2>9. ASSUME NEW n \in 1..Len(log'), \A m \in (n + 1)..Len(log') : log'[m].id # log'[n].id
        PROVE  log'[n].rule = rules'[log'[n].id]
    <3>1. CASE n = Len(log')
      BY <1>0, <2>1, <2>3, <2>5, <3>1
    <3>2. CASE n # Len(log')
      <4>1. log'[n] = log[n + k] /\ n + k \in 1..Len(log)
        BY <1>0, <2>3, <3>2
      <4>2. log'[Len(log')] = e /\ Len(log') \in (n + 1)..Len(log')
        BY <1>0, <2>3, <3>2
      <4>3. log[n + k].id # i
        BY <2>1, <2>9, <4>1, <4>2
      <4>4. ASSUME NEW m \in (n + k + 1)..Len(log)
            PROVE  log[m].id # log[n + k].id
        <5>1. m - k \in (n + 1)..Len(log') /\ log'[m - k] = log[m]
          BY <1>0, <2>3, <4>1
        <5> QED
          BY <2>9, <4>1, <5>1
      <4>5. log[n + k].rule = rules[log[n + k].id]
        BY <4>1, <4>4 DEF LogSound
      <4> QED
        BY <2>5, <2>8, <4>1, <4>3, <4>5
    <3> QED
      BY <3>1, <3>2
  <2>10. ASSUME NEW v \in (ver' - Len(log'))..ver', NEW j \in Ids,
                \A n \in 1..Len(log') : log'[n].version > v => log'[n].id # j
         PROVE  hist'[epoch'][v][j] = rules'[j]
    <3>1. CASE v = ver'
      BY <2>7, <3>1
    <3>2. CASE v # ver'
      <4>1. v \in (ver - Len(log))..ver /\ v \in 0..MaxVer /\ v < ver + 1
        BY <1>0, <2>3, <2>4, <3>2 DEF LogSound
      <4>2. j # i
        <5>1. log'[Len(log')] = e /\ Len(log') \in 1..Len(log')
          BY <1>0, <2>3
        <5> QED
          BY <1>0, <2>1, <2>10, <4>1, <5>1
      <4>3. ASSUME NEW n \in 1..Len(log), log[n].version > v
            PROVE  log[n].id # j
        <5>1. log[n].version = ver - Len(log) + n
          BY DEF LogSound
        <5>2. n - k \in 1..Len(log') /\ n - k # Len(log')
          BY <1>0, <2>3, <2>4, <4>1, <4>3, <5>1
        <5>3. log'[n - k] = log[n]
          BY <1>0, <2>3, <5>2
        <5> QED
          BY <2>10, <4>3, <5>2, <5>3
      <4>4. hist[epoch][v][j] = rules[j]
        BY <4>1, <4>3 DEF LogSound
      <4>5. hist'[epoch'][v] = hist[epoch][v]
        BY <1>0, <2>4, <2>6, <4>1
      <4> QED
        BY <2>5, <4>2, <4>4, <4>5
    <3> QED
      BY <3>1, <3>2
  <2> QED
    BY <2>7, <2>9, <2>10 DEF LogSound
<1>2. ASSUME Reboots
      PROVE  LogSound'
  <2>1. log' = <<>> /\ Len(log') = 0 /\ ver' \in 0..MaxVer /\ epoch' \in 1..MaxEpoch
    BY <1>0, <1>2 DEF Reboots
  <2>2. hist'[epoch'][ver'] = rules'
    BY <1>0, <1>2, <2>1 DEF Reboots, Histories
  <2>3. \A n : n \notin 1..Len(log')
    BY <2>1
  <2>4. Len(log') <= ver' /\ \A v \in (ver' - Len(log'))..ver' : v = ver'
    <3>1. PICK w \in Int : w = ver' /\ 0 <= w
      BY <1>0, <2>1
    <3>2. PICK k \in Nat : k = Len(log') /\ k = 0
      BY <2>1
    <3>3. k <= w /\ \A v \in (w - k)..w : v = w
      <4>1. 0 <= w
        BY <3>1
      <4>2. k = 0
        BY <3>2
      <4> QED
        BY <4>1, <4>2
    <3> QED
      BY <3>1, <3>2, <3>3
  <2> QED
    BY <2>2, <2>3, <2>4 DEF LogSound
<1>3. ASSUME Rests
      PROVE  LogSound'
  BY <1>3 DEF Rests, hubVars, LogSound
<1> QED
  BY <1>1, <1>2, <1>3, HubKinds

(* Among finitely many versions there is a last one.                       *)
LEMMA LastChange ==
  ASSUME NEW ops, NEW i, \A e \in ops : e.version \in 0..MaxVer, \E e \in ops : e.id = i
  PROVE  \E e \in ops : e.id = i /\ \A f \in ops : f.id = i => f.version <= e.version
<1> DEFINE T == {MaxVer - e.version : e \in {f \in ops : f.id = i}}
<1>0. MaxVer \in Nat
  BY HubAssumption
<1>1. T \subseteq Nat /\ T # {}
  BY <1>0
<1>2. PICK x \in T : \A y \in T : ~(<<y, x>> \in OpToRel(<, Nat))
  BY <1>1, WFMin, NatLessThanWellFounded
<1>3. \A y \in T : ~(y < x)
  BY <1>1, <1>2 DEF OpToRel
<1>4. PICK e \in ops : e.id = i /\ x = MaxVer - e.version
  BY <1>2
<1>5. ASSUME NEW f \in ops, f.id = i
      PROVE  f.version <= e.version
  <2>1. MaxVer - f.version \in T
    BY <1>5
  <2>2. ~(MaxVer - f.version < MaxVer - e.version)
    BY <1>3, <1>4, <2>1
  <2> QED
    BY <1>0, <2>2
<1> QED
  BY <1>4, <1>5

(* If the log covers version v, what Collect takes from it are the changes *)
(* since v, and applied to the rules of v they give the current rules.     *)
LEMMA Rebuilds ==
  ASSUME HubTyped, LogSound, NEW v \in 0..ver, CanCover(log, v)
  PROVE  /\ {e.version : e \in Collect(log, v, ver)} = (v + 1)..ver
         /\ ApplyOps(hist[epoch][v], Collect(log, v, ver)) = rules
         /\ Collect(log, v, ver) \in SUBSET LogEntry
<1>0. /\ epoch \in 1..MaxEpoch /\ ver \in 0..MaxVer /\ MaxVer \in Nat
      /\ rules \in RuleSets /\ log \in Seq(LogEntry) /\ hist \in Histories /\ MaxEpoch \in Nat
      /\ Len(log) \in Nat
  BY HubAssumption, SyncAssumption DEF HubTyped
<1> DEFINE ops == Collect(log, v, ver)
<1>1. \A n \in 1..Len(log) : log[n] \in LogEntry /\ log[n].version = ver - Len(log) + n
  BY <1>0 DEF LogSound
<1>2. Len(log) >= 1 /\ v \in (ver - Len(log))..ver /\ Len(log) <= ver
  <2>1. log # <<>> /\ v + 1 >= log[1].version
    BY DEF CanCover
  <2>2. Len(log) >= 1
    BY <1>0, <2>1
  <2>3. log[1].version = ver - Len(log) + 1
    BY <1>0, <1>1, <2>2
  <2> QED
    BY <1>0, <2>1, <2>2, <2>3 DEF LogSound
<1>3. ops = {log[n] : n \in (v - (ver - Len(log)) + 1)..Len(log)}
  <2>1. \A n \in 1..Len(log) : v < log[n].version /\ log[n].version <= ver
                                 <=> n \in (v - (ver - Len(log)) + 1)..Len(log)
    BY <1>0, <1>1, <1>2
  <2>2. (v - (ver - Len(log)) + 1)..Len(log) \subseteq 1..Len(log)
    BY <1>0, <1>2
  <2> QED
    BY <2>1, <2>2 DEF Collect
<1> DEFINE first == v - (ver - Len(log)) + 1
<1>4. first \in Nat /\ first >= 1
  BY <1>0, <1>2
<1>5. {e.version : e \in ops} = (v + 1)..ver
  <2>1. ASSUME NEW w \in (v + 1)..ver
        PROVE  \E e \in ops : e.version = w
    <3>1. w - (ver - Len(log)) \in first..Len(log) /\ w - (ver - Len(log)) \in 1..Len(log)
      BY <1>0, <1>2
    <3>2. log[w - (ver - Len(log))].version = w
      BY <1>0, <1>1, <3>1
    <3> QED
      BY <1>3, <3>1, <3>2
  <2>2. ASSUME NEW e \in ops
        PROVE  e.version \in (v + 1)..ver
    <3>1. PICK n \in first..Len(log) : e = log[n]
      BY <1>3
    <3>2. n \in 1..Len(log)
      BY <1>0, <1>4, <3>1
    <3> QED
      BY <1>0, <1>1, <1>2, <3>1, <3>2
  <2> HIDE DEF ops
  <2> QED
    BY <2>1, <2>2
<1>6. ops \in SUBSET LogEntry
  BY <1>1 DEF Collect
<1>7. ASSUME NEW i \in Ids
      PROVE  ApplyOps(hist[epoch][v], ops)[i] = rules[i]
  <2>1. CASE \E e \in ops : e.id = i
    <3> DEFINE Last(e) == e.id = i /\ \A f \in ops : f.id = i => f.version <= e.version
    <3>1. ASSUME NEW e \in ops
          PROVE  e.version \in 0..MaxVer
      <4>1. e.version \in {f.version : f \in ops}
        OBVIOUS
      <4>2. e.version \in (v + 1)..ver
        BY <1>5, <4>1
      <4> QED
        BY <1>0, <4>2
    <3>2. \E e \in ops : Last(e)
      BY <2>1, <3>1, LastChange
    <3>3. PICK e \in ops : e = (CHOOSE x \in ops : Last(x)) /\ Last(e)
      BY <3>2
    <3>4. ApplyOps(hist[epoch][v], ops)[i] = e.rule
      BY <2>1, <3>3 DEF ApplyOps
    <3>5. PICK n \in first..Len(log) : e = log[n]
      BY <1>3
    <3>6. n \in 1..Len(log)
      BY <1>0, <1>4, <3>5
    <3>7. ASSUME NEW m \in (n + 1)..Len(log)
          PROVE  log[m].id # log[n].id
      <4>1. m \in first..Len(log) /\ m \in 1..Len(log)
        BY <1>0, <1>4, <3>5
      <4>2. log[m] \in ops
        BY <1>3, <4>1
      <4>3. log[m].version > log[n].version
        BY <1>0, <1>1, <3>6, <4>1
      <4>4. log[m].version \in Nat /\ log[n].version \in Nat
        BY <1>1, <3>6, <4>1 DEF LogEntry
      <4> QED
        BY <3>3, <3>5, <4>2, <4>3, <4>4
    <3>8. log[n].rule = rules[log[n].id]
      BY <3>6, <3>7 DEF LogSound
    <3> QED
      BY <3>3, <3>4, <3>5, <3>8
  <2>2. CASE ~\E e \in ops : e.id = i
    <3>1. ApplyOps(hist[epoch][v], ops)[i] = hist[epoch][v][i]
      BY <2>2 DEF ApplyOps
    <3>2. ASSUME NEW n \in 1..Len(log), log[n].version > v
          PROVE  log[n].id # i
      <4>1. n \in first..Len(log)
        BY <1>0, <1>1, <1>2, <3>2
      <4> QED
        BY <1>3, <2>2, <4>1
    <3> QED
      BY <1>2, <3>1, <3>2 DEF LogSound
  <2> QED
    BY <2>1, <2>2
<1>8. ApplyOps(hist[epoch][v], ops) = rules
  <2>1. ApplyOps(hist[epoch][v], ops) = [i \in Ids |-> ApplyOps(hist[epoch][v], ops)[i]]
    BY DEF ApplyOps
  <2>2. rules = [i \in Ids |-> rules[i]]
    BY <1>0 DEF RuleSets
  <2> QED
    BY <1>7, <2>1, <2>2
<1> QED
  BY <1>5, <1>6, <1>8

(* The hub starts with sound types and an empty log.                       *)
LEMMA HubStarts ==
  ASSUME SyncInit
  PROVE  HubTyped /\ LogSound
<1>0. MaxEpoch \in Nat /\ 1 \in 1..MaxEpoch /\ MaxVer \in Nat /\ 0 \in 0..MaxVer
  BY HubAssumption, SyncAssumption
<1>1. [i \in Ids |-> NoRule] \in RuleSets
  BY DEF RuleSets
<1>2. hist \in Histories /\ hist[1][0] = [i \in Ids |-> NoRule]
  BY <1>0, <1>1 DEF SyncInit, Histories
<1>3. epoch = 1 /\ ver = 0 /\ announced = 0 /\ rules = [i \in Ids |-> NoRule] /\ log = <<>>
  BY DEF SyncInit, HubInit
<1>4. HubTyped
  BY <1>0, <1>1, <1>2, <1>3 DEF HubTyped
<1>5. Len(log) = 0 /\ (\A n : n \notin 1..Len(log)) /\ \A v \in (ver - Len(log))..ver : v = ver
  BY <1>3
<1>6. LogSound
  BY <1>2, <1>3, <1>5 DEF LogSound
<1> QED
  BY <1>4, <1>6

(* The hub's side is always sound.                                         *)
LEMMA HubInductive == SyncSpec => [](HubTyped /\ LogSound)
<1>1. ASSUME HubTyped /\ LogSound, [SyncNext]_vars
      PROVE  (HubTyped /\ LogSound)'
  <2>1. CASE SyncNext
    BY <1>1, <2>1, HubStays, LogStays
  <2>2. CASE UNCHANGED vars
    BY <1>1, <2>2 DEF vars, hubSide, hubVars, HubTyped, LogSound
  <2> QED
    BY <1>1, <2>1, <2>2
<1> QED
  BY <1>1, HubStarts, PTL DEF SyncSpec

(* For every number of ids and rules, every size of the change log and     *)
(* through every overflow and restart: a delta of nextPush from a version  *)
(* that canCover accepts holds exactly the changes since then and rebuilds *)
(* the current rules.                                                      *)
THEOREM DeltasRebuild == SyncSpec => []DeltaRebuilds
<1>1. HubTyped /\ LogSound => DeltaRebuilds
  BY Rebuilds DEF DeltaRebuilds
<1> QED
  BY <1>1, HubInductive, PTL

----------------------------------------------------------------------------
(* Where the sending loop of a session may be.                             *)
SendPcs == {"wait", "ready", "readied", "cur", "push", "mark", "emit", "sent", "ping", "bye", "done"}
(* Where its receiving loop may be.                                        *)
RecvPcs == {"hello", "bind", "replace", "replacing", "loop", "fail", "done"}
(* Who stops sessions: a newer session, or the daemon.                     *)
Stoppers == Conns \cup {None}
(* The states of a session, from NEW to CLOSED.                            *)
States == {"NEW", "HELLO", "SYNC", "OPEN", "DRAIN", "CLOSING", "CLOSED"}
(* What a session may be. Sequence numbers start at 1: 0 stands for no     *)
(* push in flight.                                                         *)
Sessions ==
  [st : States, send : SendPcs, recv : RecvPcs, token : BOOLEAN, ready : BOOLEAN, target : Nat,
   known : BOOLEAN, sync : Nat, syncVer : Nat, timed : BOOLEAN, sentVer : Nat, sentOnce : BOOLEAN,
   pushDue : BOOLEAN, dirty : BOOLEAN, forceFull : BOOLEAN, pingDue : BOOLEAN, ping : Nat,
   pings : Nat, nextSeq : Nat \ {0}, err : BOOLEAN, acked : Nat, due : SUBSET Stoppers,
   shut : SUBSET Stoppers]

(* The fields of a session.                                                *)
Fields ==
  {"st", "send", "recv", "token", "ready", "target", "known", "sync", "syncVer", "timed", "sentVer",
   "sentOnce", "pushDue", "dirty", "forceFull", "pingDue", "ping", "pings", "nextSeq", "err", "acked",
   "due", "shut"}
(* y is x but for the fields F: what a step says it leaves alone.          *)
Same(x, y, F) == \A f \in Fields \ F : y[f] = x[f]

(* The session is draining, closing or closed: no push is begun any more.  *)
Late(x) == x.st \in {"DRAIN", "CLOSING", "CLOSED"}
(* The session is closing or closed.                                       *)
Shut(x) == x.st \in {"CLOSING", "CLOSED"}

(* The body of HELLO, READY and ACK: an epoch and a version.               *)
Stamps == [epoch : Nat, version : Nat]
(* What sendCurrent reads in its first section: the version it starts      *)
(* from, and whether anything was sent.                                    *)
Plans == [from : Nat, once : BOOLEAN]
(* A snapshot as nextPush builds it.                                       *)
Snaps == [kind : {"SNAP"}, epoch : Nat, version : Nat, rules : RuleSets]
(* A delta as nextPush builds it.                                          *)
Deltas == [kind : {"DELTA"}, epoch : Nat, prev : Nat, version : Nat, ops : SUBSET LogEntry]
(* What a session may hold between the sections of sendCurrent: nothing,   *)
(* the plan, or the push.                                                  *)
Outs == {None} \cup Plans \cup Snaps \cup Deltas
(* The messages that carry rules.                                          *)
PushKinds == {"SNAP", "DELTA"}
(* What the hub writes to a gateway.                                       *)
GwMsgs == [kind : {"READY", "PING", "ERR", "BYE"} \cup PushKinds, seq : Nat,
           body : {None} \cup Stamps \cup Snaps \cup Deltas]
(* What a gateway writes to the hub.                                       *)
HubMsgs == [kind : {"HELLO", "ACK", "SNAP_REQ", "PONG"}, seq : Nat, body : {None} \cup Stamps]

(* The types of what the hub keeps per connection, and of what is on the   *)
(* way to the gateway.                                                     *)
HubEnds ==
  /\ sess \in [Conns -> Sessions] /\ out \in [Conns -> Outs]
  /\ hubOpen \in [Conns -> BOOLEAN] /\ toGw \in [Conns -> Seq(GwMsgs)]
(* The types of the gateway's side, and of what is on the way to the hub.  *)
GwEnds ==
  /\ gwOpen \in [Conns -> BOOLEAN] /\ toHub \in [Conns -> Seq(HubMsgs)]
  /\ conn \in Conns \cup {None} /\ client \in {"DOWN", "HELLO", "SYNC", "OPEN", "BACKOFF"}
  /\ linkEpoch \in Nat /\ badSync \in {0, 1}
  /\ gEpoch \in Nat /\ gVer \in Nat /\ gRules \in RuleSets
  /\ draining \in BOOLEAN

(* A push is right if the hub has had its version, a snapshot holds the    *)
(* rules of that version, and a delta leads from the rules of its start,   *)
(* which the hub has had too, to those of its end.                         *)
SoundAt(p, ep, ve, hi) ==
  /\ p \in Snaps \cup Deltas /\ Known(p.epoch, p.version, ep, ve)
  /\ p.kind = "SNAP" => p.rules = hi[p.epoch][p.version]
  /\ p.kind = "DELTA" =>
       /\ Known(p.epoch, p.prev, ep, ve)
       /\ ApplyOps(hi[p.epoch][p.prev], p.ops) = hi[p.epoch][p.version]

(* A session never claims a version beyond the hub's.                      *)
Within(x, ve) == x.sentVer <= ve /\ x.target <= ve /\ x.syncVer <= ve
(* What a session holds between the sections of sendCurrent: a start the   *)
(* hub has had, then a right push of this epoch.                           *)
Planned(x, o, ep, ve, hi) ==
  /\ x.send = "push" => o \in Plans /\ o.from <= ve
  /\ x.send \in {"mark", "emit", "sent"} => SoundAt(o, ep, ve, hi) /\ o.epoch = ep /\ o.version <= ve
(* Every push on the way to a gateway is right, and is labelled by its     *)
(* kind.                                                                   *)
Carries(q, ep, ve, hi) ==
  \A n \in 1..Len(q) :
    /\ q[n].kind \in PushKinds => SoundAt(q[n].body, ep, ve, hi) /\ q[n].body.kind = q[n].kind
    /\ q[n].kind = "READY" => q[n].body \in Stamps
(* HELLO and ACK carry an epoch and a version.                             *)
Stamped(q) == \A n \in 1..Len(q) : q[n].kind \in {"HELLO", "ACK"} => q[n].body \in Stamps
(* Until the hello is handled it is the first message to read.             *)
Starts(x, q) == x.recv \in {"hello", "bind"} => q # <<>> /\ Head(q).kind = "HELLO"

(* What holds of one connection: closed sessions are empty, versions, held *)
(* pushes and messages are right.                                          *)
LinkSound(s) ==
  /\ sess[s].st = "CLOSED" => sess[s] = ClosedSession
  /\ Within(sess[s], ver)
  /\ Planned(sess[s], out[s], epoch, ver, hist)
  /\ Carries(toGw[s], epoch, ver, hist)
  /\ Stamped(toHub[s])
  /\ Starts(sess[s], toHub[s])

(* What holds of the gateway: it has an open end for its one connection    *)
(* only, and its copy is a rule set the hub has had.                       *)
GwSound ==
  /\ \A s \in Conns : gwOpen[s] <=> conn = s
  /\ client \in {"HELLO", "SYNC", "OPEN"} <=> conn # None
  /\ gEpoch # 0 => Known(gEpoch, gVer, epoch, ver) /\ SameRules(gRules, hist[gEpoch][gVer])

(* The inductive invariant behind NotTorn, and the ground the others stand *)
(* on: all that was ever sent is what the hub had.                         *)
BaseInv ==
  /\ HubTyped /\ LogSound /\ HubEnds /\ GwEnds
  /\ \A s \in Conns : LinkSound(s)
  /\ GwSound

----------------------------------------------------------------------------
(* The order of the states, as Before and Late use it.                     *)
LEMMA Ranks ==
  /\ DOMAIN Rank = States
  /\ \A st \in States :
       /\ Rank[st] \in Nat
       /\ Rank[st] < Rank["DRAIN"] <=> st \notin {"DRAIN", "CLOSING", "CLOSED"}
       /\ Rank[st] >= Rank["DRAIN"] <=> st \in {"DRAIN", "CLOSING", "CLOSED"}
       /\ Rank[st] < Rank["CLOSING"] <=> st \notin {"CLOSING", "CLOSED"}
BY DEF Rank, States

(* The same for a session.                                                 *)
LEMMA RanksOf ==
  ASSUME NEW x \in Sessions
  PROVE  /\ Rank[x.st] < Rank["DRAIN"] <=> ~Late(x)
         /\ Rank[x.st] >= Rank["DRAIN"] <=> Late(x)
         /\ Rank[x.st] < Rank["CLOSING"] <=> ~Shut(x)
<1>1. x.st \in States
  BY DEF Sessions
<1> QED
  BY <1>1, Ranks DEF Late, Shut

(* A new session is one.                                                   *)
LEMMA NewTyped ==
  ASSUME NEW st \in States, NEW pos \in {"wait", "done"}
  PROVE  /\ NewSession(st, pos) \in Sessions
         /\ NewSession(st, pos).st = st /\ NewSession(st, pos).send = pos
         /\ NewSession(st, pos).recv = IF pos = "wait" THEN "hello" ELSE "done"
<1> QED
  BY DEF NewSession, Sessions, SendPcs, RecvPcs

(* What happens to a session x whose loop ends (an error, an end of file,  *)
(* a lost link): one loop is done, the other has its token to notice, and  *)
(* when both are done it is gone.                                          *)
Stops(x, y) ==
  /\ y.recv = x.recv \/ (x.recv = "fail" /\ y.recv = "done")
  /\ \/ y = ClosedSession
     \/ /\ y.st \in {x.st, "CLOSING"}
        /\ y.send = "done" \/ y.recv = "done"
        /\ y.send = "done" \/ (y.send = x.send /\ y.token /\ y.sync = x.sync)
        /\ y.sync = 0 => x.sync = 0
        /\ y.ready => x.ready
        /\ Same(x, y, {"st", "send", "recv", "token", "ready", "sync", "syncVer", "timed", "nextSeq",
                       "dirty", "pushDue", "ping", "pings", "pingDue"})

(* The sending loop takes its token and goes round.                        *)
Wakes(x, y) ==
  /\ x.send = "wait" /\ x.token /\ ~x.err /\ x.st # "CLOSING" /\ ~y.token
  /\ y.send = IF x.ready THEN "ready" ELSE "cur"
  /\ Same(x, y, {"send", "token"})
(* READY is sent.                                                          *)
Greets(x, y) ==
  x.send = "ready" /\ y.send = "readied" /\ ~y.ready /\ Same(x, y, {"send", "ready"})
(* After READY: a gateway that has the target is OPEN, another one is due  *)
(* a push (sendReady).                                                     *)
Decides(x, y) ==
  /\ x.send = "readied" /\ y.send = "cur" /\ Same(x, y, {"send", "st", "pushDue"})
  /\ \/ Late(x) /\ y.st = x.st /\ y.pushDue = x.pushDue
     \/ ~Late(x) /\ x.sentOnce /\ x.sentVer = x.target /\ y.st = "OPEN" /\ y.pushDue = x.pushDue
     \/ ~Late(x) /\ y.st = "SYNC" /\ y.pushDue
(* sendCurrent returns early: the session is late, a push is in flight     *)
(* (what is due becomes dirty), or nothing is due.                         *)
Waits(x, y) ==
  /\ x.send = "cur" /\ y.send = "ping" /\ Same(x, y, {"send", "dirty", "pushDue"})
  /\ \/ Late(x) /\ y.dirty = x.dirty /\ y.pushDue = x.pushDue
     \/ ~Late(x) /\ x.sync # 0 /\ (y.dirty <=> x.dirty \/ x.pushDue) /\ ~y.pushDue
     \/ ~Late(x) /\ x.sync = 0 /\ ~x.pushDue /\ y.dirty = x.dirty /\ ~y.pushDue
(* The first section of sendCurrent takes the due push and notes where it  *)
(* starts.                                                                 *)
Begins(x, y, o) ==
  /\ x.send = "cur" /\ ~Late(x) /\ x.sync = 0 /\ y.send = "push" /\ ~y.pushDue
  /\ y.sentOnce => x.sentOnce
  /\ Same(x, y, {"send", "pushDue", "forceFull", "sentOnce"})
  /\ o \in Plans /\ o.from = x.sentVer /\ (o.once <=> y.sentOnce)
(* Nothing changed since the version sent last: no push, and the session   *)
(* is OPEN.                                                                *)
Agrees(x, y, o, v) ==
  /\ x.send = "push" /\ o.once /\ o.from = v /\ y.send = "ping"
  /\ y.st = IF Late(x) THEN x.st ELSE "OPEN"
  /\ Same(x, y, {"send", "st"})
(* nextPush has built a push.                                              *)
Fetches(x, y) == x.send = "push" /\ y.send = "mark" /\ Same(x, y, {"send"})
(* The second section of sendCurrent marks the push as in flight, in state *)
(* SYNC, before it is written.                                             *)
Marks(x, y, o) ==
  /\ x.send = "mark" /\ y.send = "emit" /\ y.st = "SYNC"
  /\ y.sync = x.nextSeq /\ y.syncVer = o.version
  /\ ~y.pushDue /\ (y.dirty <=> x.dirty \/ x.pushDue)
  /\ Same(x, y, {"send", "sync", "nextSeq", "syncVer", "timed", "dirty", "pushDue", "st"})
(* The push is written.                                                    *)
Emits(x, y) == x.send = "emit" /\ y.send = "sent" /\ Same(x, y, {"send"})
(* The third section, after the write, notes the version as sent; the      *)
(* answer may have come already.                                           *)
Settles(x, y, o) ==
  /\ x.send = "sent" /\ y.send = "ping" /\ y.sentVer = o.version /\ y.sentOnce
  /\ Same(x, y, {"send", "sentVer", "sentOnce", "timed"})
(* No PING or BYE is due.                                                  *)
Passes(x, y) ==
  \/ x.send = "ping" /\ y.send = "bye" /\ Same(x, y, {"send"})
  \/ x.send = "bye" /\ y.send = "wait" /\ Same(x, y, {"send"})
(* A PING is sent.                                                         *)
Pings(x, y) ==
  x.send = "ping" /\ y.send = "bye" /\ Same(x, y, {"send", "pingDue", "ping", "nextSeq", "pings"})

(* What Closing and Ended do to a session.                                 *)
LEMMA EndTyped ==
  ASSUME NEW x \in Sessions
  PROVE  /\ Closing(x) \in Sessions /\ Ended(x) \in Sessions
         /\ Closing(x).st = IF Shut(x) THEN x.st ELSE "CLOSING"
         /\ Same(x, Closing(x), {"st"})
         /\ Ended(x) = IF x.send = "done" /\ x.recv = "done" THEN ClosedSession ELSE x
<1>1. ClosedSession \in Sessions
  BY NewTyped DEF ClosedSession, States
<1>2. [x EXCEPT !.st = "CLOSING"] \in Sessions
  BY DEF Sessions, States
<1>3. Same(x, [x EXCEPT !.st = "CLOSING"], {"st"}) /\ [x EXCEPT !.st = "CLOSING"].st = "CLOSING"
  BY DEF Sessions, Same, Fields
<1>4. Same(x, x, {"st"})
  BY DEF Same
<1> QED
  BY <1>1, <1>2, <1>3, <1>4, RanksOf DEF Closing, Ended

(* The session of connection s becomes y.                                  *)
Here(s, y) == sess' = [sess EXCEPT ![s] = y]
(* Neither the hub's rules nor the gateway change.                         *)
Steady == UNCHANGED <<epoch, ver, rules, log, hist, announced, draining, conn, client, linkEpoch, badSync,
                      gEpoch, gVer, gRules>>
(* Nothing of connection s changes.                                        *)
Quiet(s) ==
  /\ sess'[s] = sess[s] /\ out'[s] = out[s] /\ toGw'[s] = toGw[s]
  /\ toHub'[s] = toHub[s] /\ gwOpen'[s] = gwOpen[s] /\ hubOpen'[s] = hubOpen[s]
(* What is kept per connection stays a function.                           *)
Functions ==
  /\ sess' = [p \in Conns |-> sess'[p]] /\ out' = [p \in Conns |-> out'[p]]
  /\ toGw' = [p \in Conns |-> toGw'[p]] /\ toHub' = [p \in Conns |-> toHub'[p]]
  /\ gwOpen' = [p \in Conns |-> gwOpen'[p]] /\ hubOpen' = [p \in Conns |-> hubOpen'[p]]
(* A step of connection s only.                                            *)
Alone(s) == Steady /\ Functions /\ \A p \in Conns \ {s} : Quiet(p)

(* Nothing is read, written or closed.                                     *)
Silent(s) ==
  /\ toGw'[s] = toGw[s] /\ toHub'[s] = toHub[s] /\ gwOpen'[s] = gwOpen[s]
  /\ hubOpen'[s] = hubOpen[s]
(* The hub writes m; both ends are open.                                   *)
Says(s, m) ==
  /\ Wired(s) /\ toGw'[s] = Append(toGw[s], m)
  /\ toHub'[s] = toHub[s] /\ gwOpen'[s] = gwOpen[s] /\ hubOpen'[s] = hubOpen[s]
(* The hub reads the first message.                                        *)
Takes(s) ==
  /\ toHub[s] # <<>> /\ toHub'[s] = Tail(toHub[s])
  /\ toGw'[s] = toGw[s] /\ gwOpen'[s] = gwOpen[s] /\ hubOpen'[s] = hubOpen[s]

(* A loop of s ends: the hub's socket is closed, at most ERR or BYE is     *)
(* written before.                                                         *)
Quits(s) ==
  /\ sess'[s] \in Sessions
  /\ Stops(sess[s], sess'[s]) /\ sess'[s].syncVer <= ver /\ sess[s].st # "CLOSED"
  /\ out'[s] = out[s] \/ (out'[s] = None /\ sess'[s].send = "done")
  /\ hubOpen'[s] = FALSE /\ toHub'[s] = toHub[s] /\ gwOpen'[s] = gwOpen[s]
  /\ \/ toGw'[s] = toGw[s]
     \/ Wired(s) /\ \E k \in {"ERR", "BYE"} : toGw'[s] = Append(toGw[s], Msg(k, 0, None))

(* What a step of the sending loop can be.                                 *)
SendKinds(s) ==
  /\ sess'[s] \in Sessions
  /\ \/ Quits(s)
     \/ Silent(s) /\ Wakes(sess[s], sess'[s]) /\ out'[s] = out[s]
     \/ Silent(s) /\ Decides(sess[s], sess'[s]) /\ out'[s] = out[s]
     \/ Silent(s) /\ Waits(sess[s], sess'[s]) /\ out'[s] = out[s]
     \/ Silent(s) /\ Begins(sess[s], sess'[s], out'[s])
     \/ Silent(s) /\ Agrees(sess[s], sess'[s], out[s], ver) /\ out'[s] = None
     \/ /\ Silent(s) /\ Fetches(sess[s], sess'[s]) /\ out'[s] = NextPush(out[s].from, out[s].once)
        /\ ~NothingToPush(out[s].from, out[s].once)
     \/ Silent(s) /\ Settles(sess[s], sess'[s], out[s]) /\ out'[s] = None
     \/ Silent(s) /\ Passes(sess[s], sess'[s]) /\ out'[s] = out[s]
     \/ /\ Greets(sess[s], sess'[s]) /\ out'[s] = out[s]
        /\ Says(s, Msg("READY", 1, [epoch |-> epoch, version |-> sess[s].target]))
     \/ Silent(s) /\ Marks(sess[s], sess'[s], out[s]) /\ out'[s] = out[s]
     \/ /\ Emits(sess[s], sess'[s]) /\ out'[s] = out[s]
        /\ Says(s, Msg(out[s].kind, sess[s].nextSeq - 1, out[s]))
     \/ /\ Pings(sess[s], sess'[s]) /\ out'[s] = out[s]
        /\ Says(s, Msg("PING", sess[s].nextSeq, None))

(* A step written with EXCEPT for s touches s alone.                       *)
LEMMA AloneIs ==
  ASSUME HubEnds, GwEnds, NEW s \in Conns, Steady,
         NEW y, Here(s, y), NEW o, out' = [out EXCEPT ![s] = o], NEW g,
         toGw' = [toGw EXCEPT ![s] = g],
         NEW h, toHub' = [toHub EXCEPT ![s] = h], NEW b, hubOpen' = [hubOpen EXCEPT ![s] = b],
         gwOpen' = gwOpen
  PROVE  /\ Alone(s) /\ sess'[s] = y /\ out'[s] = o /\ toGw'[s] = g /\ toHub'[s] = h
         /\ hubOpen'[s] = b /\ gwOpen'[s] = gwOpen[s]
<1>1. sess'[s] = y /\ sess' = [p \in Conns |-> sess'[p]] /\ \A p \in Conns \ {s} : sess'[p] = sess[p]
  BY DEF HubEnds, Here
<1>2. out'[s] = o /\ out' = [p \in Conns |-> out'[p]] /\ \A p \in Conns \ {s} : out'[p] = out[p]
  BY DEF HubEnds
<1>3. toGw'[s] = g /\ toGw' = [p \in Conns |-> toGw'[p]] /\ \A p \in Conns \ {s} : toGw'[p] = toGw[p]
  BY DEF HubEnds
<1>4. toHub'[s] = h /\ toHub' = [p \in Conns |-> toHub'[p]] /\ \A p \in Conns \ {s} : toHub'[p] = toHub[p]
  BY DEF GwEnds
<1>5. hubOpen'[s] = b /\ hubOpen' = [p \in Conns |-> hubOpen'[p]]
      /\ \A p \in Conns \ {s} : hubOpen'[p] = hubOpen[p]
  BY DEF HubEnds
<1>6. gwOpen' = [p \in Conns |-> gwOpen'[p]] /\ \A p \in Conns : gwOpen'[p] = gwOpen[p]
  BY DEF GwEnds
<1> QED
  BY <1>1, <1>2, <1>3, <1>4, <1>5, <1>6 DEF Alone, Functions, Quiet

(* Assigning the old value is no change.                                   *)
LEMMA Keeps ==
  ASSUME HubEnds, GwEnds, NEW s \in Conns
  PROVE  /\ out = [out EXCEPT ![s] = out[s]] /\ toGw = [toGw EXCEPT ![s] = toGw[s]]
         /\ toHub = [toHub EXCEPT ![s] = toHub[s]] /\ hubOpen = [hubOpen EXCEPT ![s] = hubOpen[s]]
         /\ sess = [sess EXCEPT ![s] = sess[s]]
BY DEF HubEnds, GwEnds

(* What a session's step leaves alone.                                     *)
LEMMA SteadyIs ==
  ASSUME UNCHANGED Elsewhere
  PROVE  Steady
BY DEF Elsewhere, hubSide, hubVars, clientVars, guardVars, Steady

(* The session as it is when its sending loop gives up.                    *)
Fails(x, z) ==
  /\ z.st \in {x.st, "CLOSING"}
  /\ z.recv = x.recv /\ (z.sync = 0 => x.sync = 0) /\ (z.ready => x.ready)
  /\ Same(x, z, {"st", "send", "recv", "token", "ready", "sync", "syncVer", "timed", "nextSeq",
                 "dirty", "pushDue", "ping", "pings", "pingDue"})

(* The sending loop that gives up ends as Stops says.                      *)
LEMMA StopsAtSend ==
  ASSUME NEW x \in Sessions, NEW z \in Sessions, Fails(x, z)
  PROVE  LET y == Ended([z EXCEPT !.send = "done"])
         IN  y \in Sessions /\ Stops(x, y) /\ (y.syncVer = z.syncVer \/ y.syncVer = 0) /\ y.send = "done"
<1>1. PICK w \in Sessions : w = [z EXCEPT !.send = "done"] /\ w.send = "done" /\ Same(z, w, {"send"})
  <2>1. [z EXCEPT !.send = "done"] \in Sessions
    BY DEF Sessions, SendPcs
  <2>2. [z EXCEPT !.send = "done"].send = "done" /\ Same(z, [z EXCEPT !.send = "done"], {"send"})
    BY DEF Sessions, Same, Fields
  <2> QED
    BY <2>1, <2>2
<1>2. /\ w.recv = x.recv /\ w.st \in {x.st, "CLOSING"}
      /\ (w.sync = 0 => x.sync = 0) /\ (w.ready => x.ready) /\ w.syncVer = z.syncVer
  BY <1>1 DEF Same, Fields, Fails
<1>3. Same(x, w, {"st", "send", "recv", "token", "ready", "sync", "syncVer", "timed", "nextSeq",
                  "dirty", "pushDue", "ping", "pings", "pingDue"})
  BY <1>1 DEF Same, Fields, Fails
<1>4. Stops(x, w)
  BY <1>1, <1>2, <1>3 DEF Stops
<1>5. /\ ClosedSession.syncVer = 0 /\ ClosedSession.send = "done"
      /\ x.recv = "done" => Stops(x, ClosedSession)
  BY DEF ClosedSession, NewSession, Stops
<1> QED
  BY <1>1, <1>2, <1>4, <1>5, EndTyped

(* A sending loop that ends, with or without a last ERR or BYE, quits.     *)
LEMMA Ends ==
  ASSUME BaseInv, NEW s \in Conns, NEW z \in Sessions, Fails(sess[s], z), z.syncVer <= ver,
         sess[s].st # "CLOSED", SendEnds(s, z), Steady,
         NEW o \in {out[s], None}, out' = [out EXCEPT ![s] = o],
         NEW g, toGw' = [toGw EXCEPT ![s] = g],
         g = toGw[s] \/ (Wired(s) /\ \E k \in {"ERR", "BYE"} : g = Append(toGw[s], Msg(k, 0, None))),
         UNCHANGED <<toHub, gwOpen>>
  PROVE  Alone(s) /\ Quits(s)
<1>0. HubEnds /\ GwEnds /\ sess[s] \in Sessions /\ ver \in Nat
  BY HubAssumption DEF BaseInv, HubEnds, HubTyped
<1>1. PICK y : y = Ended([z EXCEPT !.send = "done"])
  OBVIOUS
<1>2. /\ y \in Sessions /\ Stops(sess[s], y) /\ (y.syncVer = z.syncVer \/ y.syncVer = 0)
      /\ y.send = "done"
  BY <1>0, <1>1, StopsAtSend
<1>3. Here(s, y) /\ hubOpen' = [hubOpen EXCEPT ![s] = FALSE]
  BY <1>1 DEF SendEnds, Here
<1>4. toHub' = [toHub EXCEPT ![s] = toHub[s]] /\ gwOpen' = gwOpen
  BY <1>0, Keeps
<1>5. /\ Alone(s) /\ sess'[s] = y /\ out'[s] = o /\ toGw'[s] = g /\ toHub'[s] = toHub[s]
      /\ hubOpen'[s] = FALSE /\ gwOpen'[s] = gwOpen[s]
  <2> HIDE DEF Steady, Alone, Here
  <2> QED
    BY <1>0, <1>3, <1>4, AloneIs
<1>6. y.syncVer <= ver
  BY <1>0, <1>2
<1> QED
  BY <1>2, <1>5, <1>6 DEF Quits

(* A write succeeds or the loop ends: a lost link is noticed at the write. *)
LEMMA Speaks ==
  ASSUME BaseInv, NEW s \in Conns, NEW y \in Sessions, Fails(sess[s], Closing(y)), y.syncVer <= ver,
         sess[s].st # "CLOSED", NEW m, SendOrFail(s, m, y), Steady,
         NEW o, out' = [out EXCEPT ![s] = o], Wired(s) => o = out[s], o \in {out[s], None}
  PROVE  /\ Alone(s)
         /\ Quits(s) \/ (Says(s, m) /\ sess'[s] = y /\ out'[s] = out[s])
<1>0. HubEnds /\ GwEnds /\ sess[s] \in Sessions /\ ver \in Nat
  BY HubAssumption DEF BaseInv, HubEnds, HubTyped
<1>1. CASE Wired(s)
  <2>1. /\ toGw' = [toGw EXCEPT ![s] = Append(toGw[s], m)] /\ Here(s, y) /\ hubOpen' = hubOpen
        /\ toHub' = toHub /\ gwOpen' = gwOpen
    BY <1>1 DEF SendOrFail, Here
  <2>2. toHub' = [toHub EXCEPT ![s] = toHub[s]] /\ hubOpen' = [hubOpen EXCEPT ![s] = hubOpen[s]]
    BY <1>0, <2>1, Keeps
  <2>3. /\ Alone(s) /\ sess'[s] = y /\ out'[s] = o /\ toGw'[s] = Append(toGw[s], m)
        /\ toHub'[s] = toHub[s] /\ hubOpen'[s] = hubOpen[s] /\ gwOpen'[s] = gwOpen[s]
    <3>1. PICK g : g = Append(toGw[s], m)
      OBVIOUS
    <3>2. toGw' = [toGw EXCEPT ![s] = g]
      BY <2>1, <3>1
    <3>3. Here(s, y) /\ gwOpen' = gwOpen
      BY <2>1
    <3>4. PICK b : b = hubOpen[s] /\ hubOpen' = [hubOpen EXCEPT ![s] = b]
      BY <2>2
    <3>5. PICK h : h = toHub[s] /\ toHub' = [toHub EXCEPT ![s] = h]
      BY <2>2
    <3>0. HubEnds /\ GwEnds
      BY <1>0
    <3>6. /\ Alone(s) /\ sess'[s] = y /\ out'[s] = o /\ toGw'[s] = g
          /\ toHub'[s] = h /\ hubOpen'[s] = b /\ gwOpen'[s] = gwOpen[s]
      BY ONLY <3>0, Steady, out' = [out EXCEPT ![s] = o], <3>2, <3>3, <3>4, <3>5, AloneIs
    <3> QED
      BY <3>1, <3>4, <3>5, <3>6
  <2> QED
    BY <1>1, <2>3 DEF Says
<1>2. CASE ~Wired(s)
  <2>1. SendEnds(s, Closing(y)) /\ toGw' = toGw /\ UNCHANGED <<toHub, gwOpen>>
    BY <1>2 DEF SendOrFail
  <2>2. toGw' = [toGw EXCEPT ![s] = toGw[s]]
    BY <1>0, <2>1, Keeps
  <2>3. Closing(y) \in Sessions /\ Closing(y).syncVer = y.syncVer
    BY EndTyped DEF Same, Fields
  <2> QED
    BY <2>1, <2>2, <2>3, Ends
<1> QED
  BY <1>1, <1>2

(* A step of the sending loop that writes nothing.                         *)
LEMMA Mute ==
  ASSUME BaseInv, NEW s \in Conns, NEW y, Here(s, y), Steady, NEW o, out' = [out EXCEPT ![s] = o],
         UNCHANGED wires
  PROVE  Alone(s) /\ Silent(s) /\ sess'[s] = y /\ out'[s] = o
<1>0. HubEnds /\ GwEnds
  BY DEF BaseInv
<1>1. /\ toHub' = [toHub EXCEPT ![s] = toHub[s]] /\ hubOpen' = [hubOpen EXCEPT ![s] = hubOpen[s]]
      /\ toGw' = [toGw EXCEPT ![s] = toGw[s]] /\ gwOpen' = gwOpen
  BY <1>0, Keeps DEF wires
<1>2. /\ Alone(s) /\ sess'[s] = y /\ out'[s] = o /\ toGw'[s] = toGw[s]
      /\ toHub'[s] = toHub[s] /\ hubOpen'[s] = hubOpen[s] /\ gwOpen'[s] = gwOpen[s]
  BY <1>0, <1>1, AloneIs
<1> QED
  BY <1>2 DEF Silent

(* A session with a running loop is not closed.                            *)
LEMMA Awake ==
  ASSUME BaseInv, NEW s \in Conns
  PROVE  /\ sess[s] \in Sessions /\ ver \in Nat /\ sess[s].syncVer <= ver
         /\ sess[s].send # "done" => sess[s].st # "CLOSED"
         /\ sess[s].recv # "done" => sess[s].st # "CLOSED"
         /\ out = [out EXCEPT ![s] = out[s]] /\ toGw = [toGw EXCEPT ![s] = toGw[s]]
         /\ sess[s].send \in SendPcs
<1>1. HubEnds /\ GwEnds /\ LinkSound(s) /\ ver \in Nat /\ sess[s] \in Sessions
  BY HubAssumption DEF BaseInv, HubTyped, HubEnds
<1>2. ClosedSession.send = "done" /\ ClosedSession.recv = "done"
  BY NewTyped DEF ClosedSession, States
<1>3. out = [out EXCEPT ![s] = out[s]] /\ toGw = [toGw EXCEPT ![s] = toGw[s]]
  BY <1>1, Keeps
<1>4. sess[s].send \in SendPcs
  BY <1>1 DEF Sessions
<1> QED
  BY <1>1, <1>2, <1>3, <1>4 DEF LinkSound, Within

(* The top of sendLoop: the loop takes its token, or ends with the error   *)
(* it has to report.                                                       *)
LEMMA WakeDoes ==
  ASSUME BaseInv, NEW s \in Conns, SendWake(s)
  PROVE  Alone(s) /\ SendKinds(s)
<1>1. PICK x \in Sessions : x = sess[s]
  BY Awake
<1>2. PICK z \in Sessions : z = [x EXCEPT !.token = FALSE] /\ ~z.token /\ Same(x, z, {"token"})
  <2>1. [x EXCEPT !.token = FALSE] \in Sessions
    BY DEF Sessions
  <2>2. ~[x EXCEPT !.token = FALSE].token /\ Same(x, [x EXCEPT !.token = FALSE], {"token"})
    BY DEF Sessions, Same, Fields
  <2> QED
    BY <2>1, <2>2
<1>3. /\ z.st = x.st /\ z.send = x.send /\ z.recv = x.recv /\ z.sync = x.sync
      /\ (z.ready <=> x.ready)
      /\ (z.err <=> x.err) /\ z.syncVer = x.syncVer
  BY <1>2 DEF Same, Fields
<1>4. /\ x.send = "wait" /\ x.token /\ x.st # "CLOSED" /\ z.syncVer <= ver /\ Steady
      /\ out' = [out EXCEPT ![s] = out[s]] /\ UNCHANGED <<toHub, gwOpen>>
  BY <1>1, <1>2, <1>3, Awake, SteadyIs DEF SendWake
<1>5. Fails(x, z)
  BY <1>2, <1>3 DEF Fails, Same, Fields
<1>6. CASE z.err
  <2>1. /\ SendEnds(s, z)
        /\ toGw' = IF Wired(s) THEN [toGw EXCEPT ![s] = Append(@, Msg("ERR", 0, None))] ELSE toGw
    BY <1>1, <1>2, <1>6 DEF SendWake
  <2>2. PICK g : /\ toGw' = [toGw EXCEPT ![s] = g]
                 /\ \/ g = toGw[s]
                    \/ Wired(s) /\ \E k \in {"ERR", "BYE"} : g = Append(toGw[s], Msg(k, 0, None))
    BY <2>1, Awake
  <2>3. Alone(s) /\ Quits(s)
    <3>1. UNCHANGED <<toHub, gwOpen>> /\ out' = [out EXCEPT ![s] = out[s]] /\ Steady
      BY <1>4
    <3>2. Fails(sess[s], z) /\ sess[s].st # "CLOSED" /\ z.syncVer <= ver
      BY <1>1, <1>4, <1>5, <1>6
    <3> QED
      BY ONLY BaseInv, s \in Conns, z \in Sessions, <2>1, <2>2, <3>1, <3>2, Ends
  <2> QED
    BY <2>3 DEF SendKinds, Quits
<1>7. CASE ~z.err /\ z.st = "CLOSING"
  <2>1. SendEnds(s, z) /\ toGw' = toGw
    BY <1>1, <1>2, <1>7 DEF SendWake
  <2>2. toGw' = [toGw EXCEPT ![s] = toGw[s]]
    BY <2>1, Awake
  <2>3. Alone(s) /\ Quits(s)
    <3>1. UNCHANGED <<toHub, gwOpen>> /\ out' = [out EXCEPT ![s] = out[s]] /\ Steady
      BY <1>4
    <3>2. Fails(sess[s], z) /\ sess[s].st # "CLOSED" /\ z.syncVer <= ver
      BY <1>1, <1>4, <1>5, <1>7
    <3> QED
      BY ONLY BaseInv, s \in Conns, z \in Sessions, <2>1, <2>2, <3>1, <3>2, Ends
  <2> QED
    BY <2>3 DEF SendKinds, Quits
<1>8. CASE ~z.err /\ z.st # "CLOSING"
  <2>1. PICK p \in {"ready", "cur"} : p = IF z.ready THEN "ready" ELSE "cur"
    OBVIOUS
  <2>2. PICK y : y = [z EXCEPT !.send = p]
    OBVIOUS
  <2>3. Here(s, y) /\ UNCHANGED wires
    BY <1>1, <1>2, <1>4, <1>8, <2>1, <2>2 DEF SendWake, Here, wires
  <2>4. y.send = p /\ Same(x, y, {"send", "token"}) /\ ~y.token
    BY <1>2, <2>2 DEF Sessions, Same, Fields
  <2>5. Wakes(x, y)
    BY <1>2, <1>3, <1>4, <1>8, <2>1, <2>4 DEF Wakes
  <2>6. Alone(s) /\ Silent(s) /\ sess'[s] = y /\ out'[s] = out[s]
    BY <1>4, <2>3, Mute
  <2>7. y \in Sessions
    BY <2>2 DEF Sessions, SendPcs
  <2> QED
    BY <1>1, <2>5, <2>6, <2>7 DEF SendKinds
<1> QED
  BY <1>6, <1>7, <1>8

(* sendReady writes READY.                                                 *)
LEMMA ReadyDoes ==
  ASSUME BaseInv, NEW s \in Conns, SendReady(s)
  PROVE  Alone(s) /\ SendKinds(s)
<1>1. PICK x \in Sessions : x = sess[s]
  BY Awake
<1>2. PICK y : y = [x EXCEPT !.ready = FALSE, !.send = "readied"]
  OBVIOUS
<1>3. y \in Sessions
  BY <1>2 DEF Sessions, SendPcs
<1>4. y.send = "readied" /\ ~y.ready /\ Same(x, y, {"send", "ready"})
  BY <1>2 DEF Sessions, Same, Fields
<1>5. PICK m : m = Msg("READY", 1, [epoch |-> epoch, version |-> x.target])
  OBVIOUS
<1>6. /\ x.send = "ready" /\ x.st # "CLOSED" /\ Steady /\ out' = [out EXCEPT ![s] = out[s]]
      /\ SendOrFail(s, m, y)
  BY <1>1, <1>2, <1>5, Awake, SteadyIs DEF SendReady
<1>7. Greets(x, y)
  BY <1>4, <1>6 DEF Greets
<1>8. y.syncVer <= ver
  BY <1>1, <1>4, Awake DEF Same, Fields
<1>9. Fails(x, Closing(y))
  <2>1. Closing(y).st = "CLOSING" /\ Same(y, Closing(y), {"st"})
    BY <1>3, <1>4, <1>6, EndTyped DEF Same, Fields, Shut
  <2> QED
    BY <1>4, <2>1 DEF Fails, Same, Fields
<1>10. Alone(s) /\ (Quits(s) \/ (Says(s, m) /\ sess'[s] = y /\ out'[s] = out[s]))
  BY <1>1, <1>3, <1>6, <1>8, <1>9, Speaks
<1> QED
  BY <1>1, <1>3, <1>5, <1>7, <1>10 DEF SendKinds, Quits

(* sendReady after the write.                                              *)
LEMMA ReadiedDoes ==
  ASSUME BaseInv, NEW s \in Conns, SendReadied(s)
  PROVE  Alone(s) /\ SendKinds(s)
<1>1. PICK x \in Sessions : x = sess[s]
  BY Awake
<1>2. PICK z \in Sessions : z = [x EXCEPT !.send = "cur"] /\ z.send = "cur" /\ Same(x, z, {"send"})
  <2>1. [x EXCEPT !.send = "cur"] \in Sessions
    BY DEF Sessions, SendPcs
  <2>2. [x EXCEPT !.send = "cur"].send = "cur" /\ Same(x, [x EXCEPT !.send = "cur"], {"send"})
    BY DEF Sessions, Same, Fields
  <2> QED
    BY <2>1, <2>2
<1>3. /\ z.st = x.st /\ z.sentVer = x.sentVer /\ z.target = x.target /\ (z.sentOnce <=> x.sentOnce)
      /\ (z.pushDue <=> x.pushDue) /\ z.pushDue = x.pushDue
  BY <1>2 DEF Same, Fields
<1>4. PICK y : y = IF Late(z) THEN z
                   ELSE IF z.sentOnce /\ z.sentVer = z.target THEN [z EXCEPT !.st = "OPEN"]
                   ELSE [z EXCEPT !.st = "SYNC", !.pushDue = TRUE]
  OBVIOUS
<1>5. Rank[z.st] >= Rank["DRAIN"] <=> Late(z)
  BY RanksOf
<1>6. /\ x.send = "readied" /\ Steady /\ out' = [out EXCEPT ![s] = out[s]] /\ UNCHANGED wires
      /\ Here(s, y)
  BY <1>1, <1>2, <1>4, <1>5, Awake, SteadyIs DEF SendReadied, Here
<1>7. Decides(x, y)
  <2>1. CASE Late(z)
    BY <1>2, <1>3, <1>4, <1>6, <2>1 DEF Decides, Late, Same
  <2>2. CASE ~Late(z) /\ z.sentOnce /\ z.sentVer = z.target
    <3>1. y = [z EXCEPT !.st = "OPEN"]
      BY <1>4, <2>2
    <3>2. /\ y.st = "OPEN" /\ Same(x, y, {"send", "st", "pushDue"}) /\ y.send = "cur"
          /\ y.pushDue = z.pushDue
      BY <1>2, <3>1 DEF Sessions, Same, Fields
    <3> QED
      BY <1>3, <1>6, <2>2, <3>2 DEF Decides, Late
  <2>3. CASE ~Late(z) /\ ~(z.sentOnce /\ z.sentVer = z.target)
    <3>1. y = [z EXCEPT !.st = "SYNC", !.pushDue = TRUE]
      BY <1>4, <2>3
    <3>2. y.st = "SYNC" /\ Same(x, y, {"send", "st", "pushDue"}) /\ y.send = "cur" /\ y.pushDue
      BY <1>2, <3>1 DEF Sessions, Same, Fields
    <3> QED
      BY <1>3, <1>6, <2>3, <3>2 DEF Decides, Late
  <2> QED
    BY <2>1, <2>2, <2>3
<1>8. Alone(s) /\ Silent(s) /\ sess'[s] = y /\ out'[s] = out[s]
  BY <1>6, Mute
<1>9. y \in Sessions
  BY <1>4 DEF Sessions, States
<1> QED
  BY <1>1, <1>7, <1>8, <1>9 DEF SendKinds

(* The first section of sendCurrent.                                       *)
LEMMA CurrentDoes ==
  ASSUME BaseInv, NEW s \in Conns, SendCurrent(s)
  PROVE  Alone(s) /\ SendKinds(s)
<1>1. PICK x \in Sessions : x = sess[s]
  BY Awake
<1>2. (Rank[x.st] >= Rank["DRAIN"] <=> Late(x)) /\ (Rank[x.st] < Rank["DRAIN"] <=> ~Late(x))
  BY RanksOf
<1>3. x.send = "cur" /\ Steady /\ UNCHANGED wires
  BY <1>1, SteadyIs DEF SendCurrent
<1>4. CASE Late(x) \/ x.sync # 0 \/ (~x.pushDue /\ ~x.forceFull)
  <2>2. PICK y : y = IF ~Late(x) /\ x.sync # 0
                     THEN [x EXCEPT !.send = "ping", !.dirty = x.dirty \/ x.pushDue, !.pushDue = FALSE]
                     ELSE [x EXCEPT !.send = "ping"]
    OBVIOUS
  <2>3. Here(s, y) /\ out' = out
    BY <1>1, <1>2, <1>4, <2>2 DEF SendCurrent, Here
  <2>4. Waits(x, y)
    <3>1. CASE ~Late(x) /\ x.sync # 0
      <4>1. y = [x EXCEPT !.send = "ping", !.dirty = x.dirty \/ x.pushDue, !.pushDue = FALSE]
        BY <2>2, <3>1
      <4>2. /\ y.send = "ping" /\ Same(x, y, {"send", "dirty", "pushDue"})
            /\ (y.dirty <=> x.dirty \/ x.pushDue) /\ ~y.pushDue
        BY <4>1 DEF Sessions, Same, Fields
      <4> QED
        BY <1>3, <3>1, <4>2 DEF Waits
    <3>2. CASE ~(~Late(x) /\ x.sync # 0)
      <4>1. y = [x EXCEPT !.send = "ping"]
        BY <2>2, <3>2
      <4>2. /\ y.send = "ping" /\ Same(x, y, {"send", "dirty", "pushDue"})
            /\ y.dirty = x.dirty /\ y.pushDue = x.pushDue /\ (y.pushDue <=> x.pushDue)
        BY <4>1 DEF Sessions, Same, Fields
      <4> QED
        BY <1>3, <1>4, <3>2, <4>2 DEF Waits
    <3> QED
      BY <3>1, <3>2
  <2>5. out' = [out EXCEPT ![s] = out[s]]
    BY <2>3, Awake
  <2>6. Alone(s) /\ Silent(s) /\ sess'[s] = y /\ out'[s] = out[s]
    BY <1>3, <2>3, <2>5, Mute
  <2>7. y \in Sessions
    <3>1. PICK b \in BOOLEAN : b = (x.dirty \/ x.pushDue)
      OBVIOUS
    <3>2. [x EXCEPT !.send = "ping", !.dirty = b, !.pushDue = FALSE] \in Sessions
      BY DEF Sessions, SendPcs
    <3>3. [x EXCEPT !.send = "ping"] \in Sessions
      BY DEF Sessions, SendPcs
    <3> QED
      BY <2>2, <3>1, <3>2, <3>3
  <2> QED
    BY <1>1, <2>4, <2>6, <2>7 DEF SendKinds
<1>5. CASE ~(Late(x) \/ x.sync # 0 \/ (~x.pushDue /\ ~x.forceFull))
  <2>1. PICK d \in BOOLEAN : d <=> x.sentOnce /\ ~x.forceFull
    OBVIOUS
  <2>2. d = (x.sentOnce /\ ~x.forceFull)
    BY <2>1 DEF Sessions
  <2>3. PICK y : y = [x EXCEPT !.send = "push", !.pushDue = FALSE, !.forceFull = FALSE, !.sentOnce = d]
    OBVIOUS
  <2>4. PICK o : o = [from |-> x.sentVer, once |-> d]
    OBVIOUS
  <2>5. Here(s, y) /\ out' = [out EXCEPT ![s] = o]
    BY <1>1, <1>2, <1>5, <2>2, <2>3, <2>4 DEF SendCurrent, Here
  <2>6. /\ y.send = "push" /\ ~y.pushDue /\ (y.sentOnce <=> d)
        /\ Same(x, y, {"send", "pushDue", "forceFull", "sentOnce"})
    BY <2>3 DEF Sessions, Same, Fields
  <2>7. o \in Plans /\ o.from = x.sentVer /\ (o.once <=> d)
    BY <2>4 DEF Plans, Sessions
  <2>8. Begins(x, y, o)
    BY <1>3, <1>5, <2>1, <2>6, <2>7 DEF Begins
  <2>9. Alone(s) /\ Silent(s) /\ sess'[s] = y /\ out'[s] = o
    BY <1>3, <2>5, Mute
  <2>10. y \in Sessions
    BY <2>3 DEF Sessions, SendPcs
  <2> QED
    BY <1>1, <2>8, <2>9, <2>10 DEF SendKinds
<1> QED
  BY <1>4, <1>5

(* nextPush, between the sections.                                         *)
LEMMA PushDoes ==
  ASSUME BaseInv, NEW s \in Conns, SendPush(s)
  PROVE  Alone(s) /\ SendKinds(s)
<1>1. PICK x \in Sessions : x = sess[s]
  BY Awake
<1>2. (Rank[x.st] >= Rank["DRAIN"] <=> Late(x)) /\ (Rank[x.st] < Rank["DRAIN"] <=> ~Late(x))
  BY RanksOf
<1>3. x.send = "push" /\ Steady /\ UNCHANGED wires
  BY <1>1, SteadyIs DEF SendPush
<1>4. sess = [sess EXCEPT ![s] = x]
  BY <1>1, Keeps DEF BaseInv
<1>5. sess \in [Conns -> Sessions]
  BY DEF BaseInv, HubEnds
<1>6. CASE NothingToPush(out[s].from, out[s].once)
  <2>1. PICK p : p = IF ~Late(x) THEN "OPEN" ELSE x.st
    OBVIOUS
  <2>2. PICK y : y = [x EXCEPT !.send = "ping", !.st = p]
    OBVIOUS
  <2>3. sess' = [sess EXCEPT ![s].send = "ping", ![s].st = IF Before(s, "DRAIN") THEN "OPEN" ELSE @]
        /\ out' = [out EXCEPT ![s] = None]
    BY <1>6 DEF SendPush
  <2>4. Here(s, y)
    BY <1>1, <1>2, <1>5, <2>1, <2>2, <2>3 DEF Here, Before, Sessions
  <2>5. y.send = "ping" /\ y.st = p /\ Same(x, y, {"send", "st"})
    BY <2>2 DEF Sessions, Same, Fields
  <2>6. Agrees(x, y, out[s], ver)
    BY <1>3, <1>6, <2>1, <2>5 DEF Agrees, NothingToPush
  <2>7. y \in Sessions
    BY <2>1, <2>2 DEF Sessions, SendPcs, States
  <2>8. Alone(s) /\ Silent(s) /\ sess'[s] = y /\ out'[s] = None
    BY <1>3, <2>3, <2>4, Mute
  <2> QED
    BY <1>1, <2>6, <2>7, <2>8 DEF SendKinds
<1>7. CASE ~NothingToPush(out[s].from, out[s].once)
  <2>1. PICK y : y = [x EXCEPT !.send = "mark"]
    OBVIOUS
  <2>2. PICK o : o = NextPush(out[s].from, out[s].once)
    OBVIOUS
  <2>3. sess' = [sess EXCEPT ![s].send = "mark"] /\ out' = [out EXCEPT ![s] = o]
    BY <1>7, <2>2 DEF SendPush
  <2>4. Here(s, y)
    BY <1>1, <1>5, <2>1, <2>3 DEF Here
  <2>5. y.send = "mark" /\ Same(x, y, {"send"}) /\ y \in Sessions
    BY <2>1 DEF Sessions, Same, Fields, SendPcs
  <2>6. Fetches(x, y)
    BY <1>3, <2>5 DEF Fetches
  <2>7. Alone(s) /\ Silent(s) /\ sess'[s] = y /\ out'[s] = o
    BY <1>3, <2>3, <2>4, Mute
  <2> QED
    BY <1>1, <1>7, <2>2, <2>5, <2>6, <2>7 DEF SendKinds
<1> QED
  BY <1>6, <1>7

(* The second section of sendCurrent and the write.                        *)
LEMMA MarkDoes ==
  ASSUME BaseInv, NEW s \in Conns, SendMark(s)
  PROVE  Alone(s) /\ SendKinds(s)
<1>1. PICK x \in Sessions : x = sess[s]
  BY Awake
<1>2. PICK d \in BOOLEAN : d = (x.dirty \/ x.pushDue)
  BY DEF Sessions
<1>3. x.send = "mark" /\ Steady /\ UNCHANGED wires /\ out' = [out EXCEPT ![s] = out[s]]
  BY <1>1, SteadyIs, Awake DEF SendMark
<1>4. PICK v \in Nat : v = out[s].version
  <2>1. SoundAt(out[s], epoch, ver, hist)
    BY <1>1, <1>3 DEF BaseInv, LinkSound, Planned
  <2> QED
    BY <2>1, HubAssumption DEF SoundAt, Known
<1>5. PICK n \in Nat : n = x.nextSeq /\ n # 0
  BY DEF Sessions
<1>6. PICK y : y = [x EXCEPT !.send = "emit", !.sync = n, !.nextSeq = n + 1, !.syncVer = v, !.timed = FALSE,
                             !.dirty = d, !.pushDue = FALSE, !.st = "SYNC"]
  OBVIOUS
<1>7. Here(s, y)
  BY <1>1, <1>2, <1>4, <1>5, <1>6 DEF SendMark, Here
<1>8. n + 1 \in Nat \ {0}
  BY <1>5
<1>9. y \in Sessions
  <2>1. PICK k \in Nat \ {0} : k = n + 1
    BY <1>8
  <2>2. PICK z : z = [x EXCEPT !.send = "emit", !.sync = n, !.nextSeq = k, !.syncVer = v]
    OBVIOUS
  <2>3. z \in Sessions
    BY <2>2 DEF Sessions, SendPcs
  <2>4. y = [z EXCEPT !.timed = FALSE, !.dirty = d, !.pushDue = FALSE, !.st = "SYNC"]
    BY <1>6, <2>1, <2>2
  <2> QED
    BY <2>3, <2>4 DEF Sessions, States
<1>10. /\ y.send = "emit" /\ y.sync = n /\ y.syncVer = v /\ ~y.pushDue /\ y.st = "SYNC"
       /\ (y.dirty <=> d)
       /\ Same(x, y, {"send", "sync", "nextSeq", "syncVer", "timed", "dirty", "pushDue", "st"})
  BY <1>6 DEF Sessions, Same, Fields
<1>11. Marks(x, y, out[s])
  BY <1>2, <1>3, <1>4, <1>5, <1>10 DEF Marks
<1>12. Alone(s) /\ Silent(s) /\ sess'[s] = y /\ out'[s] = out[s]
  BY <1>3, <1>7, Mute
<1> QED
  BY <1>1, <1>9, <1>11, <1>12 DEF SendKinds

(* The write of the push.                                                  *)
LEMMA EmitDoes ==
  ASSUME BaseInv, NEW s \in Conns, SendEmit(s)
  PROVE  Alone(s) /\ SendKinds(s)
<1>1. PICK x \in Sessions : x = sess[s]
  BY Awake
<1>2. x.send = "emit" /\ Steady /\ x.st # "CLOSED" /\ x.syncVer <= ver
  BY <1>1, SteadyIs, Awake DEF SendEmit
<1>3. PICK y : y = [x EXCEPT !.send = "sent"]
  OBVIOUS
<1>4. PICK m : m = Msg(out[s].kind, x.nextSeq - 1, out[s])
  OBVIOUS
<1>5. SendOrFail(s, m, y)
  BY <1>1, <1>3, <1>4 DEF SendEmit
<1>6. PICK o : out' = [out EXCEPT ![s] = o] /\ (Wired(s) => o = out[s]) /\ o \in {out[s], None}
  BY Awake DEF SendEmit
<1>7. y \in Sessions
  BY <1>3 DEF Sessions, SendPcs
<1>8. y.send = "sent" /\ Same(x, y, {"send"})
  BY <1>3 DEF Sessions, Same, Fields
<1>9. Emits(x, y)
  BY <1>2, <1>8 DEF Emits
<1>10. Fails(x, Closing(y)) /\ y.syncVer = x.syncVer
  <2>1. Closing(y).st \in {y.st, "CLOSING"} /\ Same(y, Closing(y), {"st"})
    BY <1>7, EndTyped DEF Shut
  <2> QED
    BY <1>8, <2>1 DEF Fails, Same, Fields
<1>11. Alone(s) /\ (Quits(s) \/ (Says(s, m) /\ sess'[s] = y /\ out'[s] = out[s]))
  BY <1>1, <1>2, <1>5, <1>6, <1>7, <1>10, Speaks
<1> QED
  BY <1>1, <1>4, <1>7, <1>9, <1>11 DEF SendKinds, Quits

(* The third section of sendCurrent.                                       *)
LEMMA SentDoes ==
  ASSUME BaseInv, NEW s \in Conns, SendSent(s)
  PROVE  Alone(s) /\ SendKinds(s)
<1>1. PICK x \in Sessions : x = sess[s]
  BY Awake
<1>2. PICK t \in BOOLEAN : t = (x.sync # 0)
  OBVIOUS
<1>3. x.send = "sent" /\ Steady /\ UNCHANGED wires
  BY <1>1, SteadyIs DEF SendSent
<1>4. PICK v \in Nat : v = out[s].version /\ v <= ver
  <2>1. SoundAt(out[s], epoch, ver, hist) /\ out[s].version <= ver
    BY <1>1, <1>3 DEF BaseInv, LinkSound, Planned
  <2>2. out[s].version \in Nat
    BY <2>1, HubAssumption DEF SoundAt, Known
  <2> QED
    BY <2>1, <2>2
<1>5. PICK y : y = [x EXCEPT !.send = "ping", !.sentVer = v, !.sentOnce = TRUE, !.timed = t]
  OBVIOUS
<1>6. Here(s, y) /\ out' = [out EXCEPT ![s] = None]
  BY <1>1, <1>2, <1>4, <1>5 DEF SendSent, Here
<1>7. y \in Sessions
  BY <1>5 DEF Sessions, SendPcs
<1>8. /\ y.send = "ping" /\ y.sentVer = v /\ y.sentOnce
      /\ Same(x, y, {"send", "sentVer", "sentOnce", "timed"})
  BY <1>5 DEF Sessions, Same, Fields
<1>9. Settles(x, y, out[s])
  BY <1>3, <1>4, <1>8 DEF Settles
<1>10. Alone(s) /\ Silent(s) /\ sess'[s] = y /\ out'[s] = None
  BY <1>3, <1>6, Mute
<1> QED
  BY <1>1, <1>7, <1>9, <1>10 DEF SendKinds

(* sendPing.                                                               *)
LEMMA PingDoes ==
  ASSUME BaseInv, NEW s \in Conns, SendPing(s)
  PROVE  Alone(s) /\ SendKinds(s)
<1>1. PICK x \in Sessions : x = sess[s]
  BY Awake
<1>2. PICK z \in Sessions : z = [x EXCEPT !.send = "bye"] /\ z.send = "bye" /\ Same(x, z, {"send"})
  <2>1. [x EXCEPT !.send = "bye"] \in Sessions
    BY DEF Sessions, SendPcs
  <2>2. [x EXCEPT !.send = "bye"].send = "bye" /\ Same(x, [x EXCEPT !.send = "bye"], {"send"})
    BY DEF Sessions, Same, Fields
  <2> QED
    BY <2>1, <2>2
<1>3. x.send = "ping" /\ x.st # "CLOSED" /\ Steady /\ out' = [out EXCEPT ![s] = out[s]]
  BY <1>1, SteadyIs, Awake DEF SendPing
<1>4. CASE ~z.pingDue \/ z.ping # 0 \/ z.sync # 0 \/ Rank[z.st] >= Rank["DRAIN"]
  <2>1. Here(s, z) /\ UNCHANGED wires
    BY <1>1, <1>2, <1>4 DEF SendPing, Here
  <2>2. Passes(x, z)
    BY <1>2, <1>3 DEF Passes
  <2>3. Alone(s) /\ Silent(s) /\ sess'[s] = z /\ out'[s] = out[s]
    BY <1>3, <2>1, Mute
  <2> QED
    BY <1>1, <2>2, <2>3 DEF SendKinds
<1>5. CASE ~(~z.pingDue \/ z.ping # 0 \/ z.sync # 0 \/ Rank[z.st] >= Rank["DRAIN"])
  <2>1. PICK n \in Nat : n = z.nextSeq /\ n # 0
    BY DEF Sessions
  <2>2. z.nextSeq = x.nextSeq
    BY <1>2 DEF Same, Fields
  <2>3. PICK k \in Nat : k = z.pings
    BY DEF Sessions
  <2>4. PICK y : y = [z EXCEPT !.pingDue = FALSE, !.ping = n, !.nextSeq = n + 1, !.pings = k + 1]
    OBVIOUS
  <2>5. PICK m : m = Msg("PING", n, None)
    OBVIOUS
  <2>6. SendOrFail(s, m, y)
    BY <1>1, <1>2, <1>5, <2>1, <2>3, <2>4, <2>5 DEF SendPing
  <2>7. n + 1 \in Nat \ {0} /\ k + 1 \in Nat
    BY <2>1
  <2>8. y \in Sessions
    BY <2>1, <2>4, <2>7 DEF Sessions
  <2>9. y.send = "bye" /\ Same(x, y, {"send", "pingDue", "ping", "nextSeq", "pings"})
    BY <1>2, <2>4 DEF Sessions, Same, Fields
  <2>10. Pings(x, y)
    BY <1>3, <2>9 DEF Pings
  <2>11. Fails(x, Closing(y))
    <3>1. Closing(y).st = "CLOSING" /\ Same(y, Closing(y), {"st"})
      BY <1>3, <2>8, <2>9, EndTyped DEF Shut, Same, Fields
    <3> QED
      BY <2>9, <3>1 DEF Fails, Same, Fields
  <2>12. y.syncVer <= ver
    BY <1>1, <2>9, Awake DEF Same, Fields
  <2>13. Alone(s) /\ (Quits(s) \/ (Says(s, m) /\ sess'[s] = y /\ out'[s] = out[s]))
    BY <1>1, <1>3, <2>6, <2>8, <2>11, <2>12, Speaks
  <2> QED
    BY <1>1, <2>1, <2>2, <2>5, <2>8, <2>10, <2>13 DEF SendKinds, Quits
<1> QED
  BY <1>4, <1>5

(* The end of a round of sendLoop: a drained session says BYE and ends.    *)
LEMMA ByeDoes ==
  ASSUME BaseInv, NEW s \in Conns, SendBye(s)
  PROVE  Alone(s) /\ SendKinds(s)
<1>1. PICK x \in Sessions : x = sess[s]
  BY Awake
<1>2. /\ x.send = "bye" /\ x.st # "CLOSED" /\ Steady /\ out' = [out EXCEPT ![s] = out[s]]
      /\ toHub' = toHub /\ gwOpen' = gwOpen
  BY <1>1, SteadyIs, Awake DEF SendBye
<1>3. CASE x.st = "DRAIN" /\ x.sync = 0
  <2>1. PICK z : z = [x EXCEPT !.st = "CLOSING"]
    OBVIOUS
  <2>2. SendEnds(s, z)
    BY <1>1, <1>3, <2>1 DEF SendBye
  <2>3. PICK g : /\ toGw' = [toGw EXCEPT ![s] = g]
                 /\ \/ g = toGw[s]
                    \/ Wired(s) /\ \E k \in {"ERR", "BYE"} : g = Append(toGw[s], Msg(k, 0, None))
    BY <1>1, <1>3, Awake DEF SendBye
  <2>4. z \in Sessions
    BY <2>1 DEF Sessions, States
  <2>5. z.st = "CLOSING" /\ Same(x, z, {"st"})
    BY <2>1 DEF Sessions, Same, Fields
  <2>6. Fails(x, z) /\ z.syncVer = x.syncVer
    BY <2>5 DEF Fails, Same, Fields
  <2>7. z.syncVer <= ver
    BY <1>1, <2>6, Awake
  <2>8. UNCHANGED <<toHub, gwOpen>>
    BY <1>2
  <2>9. Alone(s) /\ Quits(s)
    <3>1. out' = [out EXCEPT ![s] = out[s]] /\ Steady
      BY <1>2
    <3>2. Fails(sess[s], z) /\ sess[s].st # "CLOSED"
      BY <1>1, <1>2, <2>6
    <3> QED
      BY ONLY BaseInv, s \in Conns, <2>2, <2>3, <2>4, <2>7, <2>8, <3>1, <3>2, Ends
  <2> QED
    BY <2>9 DEF SendKinds, Quits
<1>4. CASE ~(x.st = "DRAIN" /\ x.sync = 0)
  <2>1. PICK y : y = [x EXCEPT !.send = "wait"]
    OBVIOUS
  <2>2. sess \in [Conns -> Sessions]
    BY DEF BaseInv, HubEnds
  <2>3. sess' = [sess EXCEPT ![s].send = "wait"] /\ UNCHANGED wires
    BY <1>1, <1>2, <1>4 DEF SendBye, wires
  <2>4. Here(s, y)
    BY <1>1, <2>1, <2>2, <2>3 DEF Here
  <2>5. y.send = "wait" /\ Same(x, y, {"send"}) /\ y \in Sessions
    BY <2>1 DEF Sessions, Same, Fields, SendPcs
  <2>6. Passes(x, y)
    BY <1>2, <2>5 DEF Passes
  <2>7. Alone(s) /\ Silent(s) /\ sess'[s] = y /\ out'[s] = out[s]
    BY <1>2, <2>3, <2>4, Mute
  <2> QED
    BY <1>1, <2>5, <2>6, <2>7 DEF SendKinds
<1> QED
  BY <1>3, <1>4

(* Every step of the sending loop is one of its kinds.                     *)
LEMMA SendDoes ==
  ASSUME BaseInv, NEW s \in Conns, SendStep(s)
  PROVE  Alone(s) /\ SendKinds(s)
BY WakeDoes, ReadyDoes, ReadiedDoes, CurrentDoes, PushDoes, MarkDoes, EmitDoes, SentDoes, PingDoes,
   ByeDoes DEF SendStep

(* The hello is valid: the session notes the version it will promise.      *)
Hears(x, y, v) == x.recv = "hello" /\ y.recv = "bind" /\ y.target = v /\ Same(x, y, {"recv", "target"})
(* The hello is bound: the session is known, READY is due, and a gateway   *)
(* of this epoch starts from the version it has.                           *)
Binds(x, y, m, e) ==
  /\ x.recv = "bind" /\ y.recv = "replace" /\ y.known /\ y.ready
  /\ Same(x, y, {"recv", "known", "ready", "sentVer", "sentOnce", "acked"})
  /\ \/ /\ m.epoch = e /\ m.version <= x.target
        /\ y.sentVer = m.version /\ y.acked = m.version /\ y.sentOnce
     \/ y.sentVer = x.sentVer /\ y.acked = x.acked /\ (y.sentOnce <=> x.sentOnce)
(* The answer to the push in flight: it is acknowledged, and what got      *)
(* dirty meanwhile is due.                                                 *)
Acks(x, y, m, e) ==
  /\ m.kind = "ACK" /\ x.sync # 0 /\ m.body.epoch = e /\ m.body.version = x.syncVer
  /\ y.acked = x.syncVer /\ y.sync = 0 /\ y.syncVer = 0 /\ y.st = (IF Late(x) THEN x.st ELSE "OPEN")
  /\ (y.pushDue <=> x.pushDue \/ x.dirty) /\ ~y.dirty /\ y.token
  /\ Same(x, y, {"acked", "sync", "syncVer", "timed", "st", "pushDue", "dirty", "token"})
(* The gateway asks for a snapshot: the push in flight is forgotten and a  *)
(* full one is due.                                                        *)
Asks(x, y, m) ==
  /\ m.kind = "SNAP_REQ" /\ y.sync = 0 /\ y.syncVer = 0 /\ y.pushDue /\ y.token
  /\ Same(x, y, {"sync", "syncVer", "timed", "forceFull", "pushDue", "token"})
(* A PONG.                                                                 *)
Pongs(x, y, m) == m.kind = "PONG" /\ Same(x, y, {"ping"})
(* A message out of place or an overdue answer: the session closes with an *)
(* error to report.                                                        *)
Refuses(x, y) ==
  /\ ~Shut(x) /\ x.recv = "loop" /\ y.st = "CLOSING" /\ y.err /\ y.token
  /\ Same(x, y, {"st", "err", "token"})
(* The elders are stopped: the session enters its loop and wakes the       *)
(* sender.                                                                 *)
Serves(x, y) ==
  x.recv = "replacing" /\ y.recv = "loop" /\ y.token /\ Same(x, y, {"recv", "token"})
(* The receiving loop fails: it is about to close the socket.              *)
Falters(x, y) ==
  /\ x.recv \in {"hello", "loop"} /\ y.recv = "fail" /\ y.st = "CLOSING" /\ Same(x, y, {"st", "recv"})
(* The receiving loop of a closing session ends.                           *)
Leaves(x, y) ==
  /\ x.recv = "loop" /\ x.st = "CLOSING"
  /\ \/ y = ClosedSession /\ x.send = "done"
     \/ y.recv = "done" /\ x.send # "done" /\ Same(x, y, {"recv"})
(* The receiving loop times out without harm, and wakes the sending loop,  *)
(* for a PING perhaps.                                                     *)
Nudges(x, y) == x.recv = "loop" /\ ~Shut(x) /\ y.token /\ Same(x, y, {"token", "pingDue"})

(* What a step of the receiving loop, or its time-out, can be; the         *)
(* replacing of elders apart.                                              *)
RecvKinds(s) ==
  /\ sess'[s] \in Sessions /\ out'[s] = out[s] /\ sess[s].st # "CLOSED"
  /\ \/ Quits(s) /\ toGw'[s] = toGw[s]
     \/ Silent(s) /\ Hears(sess[s], sess'[s], ver)
     \/ Takes(s) /\ Binds(sess[s], sess'[s], Head(toHub[s]).body, epoch)
     \/ /\ Takes(s) /\ sess[s].recv = "loop" /\ ~Shut(sess[s]) /\ hubOpen[s]
        /\ \/ Acks(sess[s], sess'[s], Head(toHub[s]), epoch)
           \/ Asks(sess[s], sess'[s], Head(toHub[s]))
           \/ Pongs(sess[s], sess'[s], Head(toHub[s]))
           \/ Refuses(sess[s], sess'[s])
     \/ Silent(s) /\ Refuses(sess[s], sess'[s])
     \/ /\ Leaves(sess[s], sess'[s])
        /\ toGw'[s] = toGw[s] /\ toHub'[s] = toHub[s] /\ gwOpen'[s] = gwOpen[s]
        /\ hubOpen'[s] = (hubOpen[s] /\ sess[s].send # "done")
     \/ Silent(s) /\ Nudges(sess[s], sess'[s])
     \/ Silent(s) /\ Falters(sess[s], sess'[s])
     \/ /\ Silent(s) /\ Serves(sess[s], sess'[s])
        /\ \A p \in Conns : s \notin sess[p].due

(* recvLoop up to the hello: refused, or the version it will promise is    *)
(* read.                                                                   *)
LEMMA HelloDoes ==
  ASSUME BaseInv, NEW s \in Conns, RecvHello(s)
  PROVE  Alone(s) /\ RecvKinds(s)
<1>1. PICK x \in Sessions : x = sess[s]
  BY Awake
<1>2. /\ x.recv = "hello" /\ x.st # "CLOSED" /\ Steady /\ UNCHANGED wires
      /\ out' = [out EXCEPT ![s] = out[s]]
  BY <1>1, SteadyIs, Awake DEF RecvHello
<1>3. PICK v \in Nat : v = ver
  BY Awake
<1>4. PICK y : y = [x EXCEPT !.recv = "bind", !.target = v]
  OBVIOUS
<1>5. sess \in [Conns -> Sessions]
  BY DEF BaseInv, HubEnds
<1>6. Here(s, y)
  <2>1. sess' = [sess EXCEPT ![s].recv = "bind", ![s].target = v]
    BY <1>3 DEF RecvHello
  <2> QED
    BY <1>1, <1>4, <1>5, <2>1 DEF Here, Sessions
<1>7. y.recv = "bind" /\ y.target = v /\ Same(x, y, {"recv", "target"}) /\ y \in Sessions
  BY <1>4 DEF Sessions, Same, Fields, RecvPcs
<1>8. Alone(s) /\ Silent(s) /\ sess'[s] = y /\ out'[s] = out[s]
  BY <1>2, <1>6, Mute
<1> QED
  BY <1>1, <1>2, <1>3, <1>7, <1>8 DEF RecvKinds, Hears

(* A step of the receiving loop that reads one message.                    *)
LEMMA Reads ==
  ASSUME BaseInv, NEW s \in Conns, NEW y \in Sessions, Here(s, y), Steady,
         toHub' = [toHub EXCEPT ![s] = Tail(toHub[s])], toHub[s] # <<>>,
         UNCHANGED <<out, toGw, gwOpen, hubOpen>>
  PROVE  Alone(s) /\ Takes(s) /\ sess'[s] = y /\ out'[s] = out[s]
<1>0. HubEnds /\ GwEnds
  BY DEF BaseInv
<1>1. PICK h : h = Tail(toHub[s]) /\ toHub' = [toHub EXCEPT ![s] = h]
  OBVIOUS
<1>2. /\ out' = [out EXCEPT ![s] = out[s]] /\ hubOpen' = [hubOpen EXCEPT ![s] = hubOpen[s]]
      /\ toGw' = [toGw EXCEPT ![s] = toGw[s]] /\ gwOpen' = gwOpen
  BY <1>0, Keeps
<1>3. /\ Alone(s) /\ sess'[s] = y /\ out'[s] = out[s] /\ toGw'[s] = toGw[s]
      /\ toHub'[s] = h /\ hubOpen'[s] = hubOpen[s] /\ gwOpen'[s] = gwOpen[s]
  BY ONLY <1>0, <1>1, <1>2, s \in Conns, Here(s, y), Steady, AloneIs
<1> QED
  BY <1>1, <1>3 DEF Takes

(* The section of recvLoop that binds the gateway to the session.          *)
LEMMA BindDoes ==
  ASSUME BaseInv, NEW s \in Conns, RecvBind(s)
  PROVE  Alone(s) /\ RecvKinds(s)
<1>1. PICK x \in Sessions : x = sess[s]
  BY Awake
<1>2. /\ x.recv = "bind" /\ x.st # "CLOSED" /\ Steady /\ UNCHANGED <<out, toGw, gwOpen, hubOpen>>
      /\ toHub' = [toHub EXCEPT ![s] = Tail(toHub[s])]
  BY <1>1, SteadyIs, Awake DEF RecvBind
<1>3. toHub[s] # <<>> /\ Head(toHub[s]).kind = "HELLO"
  BY <1>1, <1>2 DEF BaseInv, LinkSound, Starts
<1>4. PICK m : m = Head(toHub[s]).body
  OBVIOUS
<1>5. m \in Stamps
  <2>1. toHub[s] \in Seq(HubMsgs) /\ Stamped(toHub[s])
    BY DEF BaseInv, GwEnds, LinkSound
  <2>2. 1 \in 1..Len(toHub[s]) /\ Head(toHub[s]) = toHub[s][1]
    BY <1>3, <2>1
  <2> QED
    BY <1>3, <1>4, <2>1, <2>2 DEF Stamped
<1>6. m.epoch \in Nat /\ m.version \in Nat
  BY <1>5 DEF Stamps
<1>7. PICK r \in BOOLEAN : r <=> Resumes(x, m)
  OBVIOUS
<1>8. PICK v \in Nat : v = IF Resumes(x, m) THEN m.version ELSE x.sentVer
  BY <1>6 DEF Sessions
<1>9. PICK a \in Nat : a = IF Resumes(x, m) THEN m.version ELSE x.acked
  BY <1>6 DEF Sessions
<1>10. PICK d \in BOOLEAN : d = (x.sentOnce \/ Resumes(x, m))
  BY <1>7 DEF Sessions
<1>11. PICK y : y = [x EXCEPT !.recv = "replace", !.known = TRUE, !.ready = TRUE, !.sentVer = v,
                              !.sentOnce = d, !.acked = a]
  OBVIOUS
<1>12. Here(s, y)
  BY <1>1, <1>4, <1>8, <1>9, <1>10, <1>11 DEF RecvBind, Here
<1>13. y \in Sessions
  BY <1>11 DEF Sessions, RecvPcs
<1>14. /\ y.recv = "replace" /\ y.known /\ y.ready /\ y.sentVer = v /\ (y.sentOnce <=> d)
       /\ y.acked = a
       /\ Same(x, y, {"recv", "known", "ready", "sentVer", "sentOnce", "acked"})
  BY <1>11 DEF Sessions, Same, Fields
<1>15. Binds(x, y, m, epoch)
  <2>1. CASE Resumes(x, m)
    BY <1>2, <1>8, <1>9, <1>10, <1>14, <2>1 DEF Binds, Resumes
  <2>2. CASE ~Resumes(x, m)
    BY <1>2, <1>8, <1>9, <1>10, <1>14, <2>2 DEF Binds
  <2> QED
    BY <2>1, <2>2
<1>16. Alone(s) /\ Takes(s) /\ sess'[s] = y /\ out'[s] = out[s]
  BY ONLY BaseInv, s \in Conns, <1>2, <1>3, <1>12, <1>13, Reads
<1> QED
  BY <1>1, <1>2, <1>4, <1>13, <1>15, <1>16 DEF RecvKinds

(* What Refused does to a session.                                         *)
LEMMA RefusedIs ==
  ASSUME NEW x \in Sessions, x.recv = "loop", ~Shut(x)
  PROVE  Refused(x) \in Sessions /\ Refuses(x, Refused(x))
<1>1. PICK z \in Sessions : z = Closing(x) /\ z.st = "CLOSING" /\ Same(x, z, {"st"})
  BY EndTyped
<1>2. PICK y : y = [z EXCEPT !.err = TRUE, !.token = TRUE]
  OBVIOUS
<1>3. y \in Sessions
  BY <1>2 DEF Sessions
<1>4. y.err /\ y.token /\ y.st = z.st /\ Same(z, y, {"err", "token"})
  BY <1>2 DEF Sessions, Same, Fields
<1>5. Same(x, y, {"st", "err", "token"})
  BY <1>1, <1>4 DEF Same, Fields
<1> QED
  BY <1>1, <1>2, <1>3, <1>4, <1>5 DEF Refused, Refuses

(* The handling of one message in recvLoop.                                *)
LEMMA MsgDoes ==
  ASSUME BaseInv, NEW s \in Conns, RecvMsg(s)
  PROVE  Alone(s) /\ RecvKinds(s)
<1>1. PICK x \in Sessions : x = sess[s]
  BY Awake
<1>2. (Rank[x.st] < Rank["DRAIN"] <=> ~Late(x)) /\ (Rank[x.st] < Rank["CLOSING"] <=> ~Shut(x))
  BY RanksOf
<1>3. /\ x.recv = "loop" /\ ~Shut(x) /\ x.st # "CLOSED" /\ hubOpen[s] /\ toHub[s] # <<>> /\ Steady
      /\ UNCHANGED <<out, toGw, gwOpen, hubOpen>> /\ toHub' = [toHub EXCEPT ![s] = Tail(toHub[s])]
  BY <1>1, <1>2, SteadyIs, Awake DEF RecvMsg, Before
<1>4. PICK m : m = Head(toHub[s])
  OBVIOUS
<1>5. PICK y : y = Answered(x, m)
  OBVIOUS
<1>6. Here(s, y)
  BY <1>1, <1>4, <1>5 DEF RecvMsg, Here
<1>7. y \in Sessions /\ (Acks(x, y, m, epoch) \/ Asks(x, y, m) \/ Pongs(x, y, m) \/ Refuses(x, y))
  <2>1. CASE m.kind = "ACK" /\ x.sync # 0 /\ m.seq = x.sync /\ m.body.epoch = epoch /\ m.body.version = x.syncVer
    <3>1. PICK p \in States : p = IF ~Late(x) THEN "OPEN" ELSE x.st
      BY DEF States, Sessions
    <3>2. PICK d \in BOOLEAN : d = (x.pushDue \/ x.dirty)
      BY DEF Sessions
    <3>3. PICK v \in Nat : v = x.syncVer
      BY DEF Sessions
    <3>4. y = [x EXCEPT !.acked = v, !.sync = 0, !.syncVer = 0, !.timed = FALSE, !.st = p, !.pushDue = d,
                        !.dirty = FALSE, !.token = TRUE]
      BY <1>2, <1>5, <2>1, <3>1, <3>2, <3>3 DEF Answered
    <3>5. PICK z : z = [x EXCEPT !.acked = v, !.sync = 0, !.syncVer = 0, !.timed = FALSE]
      OBVIOUS
    <3>6. z \in Sessions
      BY <3>5 DEF Sessions
    <3>7. y = [z EXCEPT !.st = p, !.pushDue = d, !.dirty = FALSE, !.token = TRUE]
      BY <3>4, <3>5
    <3>8. y \in Sessions
      BY <3>6, <3>7 DEF Sessions
    <3>9. /\ y.acked = v /\ y.sync = 0 /\ y.syncVer = 0 /\ y.st = p /\ (y.pushDue <=> d) /\ ~y.dirty
          /\ y.token
          /\ Same(x, y, {"acked", "sync", "syncVer", "timed", "st", "pushDue", "dirty", "token"})
      BY <3>4 DEF Sessions, Same, Fields
    <3>10. Acks(x, y, m, epoch)
      BY <2>1, <3>1, <3>2, <3>3, <3>9 DEF Acks
    <3> QED
      BY <3>8, <3>10
  <2>2. CASE m.kind = "SNAP_REQ" /\ x.st = "SYNC"
    <3>1. y = [x EXCEPT !.sync = 0, !.syncVer = 0, !.timed = FALSE, !.forceFull = TRUE, !.pushDue = TRUE,
                        !.token = TRUE]
      BY <1>5, <2>2 DEF Answered
    <3>2. y \in Sessions
      BY <3>1 DEF Sessions
    <3>3. /\ y.sync = 0 /\ y.syncVer = 0 /\ y.pushDue /\ y.token
          /\ Same(x, y, {"sync", "syncVer", "timed", "forceFull", "pushDue", "token"})
      BY <3>1 DEF Sessions, Same, Fields
    <3> QED
      BY <2>2, <3>2, <3>3 DEF Asks
  <2>3. CASE m.kind = "PONG" /\ x.ping # 0 /\ m.seq = x.ping
    <3>1. y = [x EXCEPT !.ping = 0]
      BY <1>5, <2>3 DEF Answered
    <3>2. y \in Sessions /\ Same(x, y, {"ping"})
      BY <3>1 DEF Sessions, Same, Fields
    <3> QED
      BY <2>3, <3>2 DEF Pongs
  <2>4. CASE /\ ~(m.kind = "ACK" /\ x.sync # 0 /\ m.seq = x.sync /\ m.body.epoch = epoch
                  /\ m.body.version = x.syncVer)
             /\ ~(m.kind = "SNAP_REQ" /\ x.st = "SYNC")
             /\ ~(m.kind = "PONG" /\ x.ping # 0 /\ m.seq = x.ping)
    <3>1. y = Refused(x)
      BY <1>5, <2>4 DEF Answered
    <3> QED
      BY <1>3, <3>1, RefusedIs
  <2> QED
    BY <2>1, <2>2, <2>3, <2>4
<1>8. Alone(s) /\ Takes(s) /\ sess'[s] = y /\ out'[s] = out[s]
  <2>1. y \in Sessions
    BY <1>7
  <2> QED
    BY ONLY BaseInv, s \in Conns, <1>3, <1>6, <2>1, Reads
<1> QED
  BY <1>1, <1>3, <1>4, <1>7, <1>8 DEF RecvKinds

(* A receiving loop that has failed closes the socket and ends.            *)
LEMMA RecvStops ==
  ASSUME BaseInv, NEW s \in Conns, RecvClose(s)
  PROVE  Alone(s) /\ RecvKinds(s)
<1>0. HubEnds /\ GwEnds
  BY DEF BaseInv
<1>1. PICK x \in Sessions : x = sess[s]
  BY Awake
<1>2. /\ x.st # "CLOSED" /\ x.syncVer <= ver /\ ver \in Nat /\ x.recv = "fail"
      /\ Steady /\ UNCHANGED <<out, toGw, toHub, gwOpen>> /\ RecvEnds(s, x)
  BY <1>1, Awake, SteadyIs DEF RecvClose
<1>4. PICK w : w = [x EXCEPT !.recv = "done", !.token = TRUE]
  OBVIOUS
<1>5. w \in Sessions
  BY <1>4 DEF Sessions, RecvPcs
<1>6. w.recv = "done" /\ w.token /\ Same(x, w, {"recv", "token"})
  BY <1>4 DEF Sessions, Same, Fields
<1>7. /\ w.send = x.send /\ w.sync = x.sync /\ (w.ready <=> x.ready) /\ w.syncVer = x.syncVer
      /\ w.st = x.st
  BY <1>6 DEF Same, Fields
<1>8. Stops(x, w)
  <2>1. Same(x, w, {"st", "send", "recv", "token", "ready", "sync", "syncVer", "timed", "nextSeq",
                    "dirty", "pushDue", "ping", "pings", "pingDue"})
    BY <1>6 DEF Same
  <2> QED
    BY <1>2, <1>6, <1>7, <2>1 DEF Stops
<1>9. ClosedSession \in Sessions /\ ClosedSession.syncVer = 0 /\ Stops(x, ClosedSession)
  BY <1>2, NewTyped DEF ClosedSession, NewSession, States, Stops
<1>10. PICK y \in Sessions : y = Ended(w) /\ y \in {w, ClosedSession}
  BY <1>5, EndTyped
<1>11. Stops(x, y) /\ y.syncVer <= ver
  BY <1>2, <1>7, <1>8, <1>9, <1>10
<1>12. Here(s, y) /\ hubOpen' = [hubOpen EXCEPT ![s] = FALSE]
  BY <1>2, <1>4, <1>10 DEF RecvEnds, Here
<1>13. /\ out' = [out EXCEPT ![s] = out[s]] /\ toHub' = [toHub EXCEPT ![s] = toHub[s]]
       /\ toGw' = [toGw EXCEPT ![s] = toGw[s]] /\ gwOpen' = gwOpen /\ Steady
  BY <1>0, <1>2, Keeps
<1>14. /\ Alone(s) /\ sess'[s] = y /\ out'[s] = out[s] /\ toGw'[s] = toGw[s]
       /\ toHub'[s] = toHub[s] /\ hubOpen'[s] = FALSE /\ gwOpen'[s] = gwOpen[s]
  BY ONLY <1>0, <1>12, <1>13, s \in Conns, AloneIs
<1> QED
  BY <1>1, <1>2, <1>11, <1>14 DEF RecvKinds, Quits

(* A receiving loop that fails is about to end.                            *)
LEMMA RecvFalters ==
  ASSUME BaseInv, NEW s \in Conns, sess[s].recv \in {"hello", "loop"}, RecvFails(s), Steady,
         UNCHANGED <<out, wires>>
  PROVE  Alone(s) /\ RecvKinds(s)
<1>1. PICK x \in Sessions : x = sess[s]
  BY Awake
<1>2. x.st # "CLOSED" /\ out' = [out EXCEPT ![s] = out[s]]
  BY <1>1, Awake
<1>3. PICK z \in Sessions : z = Closing(x) /\ z.st = "CLOSING" /\ Same(x, z, {"st"})
  BY <1>2, EndTyped DEF Shut
<1>4. PICK y : y = [z EXCEPT !.recv = "fail"]
  OBVIOUS
<1>5. y \in Sessions
  BY <1>4 DEF Sessions, RecvPcs
<1>6. y.recv = "fail" /\ y.st = "CLOSING" /\ Same(z, y, {"recv"})
  BY <1>3, <1>4 DEF Sessions, Same, Fields
<1>7. Same(x, y, {"st", "recv"})
  BY <1>3, <1>6 DEF Same, Fields
<1>8. Here(s, y) /\ UNCHANGED wires
  BY <1>1, <1>3, <1>4 DEF RecvFails, Here
<1>9. Alone(s) /\ Silent(s) /\ sess'[s] = y /\ out'[s] = out[s]
  BY <1>2, <1>8, Mute
<1>10. Falters(x, y)
  BY <1>1, <1>6, <1>7 DEF Falters
<1> QED
  BY <1>1, <1>2, <1>5, <1>9, <1>10 DEF RecvKinds

(* The elders are stopped.                                                 *)
LEMMA ReplacedDoes ==
  ASSUME BaseInv, NEW s \in Conns, RecvReplaced(s)
  PROVE  Alone(s) /\ RecvKinds(s)
<1>1. PICK x \in Sessions : x = sess[s]
  BY Awake
<1>2. /\ x.recv = "replacing" /\ x.st # "CLOSED" /\ Steady /\ UNCHANGED wires
      /\ out' = [out EXCEPT ![s] = out[s]] /\ \A p \in Conns : s \notin sess[p].due
  BY <1>1, SteadyIs, Awake DEF RecvReplaced
<1>3. PICK y : y = [x EXCEPT !.recv = "loop", !.token = TRUE]
  OBVIOUS
<1>4. sess \in [Conns -> Sessions]
  BY DEF BaseInv, HubEnds
<1>5. Here(s, y)
  BY <1>1, <1>3, <1>4 DEF RecvReplaced, Here, Sessions
<1>6. y.recv = "loop" /\ y.token /\ Same(x, y, {"recv", "token"}) /\ y \in Sessions
  BY <1>3 DEF Sessions, Same, Fields, RecvPcs
<1>7. Alone(s) /\ Silent(s) /\ sess'[s] = y /\ out'[s] = out[s]
  BY <1>2, <1>5, Mute
<1> QED
  BY <1>1, <1>2, <1>6, <1>7 DEF RecvKinds, Serves

(* The receiving loop at an end of file or a closed socket.                *)
LEMMA EndDoes ==
  ASSUME BaseInv, NEW s \in Conns, RecvEnd(s)
  PROVE  Alone(s) /\ RecvKinds(s)
<1>0. HubEnds /\ GwEnds
  BY DEF BaseInv
<1>1. Steady /\ UNCHANGED <<out, toGw, toHub, gwOpen>>
  BY SteadyIs DEF RecvEnd
<1>2. CASE sess[s].recv \in {"hello", "loop"} /\ RecvFails(s) /\ hubOpen' = hubOpen
  <2>1. UNCHANGED <<out, wires>>
    BY <1>1, <1>2 DEF wires
  <2> QED
    BY <1>1, <1>2, <2>1, RecvFalters
<1>3. CASE /\ sess[s].recv = "loop" /\ ~Before(s, "CLOSING")
           /\ sess' = [sess EXCEPT ![s] = Ended([@ EXCEPT !.recv = "done"])]
           /\ hubOpen' = [hubOpen EXCEPT ![s] = @ /\ sess[s].send # "done"]
  <2>1. PICK x \in Sessions : x = sess[s]
    BY Awake
  <2>2. x.st # "CLOSED" /\ x.st = "CLOSING" /\ x.recv = "loop"
    BY <1>3, <2>1, RanksOf, Awake DEF Before, Shut
  <2>3. PICK w : w = [x EXCEPT !.recv = "done"]
    OBVIOUS
  <2>4. w \in Sessions /\ w.recv = "done" /\ Same(x, w, {"recv"})
    BY <2>3 DEF Sessions, RecvPcs, Same, Fields
  <2>5. w.send = x.send
    BY <2>4 DEF Same, Fields
  <2>6. ClosedSession \in Sessions
    BY NewTyped DEF ClosedSession, States
  <2>7. PICK y \in Sessions : y = Ended(w) /\ y = IF w.send = "done" THEN ClosedSession ELSE w
    BY <2>4, <2>6, EndTyped
  <2>8. Leaves(x, y)
    BY <2>2, <2>4, <2>5, <2>7 DEF Leaves
  <2>9. PICK b : b = (hubOpen[s] /\ sess[s].send # "done")
    OBVIOUS
  <2>10. Here(s, y) /\ hubOpen' = [hubOpen EXCEPT ![s] = b]
    BY <1>3, <2>1, <2>3, <2>7, <2>9 DEF Here
  <2>11. /\ out' = [out EXCEPT ![s] = out[s]] /\ toHub' = [toHub EXCEPT ![s] = toHub[s]]
         /\ toGw' = [toGw EXCEPT ![s] = toGw[s]] /\ gwOpen' = gwOpen /\ Steady
    BY <1>0, <1>1, Keeps
  <2>12. /\ Alone(s) /\ sess'[s] = y /\ out'[s] = out[s] /\ toGw'[s] = toGw[s]
         /\ toHub'[s] = toHub[s] /\ hubOpen'[s] = b /\ gwOpen'[s] = gwOpen[s]
    BY ONLY <1>0, <2>10, <2>11, s \in Conns, AloneIs
  <2> QED
    BY <2>1, <2>2, <2>8, <2>9, <2>12 DEF RecvKinds
<1> QED
  BY <1>2, <1>3 DEF RecvEnd

(* The receiving loop at its time-out.                                     *)
LEMMA TimeoutDoes ==
  ASSUME BaseInv, NEW s \in Conns, RecvTimeout(s)
  PROVE  Alone(s) /\ RecvKinds(s)
<1>1. PICK x \in Sessions : x = sess[s]
  BY Awake
<1>2. Steady /\ UNCHANGED <<out, toGw, toHub, gwOpen>> /\ out' = [out EXCEPT ![s] = out[s]]
  BY Awake DEF RecvTimeout, Steady, hubSide, hubVars, clientVars, guardVars
<1>3. Rank[x.st] < Rank["CLOSING"] <=> ~Shut(x)
  BY RanksOf
<1>4. sess \in [Conns -> Sessions]
  BY DEF BaseInv, HubEnds
<1>5. CASE x.recv = "hello" /\ RecvFails(s) /\ hubOpen' = hubOpen
  <2>1. UNCHANGED <<out, wires>>
    BY <1>2, <1>5 DEF wires
  <2> QED
    BY <1>1, <1>2, <1>5, <2>1, RecvFalters
<1>6. CASE /\ x.recv = "loop" /\ Before(s, "CLOSING") /\ hubOpen' = hubOpen
           /\ sess' = [sess EXCEPT ![s] = [x EXCEPT !.st = "CLOSING", !.err = TRUE, !.token = TRUE]]
  <2>1. PICK y : y = [x EXCEPT !.st = "CLOSING", !.err = TRUE, !.token = TRUE]
    OBVIOUS
  <2>2. y \in Sessions
    BY <2>1 DEF Sessions, States
  <2>3. y.st = "CLOSING" /\ y.err /\ y.token /\ Same(x, y, {"st", "err", "token"})
    BY <2>1 DEF Sessions, Same, Fields
  <2>4. Refuses(x, y) /\ x.st # "CLOSED"
    BY <1>1, <1>3, <1>6, <2>3 DEF Refuses, Before, Shut
  <2>5. Here(s, y) /\ UNCHANGED wires
    BY <1>2, <1>6, <2>1 DEF Here, wires
  <2>6. Alone(s) /\ Silent(s) /\ sess'[s] = y /\ out'[s] = out[s]
    BY <1>2, <2>5, Mute
  <2> QED
    BY <1>1, <2>2, <2>4, <2>6 DEF RecvKinds
<1>7. CASE /\ x.recv = "loop" /\ Before(s, "CLOSING") /\ hubOpen' = hubOpen
           /\ \/ sess' = [sess EXCEPT ![s].token = TRUE]
              \/ sess' = [sess EXCEPT ![s].pingDue = TRUE, ![s].token = TRUE]
  <2>1. PICK y : Here(s, y) /\ y \in {[x EXCEPT !.token = TRUE], [x EXCEPT !.pingDue = TRUE, !.token = TRUE]}
    <3>1. CASE sess' = [sess EXCEPT ![s].token = TRUE]
      BY <1>1, <1>4, <3>1 DEF Here
    <3>2. CASE sess' = [sess EXCEPT ![s].pingDue = TRUE, ![s].token = TRUE]
      <4>1. Here(s, [x EXCEPT !.pingDue = TRUE, !.token = TRUE])
        BY <1>1, <1>4, <3>2 DEF Here, Sessions
      <4> QED
        BY <4>1
    <3> QED
      BY <1>7, <3>1, <3>2
  <2>2. y \in Sessions /\ y.token /\ Same(x, y, {"token", "pingDue"})
    <3>1. CASE y = [x EXCEPT !.token = TRUE]
      BY <3>1 DEF Sessions, Same, Fields
    <3>2. CASE y = [x EXCEPT !.pingDue = TRUE, !.token = TRUE]
      BY <3>2 DEF Sessions, Same, Fields
    <3> QED
      BY <2>1, <3>1, <3>2
  <2>3. Nudges(x, y) /\ x.st # "CLOSED"
    BY <1>1, <1>3, <1>7, <2>2 DEF Nudges, Before, Shut
  <2>4. UNCHANGED wires
    BY <1>2, <1>7 DEF wires
  <2>5. Alone(s) /\ Silent(s) /\ sess'[s] = y /\ out'[s] = out[s]
    BY <1>2, <2>1, <2>4, Mute
  <2> QED
    BY <1>1, <2>2, <2>3, <2>5 DEF RecvKinds
<1> QED
  BY <1>1, <1>5, <1>6, <1>7 DEF RecvTimeout

(* Every step of the receiving loop is one of its kinds.                   *)
LEMMA RecvDoes ==
  ASSUME BaseInv, NEW s \in Conns, RecvStep(s) \/ RecvTimeout(s), ~RecvReplace(s)
  PROVE  Alone(s) /\ RecvKinds(s)
BY HelloDoes, BindDoes, ReplacedDoes, MsgDoes, EndDoes, RecvStops, TimeoutDoes DEF RecvStep

----------------------------------------------------------------------------
(* The session is listed to be stopped.                                    *)
Listed(x, y, d) ==
  /\ y.st = x.st /\ y.token = x.token /\ y.shut = x.shut /\ x.due \subseteq y.due
  /\ None \in y.due => None \in x.due \/ d
(* One of those who listed it stops it: the daemon lets it drain if it     *)
(* may; another who is the first to close it is going to close its socket. *)
Yields(x, y) ==
  \E c \in x.due :
    /\ y.due = x.due \ {c} /\ y.token
    /\ \/ c = None /\ x.st \in {"SYNC", "OPEN"} /\ y.st = "DRAIN" /\ y.shut = x.shut
       \/ ~Shut(x) /\ y.st = "CLOSING" /\ y.shut = x.shut \cup {c}
       \/ x.st = "CLOSING" /\ y.st = "CLOSING" /\ y.shut = x.shut
(* Its time to drain is over: the daemon is going to close its socket.     *)
Forced(x, y) ==
  /\ y.st = "CLOSING" /\ y.due = x.due /\ y.token = x.token /\ y.shut = x.shut \cup {None}
(* Its socket is closed by one of those who set CLOSING.                   *)
Closed(x, y) ==
  /\ y.token /\ y.st = x.st /\ y.due = x.due /\ y.shut \subseteq x.shut

(* What beginStop does to a listed session.                                *)
LEMMA StoppedIs ==
  ASSUME NEW x \in Sessions, NEW c \in x.due, x.st # "CLOSED"
  PROVE  LET y == Stopped([x EXCEPT !.due = @ \ {c}], c)
         IN  /\ y \in Sessions /\ Same(x, y, {"st", "token", "due", "shut"})
             /\ Yields(x, y)
<1>1. PICK D : D = x.due \ {c}
  OBVIOUS
<1>2. PICK z : z = [x EXCEPT !.due = D]
  OBVIOUS
<1>3. D \in SUBSET Stoppers /\ x.shut \cup {c} \in SUBSET Stoppers /\ c \in Stoppers
  BY <1>1 DEF Sessions
<1>4. z \in Sessions
  BY <1>2, <1>3 DEF Sessions
<1>5. z.due = D /\ z.st = x.st /\ z.shut = x.shut /\ Same(x, z, {"due"})
  BY <1>2 DEF Sessions, Same, Fields
<1>6. Rank[z.st] < Rank["CLOSING"] <=> ~Shut(x)
  BY <1>4, <1>5, RanksOf DEF Shut
<1>7. CASE c = None /\ x.st \in {"SYNC", "OPEN"}
  <2>1. PICK y : y = [z EXCEPT !.st = "DRAIN", !.token = TRUE]
    OBVIOUS
  <2>2. Stopped(z, c) = y
    BY <1>5, <1>7, <2>1 DEF Stopped
  <2>3. y \in Sessions
    BY <1>4, <2>1 DEF Sessions, States
  <2>4. y.st = "DRAIN" /\ y.token /\ y.due = D /\ y.shut = x.shut /\ Same(z, y, {"st", "token"})
    BY <1>4, <1>5, <2>1 DEF Sessions, Same, Fields
  <2>5. Same(x, y, {"st", "token", "due", "shut"})
    BY <1>5, <2>4 DEF Same, Fields
  <2>6. Yields(x, y)
    BY <1>1, <1>7, <2>4 DEF Yields
  <2> QED
    BY <1>1, <1>2, <2>2, <2>3, <2>5, <2>6
<1>8. CASE ~(c = None /\ x.st \in {"SYNC", "OPEN"}) /\ ~Shut(x)
  <2>1. PICK T : T = x.shut \cup {c}
    OBVIOUS
  <2>2. PICK y : y = [z EXCEPT !.st = "CLOSING", !.token = TRUE, !.shut = T]
    OBVIOUS
  <2>3. Stopped(z, c) = y
    BY <1>5, <1>6, <1>8, <2>1, <2>2 DEF Stopped
  <2>4. y \in Sessions
    BY <1>3, <1>4, <2>1, <2>2 DEF Sessions, States
  <2>5. y.st = "CLOSING" /\ y.token /\ y.due = D /\ y.shut = T /\ Same(z, y, {"st", "token", "shut"})
    BY <1>4, <1>5, <2>2 DEF Sessions, Same, Fields
  <2>6. Same(x, y, {"st", "token", "due", "shut"})
    BY <1>5, <2>5 DEF Same, Fields
  <2>7. Yields(x, y)
    BY <1>1, <1>8, <2>1, <2>5 DEF Yields
  <2> QED
    BY <1>1, <1>2, <2>3, <2>4, <2>6, <2>7
<1>9. CASE ~(c = None /\ x.st \in {"SYNC", "OPEN"}) /\ Shut(x)
  <2>1. PICK y : y = [z EXCEPT !.token = TRUE]
    OBVIOUS
  <2>2. Stopped(z, c) = y
    BY <1>5, <1>6, <1>9, <2>1 DEF Stopped
  <2>3. y \in Sessions
    BY <1>4, <2>1 DEF Sessions
  <2>4. y.st = x.st /\ y.token /\ y.due = D /\ y.shut = x.shut /\ Same(z, y, {"token"})
    BY <1>4, <1>5, <2>1 DEF Sessions, Same, Fields
  <2>5. Same(x, y, {"st", "token", "due", "shut"})
    BY <1>5, <2>4 DEF Same, Fields
  <2>6. x.st = "CLOSING"
    BY <1>9 DEF Shut
  <2>7. Yields(x, y)
    BY <1>1, <2>4, <2>6 DEF Yields
  <2> QED
    BY <1>1, <1>2, <2>2, <2>3, <2>5, <2>7
<1> QED
  BY <1>7, <1>8, <1>9

(* What those who stop sessions do to connection p, or leave.              *)
Halted(p) ==
  /\ sess'[p] \in Sessions /\ hubOpen'[p] \in BOOLEAN
  /\ out'[p] = out[p] /\ toGw'[p] = toGw[p] /\ toHub'[p] = toHub[p] /\ gwOpen'[p] = gwOpen[p]
  /\ hubOpen'[p] => hubOpen[p]
  /\ \/ sess'[p] = sess[p] /\ hubOpen'[p] = hubOpen[p]
     \/ /\ sess[p].st # "CLOSED" /\ Same(sess[p], sess'[p], {"st", "token", "due", "shut"})
        /\ \/ hubOpen'[p] = hubOpen[p] /\ Listed(sess[p], sess'[p], draining')
           \/ hubOpen'[p] = hubOpen[p] /\ Yields(sess[p], sess'[p])
           \/ hubOpen'[p] = hubOpen[p] /\ Forced(sess[p], sess'[p])
           \/ ~hubOpen'[p] /\ Closed(sess[p], sess'[p])

(* Neither rules nor gateway change; the daemon may begin to drain.        *)
Still == UNCHANGED <<epoch, ver, rules, log, hist, announced, conn, client, linkEpoch, badSync,
                     gEpoch, gVer, gRules>>
(* The daemon lists the sessions, or a session is stopped, forced or       *)
(* closed.                                                                 *)
HaltAll ==
  /\ Still /\ Functions /\ (draining => draining') /\ draining' \in BOOLEAN
  /\ \A p \in Conns : Halted(p) /\ sess'[p].due \subseteq sess[p].due \cup {None}

(* The session begins to stop its elders.                                  *)
Replaces(x, y) == x.recv = "replace" /\ y.recv = "replacing" /\ Same(x, y, {"recv"})
(* Session s has listed every other known session of its gateway.          *)
Replaced(s) ==
  /\ Still /\ draining' = draining /\ Functions
  /\ sess'[s] \in Sessions /\ Silent(s) /\ out'[s] = out[s] /\ Replaces(sess[s], sess'[s])
  /\ \A p \in Conns \ {s} :
       /\ Halted(p) /\ sess'[p].due \subseteq sess[p].due \cup {s}
       /\ sess[p].known => s \in sess'[p].due

(* What is kept per connection is a function.                              *)
LEMMA Kept ==
  ASSUME BaseInv
  PROVE  /\ sess \in [Conns -> Sessions] /\ out = [p \in Conns |-> out[p]]
         /\ toGw = [p \in Conns |-> toGw[p]]
         /\ toHub = [p \in Conns |-> toHub[p]] /\ gwOpen = [p \in Conns |-> gwOpen[p]]
         /\ hubOpen \in [Conns -> BOOLEAN] /\ gwOpen \in [Conns -> BOOLEAN]
         /\ hubOpen = [p \in Conns |-> hubOpen[p]] /\ sess = [p \in Conns |-> sess[p]]
<1>1. HubEnds /\ GwEnds
  BY DEF BaseInv
<1> QED
  BY <1>1 DEF HubEnds, GwEnds

(* Nobody lists or closes a closed session.                                *)
LEMMA Unlisted ==
  ASSUME BaseInv, NEW s \in Conns, sess[s].st = "CLOSED"
  PROVE  sess[s].due = {} /\ sess[s].shut = {} /\ ~sess[s].known /\ sess[s].recv = "done"
<1>1. sess[s] = ClosedSession
  BY DEF BaseInv, LinkSound
<1> QED
  BY <1>1 DEF ClosedSession, NewSession

(* A session that is listed.                                               *)
LEMMA ListedIs ==
  ASSUME NEW x \in Sessions, NEW c \in Stoppers, NEW d \in BOOLEAN, c = None => d
  PROVE  LET y == [x EXCEPT !.due = @ \cup {c}]
         IN  /\ y \in Sessions /\ Same(x, y, {"st", "token", "due", "shut"}) /\ Listed(x, y, d)
             /\ y.due = x.due \cup {c}
<1>1. PICK D : D = x.due \cup {c}
  OBVIOUS
<1>2. D \in SUBSET Stoppers
  BY <1>1 DEF Sessions
<1>3. PICK y : y = [x EXCEPT !.due = D]
  OBVIOUS
<1>4. y \in Sessions
  BY <1>2, <1>3 DEF Sessions
<1>5. y.due = D /\ Same(x, y, {"due"})
  BY <1>3 DEF Sessions, Same, Fields
<1>6. y.st = x.st /\ y.token = x.token /\ y.shut = x.shut /\ Same(x, y, {"st", "token", "due", "shut"})
  BY <1>5 DEF Same, Fields
<1>7. Listed(x, y, d)
  BY <1>1, <1>5, <1>6 DEF Listed
<1> QED
  BY <1>1, <1>3, <1>4, <1>5, <1>6, <1>7

(* The daemon's stop begins with the list of the sessions.                 *)
LEMMA BeginDoes ==
  ASSUME BaseInv, BeginStop
  PROVE  HaltAll
<1>1. /\ draining' = TRUE /\ Still /\ out' = out /\ toGw' = toGw /\ toHub' = toHub
      /\ gwOpen' = gwOpen /\ hubOpen' = hubOpen
  BY DEF BeginStop, Still, hubVars, clientVars, guardVars, wires
<1>2. sess' = [s \in Conns |-> IF sess[s].st = "CLOSED" THEN sess[s]
                               ELSE [sess[s] EXCEPT !.due = @ \cup {None}]]
  BY DEF BeginStop
<1>3. Functions
  BY <1>1, <1>2, Kept DEF Functions
<1>4. ASSUME NEW p \in Conns
      PROVE  Halted(p) /\ sess'[p].due \subseteq sess[p].due \cup {None}
  <2>1. PICK x \in Sessions : x = sess[p]
    BY Awake
  <2>2. hubOpen'[p] \in BOOLEAN /\ hubOpen'[p] = hubOpen[p]
    BY <1>1, Kept
  <2>3. /\ out'[p] = out[p] /\ toGw'[p] = toGw[p] /\ toHub'[p] = toHub[p] /\ gwOpen'[p] = gwOpen[p]
    BY <1>1
  <2>4. CASE x.st = "CLOSED"
    BY <1>2, <2>1, <2>2, <2>3, <2>4 DEF Halted
  <2>5. CASE x.st # "CLOSED"
    <3>1. PICK y : y = [x EXCEPT !.due = @ \cup {None}]
      OBVIOUS
    <3>2. /\ y \in Sessions /\ Same(x, y, {"st", "token", "due", "shut"}) /\ Listed(x, y, TRUE)
          /\ y.due = x.due \cup {None}
      BY <3>1, ListedIs DEF Stoppers
    <3>3. sess'[p] = y
      BY <1>2, <2>1, <2>5, <3>1
    <3> QED
      BY <1>1, <2>1, <2>2, <2>3, <2>5, <3>2, <3>3 DEF Halted
  <2> QED
    BY <2>4, <2>5
<1> QED
  BY <1>1, <1>3, <1>4 DEF HaltAll

(* A step that changes session s to y, and closes its socket unless b.     *)
HaltsOne(s, y, b) ==
  /\ Here(s, y) /\ Steady /\ UNCHANGED <<out, toGw, toHub, gwOpen>>
  /\ hubOpen' = [hubOpen EXCEPT ![s] = b] /\ (b => hubOpen[s])
  /\ sess[s].st # "CLOSED" /\ Same(sess[s], y, {"st", "token", "due", "shut"})
  /\ y.due \subseteq sess[s].due
  /\ \/ b = hubOpen[s] /\ (Yields(sess[s], y) \/ Forced(sess[s], y))
     \/ ~b /\ Closed(sess[s], y)

(* A step of this kind is one of halting.                                  *)
LEMMA HaltOne ==
  ASSUME BaseInv, NEW s \in Conns, NEW y \in Sessions, NEW b \in BOOLEAN, HaltsOne(s, y, b)
  PROVE  HaltAll
<1> USE DEF HaltsOne
<1>0. HubEnds /\ GwEnds /\ draining \in BOOLEAN
  BY DEF BaseInv, GwEnds
<1>1. /\ out' = [out EXCEPT ![s] = out[s]] /\ toHub' = [toHub EXCEPT ![s] = toHub[s]]
      /\ toGw' = [toGw EXCEPT ![s] = toGw[s]] /\ gwOpen' = gwOpen
  BY <1>0, Keeps
<1>2. /\ Alone(s) /\ sess'[s] = y /\ out'[s] = out[s] /\ toGw'[s] = toGw[s]
      /\ toHub'[s] = toHub[s] /\ hubOpen'[s] = b /\ gwOpen'[s] = gwOpen[s]
  BY ONLY <1>0, <1>1, s \in Conns, Here(s, y), Steady, hubOpen' = [hubOpen EXCEPT ![s] = b], AloneIs
<1>3. Halted(s)
  BY <1>2 DEF Halted
<1>4. ASSUME NEW p \in Conns \ {s}
      PROVE  Halted(p) /\ sess'[p].due \subseteq sess[p].due
  <2>1. Quiet(p)
    BY <1>2 DEF Alone
  <2>2. sess[p] \in Sessions /\ hubOpen[p] \in BOOLEAN
    BY Kept
  <2> QED
    BY <2>1, <2>2 DEF Quiet, Halted
<1>5. Still /\ draining' = draining
  BY DEF Steady, Still
<1>6. Functions
  BY <1>2 DEF Alone
<1> QED
  BY <1>0, <1>2, <1>3, <1>4, <1>5, <1>6 DEF HaltAll

(* One of those who listed a session stops it.                             *)
LEMMA StopDoes ==
  ASSUME BaseInv, NEW s \in Conns, NEW c, Stop(c, s)
  PROVE  HaltAll
<1>1. PICK x \in Sessions : x = sess[s]
  BY Awake
<1>2. c \in x.due /\ x.st # "CLOSED"
  BY <1>1, Unlisted DEF Stop
<1>3. PICK y : y = Stopped([x EXCEPT !.due = @ \ {c}], c)
  OBVIOUS
<1>4. y \in Sessions /\ Same(x, y, {"st", "token", "due", "shut"}) /\ Yields(x, y)
  BY <1>2, <1>3, StoppedIs
<1>5. y.due \subseteq x.due
  BY <1>4 DEF Yields
<1>6. Here(s, y)
  BY <1>1, <1>3 DEF Stop, Here
<1>7. Steady /\ UNCHANGED <<out, toGw, toHub, gwOpen>> /\ hubOpen' = hubOpen
  BY SteadyIs DEF Stop, wires
<1>8. PICK b \in BOOLEAN : b = hubOpen[s] /\ hubOpen' = [hubOpen EXCEPT ![s] = b]
  BY <1>7, Kept
<1>9. /\ sess[s].st # "CLOSED" /\ Same(sess[s], y, {"st", "token", "due", "shut"})
      /\ y.due \subseteq sess[s].due /\ b = hubOpen[s] /\ Yields(sess[s], y)
  BY <1>1, <1>2, <1>4, <1>5, <1>8
<1>10. HaltsOne(s, y, b)
  BY <1>4, <1>6, <1>7, <1>8, <1>9 DEF HaltsOne
<1> QED
  BY ONLY BaseInv, s \in Conns, <1>4, <1>8, <1>10, HaltOne

(* One of those who set CLOSING closes the socket.                         *)
LEMMA CloseDoes ==
  ASSUME BaseInv, NEW s \in Conns, NEW c, CloseNow(c, s)
  PROVE  HaltAll
<1>1. PICK x \in Sessions : x = sess[s]
  BY Awake
<1>2. c \in x.shut /\ x.st # "CLOSED"
  BY <1>1, Unlisted DEF CloseNow
<1>3. PICK T : T = x.shut \ {c}
  OBVIOUS
<1>4. PICK y : y = [x EXCEPT !.token = TRUE, !.shut = T]
  OBVIOUS
<1>5. T \in SUBSET Stoppers
  BY <1>3 DEF Sessions
<1>6. y \in Sessions
  BY <1>4, <1>5 DEF Sessions
<1>7. y.token /\ y.shut = T /\ Same(x, y, {"token", "shut"})
  BY <1>4 DEF Sessions, Same, Fields
<1>8. /\ y.st = x.st /\ y.due = x.due /\ Same(x, y, {"st", "token", "due", "shut"})
  BY <1>7 DEF Same, Fields
<1>9. Closed(x, y)
  BY <1>3, <1>7, <1>8 DEF Closed
<1>10. Here(s, y) /\ hubOpen' = [hubOpen EXCEPT ![s] = FALSE]
  BY <1>1, <1>3, <1>4 DEF CloseNow, Here
<1>11. Steady /\ UNCHANGED <<out, toGw, toHub, gwOpen>>
  BY SteadyIs DEF CloseNow
<1>12. PICK b \in BOOLEAN : b = FALSE
  OBVIOUS
<1>13. /\ sess[s].st # "CLOSED" /\ Same(sess[s], y, {"st", "token", "due", "shut"})
       /\ y.due \subseteq sess[s].due /\ ~b /\ Closed(sess[s], y) /\ (b => hubOpen[s])
       /\ hubOpen' = [hubOpen EXCEPT ![s] = b]
  BY <1>1, <1>2, <1>8, <1>9, <1>10, <1>12
<1>14. HaltsOne(s, y, b)
  BY <1>6, <1>10, <1>11, <1>12, <1>13 DEF HaltsOne
<1> QED
  BY ONLY BaseInv, s \in Conns, <1>6, <1>12, <1>14, HaltOne

(* The drain's deadline stops what is left.                                *)
LEMMA ForceDoes ==
  ASSUME BaseInv, NEW s \in Conns, ForceStop(s)
  PROVE  HaltAll
<1>1. PICK x \in Sessions : x = sess[s]
  BY Awake
<1>2. x.st # "CLOSED"
  BY <1>1 DEF ForceStop
<1>3. PICK T : T = x.shut \cup {None}
  OBVIOUS
<1>4. PICK y : y = [x EXCEPT !.st = "CLOSING", !.shut = T]
  OBVIOUS
<1>5. T \in SUBSET Stoppers
  BY <1>3 DEF Sessions, Stoppers
<1>6. y \in Sessions
  BY <1>4, <1>5 DEF Sessions, States
<1>7. y.st = "CLOSING" /\ y.shut = T /\ Same(x, y, {"st", "shut"})
  BY <1>4 DEF Sessions, Same, Fields
<1>8. /\ y.token = x.token /\ y.due = x.due /\ Same(x, y, {"st", "token", "due", "shut"})
  BY <1>7 DEF Same, Fields
<1>9. Forced(x, y)
  BY <1>3, <1>7, <1>8 DEF Forced
<1>10. Here(s, y)
  BY <1>1, <1>3, <1>4 DEF ForceStop, Here
<1>11. Steady /\ UNCHANGED <<out, toGw, toHub, gwOpen>> /\ hubOpen' = hubOpen
  BY SteadyIs DEF ForceStop, wires
<1>12. PICK b \in BOOLEAN : b = hubOpen[s] /\ hubOpen' = [hubOpen EXCEPT ![s] = b]
  BY <1>11, Kept
<1>13. /\ sess[s].st # "CLOSED" /\ Same(sess[s], y, {"st", "token", "due", "shut"})
       /\ y.due \subseteq sess[s].due /\ b = hubOpen[s] /\ Forced(sess[s], y)
  BY <1>1, <1>2, <1>8, <1>9, <1>12
<1>14. HaltsOne(s, y, b)
  BY <1>6, <1>10, <1>11, <1>12, <1>13 DEF HaltsOne
<1> QED
  BY ONLY BaseInv, s \in Conns, <1>6, <1>12, <1>14, HaltOne

(* The listing of elders, in m_readyFn.                                    *)
LEMMA ReplaceDoes ==
  ASSUME BaseInv, NEW s \in Conns, RecvReplace(s)
  PROVE  Replaced(s)
<1>1. /\ draining' = draining /\ Still /\ out' = out /\ toGw' = toGw /\ toHub' = toHub
      /\ gwOpen' = gwOpen /\ hubOpen' = hubOpen
  BY DEF RecvReplace, Still, Elsewhere, hubSide, hubVars, clientVars, guardVars, wires
<1>2. sess' = [p \in Conns |-> IF p = s THEN [sess[s] EXCEPT !.recv = "replacing"]
                                ELSE IF Older(s, p) THEN [sess[p] EXCEPT !.due = @ \cup {s}]
                                ELSE sess[p]]
  BY DEF RecvReplace
<1>3. Functions
  BY <1>1, <1>2, Kept DEF Functions
<1>4. ASSUME NEW p \in Conns \ {s}
      PROVE  /\ Halted(p) /\ sess'[p].due \subseteq sess[p].due \cup {s}
             /\ sess[p].known => s \in sess'[p].due
  <2>1. PICK x \in Sessions : x = sess[p]
    BY Awake
  <2>2. hubOpen'[p] \in BOOLEAN /\ hubOpen'[p] = hubOpen[p]
    BY <1>1, Kept
  <2>3. /\ out'[p] = out[p] /\ toGw'[p] = toGw[p] /\ toHub'[p] = toHub[p] /\ gwOpen'[p] = gwOpen[p]
    BY <1>1
  <2>4. Older(s, p) <=> x.known
    BY <2>1 DEF Older
  <2>5. CASE ~x.known
    <3>1. sess'[p] = x
      BY <1>2, <2>1, <2>4, <2>5
    <3> QED
      BY <2>1, <2>2, <2>3, <2>5, <3>1 DEF Halted
  <2>6. CASE x.known
    <3>1. PICK y : y = [x EXCEPT !.due = @ \cup {s}]
      OBVIOUS
    <3>2. PICK d \in BOOLEAN : d = draining'
      BY <1>1 DEF BaseInv, GwEnds
    <3>3. s \in Stoppers /\ s # None
      BY SyncAssumption DEF Stoppers
    <3>4. /\ y \in Sessions /\ Same(x, y, {"st", "token", "due", "shut"}) /\ Listed(x, y, d)
          /\ y.due = x.due \cup {s}
      BY <3>1, <3>3, ListedIs
    <3>5. sess'[p] = y
      BY <1>2, <2>1, <2>4, <2>6, <3>1
    <3>6. x.st # "CLOSED"
      BY <2>1, <2>6, Unlisted
    <3> QED
      BY <2>1, <2>2, <2>3, <3>2, <3>4, <3>5, <3>6 DEF Halted
  <2> QED
    BY <2>5, <2>6
<1>5. PICK x \in Sessions : x = sess[s]
  BY Awake
<1>6. PICK y : y = [x EXCEPT !.recv = "replacing"]
  OBVIOUS
<1>7. y \in Sessions /\ y.recv = "replacing" /\ Same(x, y, {"recv"})
  BY <1>6 DEF Sessions, RecvPcs, Same, Fields
<1>8. sess'[s] = y
  BY <1>2, <1>5, <1>6
<1>9. x.recv = "replace"
  BY <1>5 DEF RecvReplace
<1>10. Silent(s) /\ out'[s] = out[s]
  BY <1>1 DEF Silent
<1> QED
  BY <1>1, <1>3, <1>4, <1>5, <1>7, <1>8, <1>9, <1>10 DEF Replaced, Replaces

(* The broadcaster marks session p as due, or dirty, and wakes it; late    *)
(* ones are left alone.                                                    *)
Roused(p) ==
  /\ sess'[p] \in Sessions /\ Silent(p) /\ out'[p] = out[p]
  /\ \/ Late(sess[p]) /\ sess'[p] = sess[p]
     \/ /\ ~Late(sess[p]) /\ sess'[p].pushDue /\ sess'[p].token
        /\ (sess'[p].dirty <=> sess[p].dirty \/ sess[p].sync # 0)
        /\ Same(sess[p], sess'[p], {"pushDue", "dirty", "token"})
(* The broadcaster announces the current version to every session.         *)
RouseAll ==
  /\ UNCHANGED <<epoch, ver, rules, log, hist, draining, conn, client, linkEpoch, badSync, gEpoch, gVer, gRules>>
  /\ announced' = ver /\ Functions /\ \A p \in Conns : Roused(p)

(* Publish is that.                                                        *)
LEMMA PublishDoes ==
  ASSUME BaseInv, Publish
  PROVE  RouseAll
<1>1. /\ out' = out /\ toGw' = toGw /\ toHub' = toHub /\ gwOpen' = gwOpen /\ hubOpen' = hubOpen
      /\ announced' = ver
      /\ UNCHANGED <<epoch, ver, rules, log, hist, draining, conn, client, linkEpoch, badSync, gEpoch, gVer, gRules>>
  BY DEF Publish, wires, hubVars, clientVars, guardVars
<1>2. sess' = [s \in Conns |-> Woken(sess[s])]
  BY DEF Publish
<1>3. Functions
  BY <1>1, <1>2, Kept DEF Functions
<1>4. ASSUME NEW p \in Conns
      PROVE  Roused(p)
  <2>1. PICK x \in Sessions : x = sess[p]
    BY Awake
  <2>2. Rank[x.st] >= Rank["DRAIN"] <=> Late(x)
    BY RanksOf
  <2>3. sess'[p] = Woken(x)
    BY <1>2, <2>1
  <2>4. Silent(p) /\ out'[p] = out[p]
    BY <1>1 DEF Silent
  <2>5. CASE Late(x)
    BY <2>1, <2>2, <2>3, <2>4, <2>5 DEF Roused, Woken
  <2>6. CASE ~Late(x)
    <3>1. PICK d \in BOOLEAN : d = (x.dirty \/ x.sync # 0)
      BY DEF Sessions
    <3>2. PICK y : y = [x EXCEPT !.pushDue = TRUE, !.dirty = d, !.token = TRUE]
      OBVIOUS
    <3>3. sess'[p] = y
      BY <2>2, <2>3, <2>6, <3>1, <3>2 DEF Woken
    <3>4. y \in Sessions
      BY <3>2 DEF Sessions
    <3>5. y.pushDue /\ y.token /\ (y.dirty <=> d) /\ Same(x, y, {"pushDue", "dirty", "token"})
      BY <3>2 DEF Sessions, Same, Fields
    <3> QED
      BY <2>1, <2>4, <2>6, <3>1, <3>3, <3>4, <3>5 DEF Roused
  <2> QED
    BY <2>5, <2>6
<1> QED
  BY <1>1, <1>3, <1>4 DEF RouseAll

(* Connection p after the hub died: no session, a closed socket, and what  *)
(* was written to it is lost; what it wrote may still arrive.              *)
Rebooted(p) ==
  /\ sess'[p] = ClosedSession /\ out'[p] = None /\ hubOpen'[p] = FALSE /\ toHub'[p] = <<>>
  /\ toGw'[p] = toGw[p] /\ gwOpen'[p] = gwOpen[p]
(* The hub starts anew, in the next epoch.                                 *)
RebootAll ==
  /\ Reboots /\ UNCHANGED <<conn, client, linkEpoch, badSync, gEpoch, gVer, gRules>>
  /\ Functions /\ \A p \in Conns : Rebooted(p)

(* Restart is that.                                                        *)
LEMMA RestartDoes ==
  ASSUME BaseInv, Restart
  PROVE  RebootAll
<1>1. rules' \in RuleSets
  BY DEF Restart, HubRestart, RuleSets
<1>2. Reboots
  BY <1>1 DEF Restart, HubRestart, Remembered, Reboots
<1>3. /\ sess' = [s \in Conns |-> ClosedSession] /\ out' = [s \in Conns |-> None]
      /\ hubOpen' = [s \in Conns |-> FALSE] /\ toHub' = [s \in Conns |-> << >>]
      /\ toGw' = toGw /\ gwOpen' = gwOpen
      /\ UNCHANGED <<conn, client, linkEpoch, badSync, gEpoch, gVer, gRules>>
  BY DEF Restart, clientVars, guardVars
<1> QED
  BY <1>2, <1>3, Kept DEF RebootAll, Rebooted, Functions

(* An edit of the rules, before the broadcaster announces it.              *)
Edited ==
  /\ \E i \in Ids, r \in Rules \cup {NoRule} : Edits(i, r)
  /\ UNCHANGED <<sess, out, wires, clientVars, guardVars>>

(* The gateway dials: a new session and a HELLO with the version of its    *)
(* copy.                                                                   *)
Dialled(s) ==
  /\ client \in {"DOWN", "BACKOFF"} /\ ~draining
  /\ sess[s].recv = "done" /\ ~gwOpen[s]
  /\ sess'[s] = NewSession("HELLO", "wait") /\ out'[s] = out[s]
  /\ toGw'[s] = <<>> /\ toHub'[s] = <<Msg("HELLO", 1, [epoch |-> gEpoch, version |-> gVer])>>
  /\ gwOpen'[s] = TRUE /\ hubOpen'[s] = TRUE
  /\ conn' = s /\ client' = "HELLO" /\ linkEpoch' = 0 /\ badSync' = 0
  /\ UNCHANGED <<epoch, ver, rules, log, hist, announced, draining, gEpoch, gVer, gRules>>
  /\ Functions /\ \A p \in Conns \ {s} : Quiet(p)

(* Dial is that.                                                           *)
LEMMA DialDoes ==
  ASSUME BaseInv, NEW s \in Conns, Dial(s)
  PROVE  Dialled(s)
<1>0. sess[s].recv = "done"
  BY Unlisted DEF Dial, Leaked
<1>1. /\ client \in {"DOWN", "BACKOFF"} /\ ~draining /\ ~gwOpen[s]
      /\ conn' = s /\ client' = "HELLO" /\ linkEpoch' = 0 /\ badSync' = 0 /\ out' = out
      /\ UNCHANGED <<epoch, ver, rules, log, hist, announced, draining, gEpoch, gVer, gRules>>
  BY DEF Dial, hubSide, hubVars, guardVars
<1>2. PICK y : y = NewSession("HELLO", "wait")
  OBVIOUS
<1>3. PICK h : h = <<Msg("HELLO", 1, [epoch |-> gEpoch, version |-> gVer])>>
  OBVIOUS
<1>4. /\ sess' = [sess EXCEPT ![s] = y] /\ toGw' = [toGw EXCEPT ![s] = <<>>]
      /\ toHub' = [toHub EXCEPT ![s] = h]
      /\ gwOpen' = [gwOpen EXCEPT ![s] = TRUE] /\ hubOpen' = [hubOpen EXCEPT ![s] = TRUE]
  BY <1>2, <1>3 DEF Dial
<1>5. /\ sess'[s] = y /\ toGw'[s] = <<>> /\ toHub'[s] = h /\ gwOpen'[s] = TRUE /\ hubOpen'[s] = TRUE
      /\ out'[s] = out[s]
  BY <1>1, <1>4, Kept
<1>6. Functions
  BY <1>1, <1>4, Kept DEF Functions
<1>7. \A p \in Conns \ {s} : Quiet(p)
  BY <1>1, <1>4, Kept DEF Quiet
<1> QED
  BY <1>0, <1>1, <1>2, <1>3, <1>5, <1>6, <1>7 DEF Dialled

(* Nothing of the hub changes.                                             *)
HubStill == UNCHANGED <<epoch, ver, rules, log, hist, announced, draining, sess, out, hubOpen>>
(* The gateway's copy stays.                                               *)
CopySame == UNCHANGED <<gEpoch, gVer, gRules>>
(* The gateway restarts without a copy.                                    *)
CopyLost == gEpoch' = 0 /\ gVer' = 0 /\ gRules' = [i \in Ids |-> NoRule]
(* The guard accepts push p: a snapshot replaces the copy, a delta changes *)
(* it.                                                                     *)
CopyTakes(p) ==
  /\ Accepted(p) /\ gEpoch' = p.epoch /\ gVer' = p.version
  /\ gRules' = IF p.kind = "SNAP" THEN p.rules ELSE ApplyOps(gRules, p.ops)

(* The gateway reads a message of connection s.                            *)
GwReceives(s) == toGw[s] # <<>> /\ toGw'[s] = Tail(toGw[s]) /\ gwOpen'[s] = gwOpen[s] /\ conn' = conn
(* The message is a push, and the client is past the handshake.            *)
GwSyncs(s) == client \in {"SYNC", "OPEN"} /\ toGw[s] # <<>> /\ Head(toGw[s]).kind \in PushKinds
(* The client hangs up, and dials again later; a push it just read may     *)
(* have been applied.                                                      *)
GwHung(s) ==
  /\ gwOpen'[s] = FALSE /\ toGw'[s] = <<>> /\ toHub'[s] = toHub[s]
  /\ conn' = None /\ client' \in {"BACKOFF", "DOWN"} /\ linkEpoch' = 0 /\ badSync' = 0
  /\ CopySame \/ CopyLost \/ (GwSyncs(s) /\ CopyTakes(Head(toGw[s]).body))
(* READY is handled: the link has the hub's epoch.                         *)
GwGreeted(s) ==
  /\ GwReceives(s) /\ client = "HELLO" /\ Head(toGw[s]).kind = "READY" /\ toHub'[s] = toHub[s]
  /\ linkEpoch' = Head(toGw[s]).body.epoch /\ client' \in {"OPEN", "SYNC"} /\ badSync' = badSync
  /\ CopySame
(* A push is applied and acknowledged.                                     *)
GwApplies(s) ==
  /\ GwReceives(s) /\ GwSyncs(s) /\ CopyTakes(Head(toGw[s]).body)
  /\ client' = "OPEN" /\ badSync' = 0 /\ linkEpoch' = linkEpoch
  /\ toHub'[s] = Append(toHub[s], Msg("ACK", Head(toGw[s]).seq,
                          [epoch |-> Head(toGw[s]).body.epoch, version |-> Head(toGw[s]).body.version]))
(* A push does not fit: a snapshot is asked for, once.                     *)
GwBalks(s) ==
  /\ GwReceives(s) /\ GwSyncs(s) /\ CopySame
  /\ client' = "SYNC" /\ badSync' = 1 /\ linkEpoch' = linkEpoch
  /\ toHub'[s] = Append(toHub[s], Msg("SNAP_REQ", 0, None))
(* A PING is answered.                                                     *)
GwPongs(s) ==
  /\ GwReceives(s) /\ client \in {"SYNC", "OPEN"} /\ Head(toGw[s]).kind = "PING" /\ CopySame
  /\ client' = client /\ badSync' = badSync /\ linkEpoch' = linkEpoch
  /\ toHub'[s] = Append(toHub[s], Msg("PONG", Head(toGw[s]).seq, None))

(* A step of the gateway on its connection s.                              *)
GwMoves(s) ==
  /\ conn = s /\ HubStill /\ Functions /\ \A p \in Conns \ {s} : Quiet(p)
  /\ GwHung(s) \/ GwGreeted(s) \/ GwApplies(s) \/ GwBalks(s) \/ GwPongs(s)
(* The gateway restarts while it has no connection.                        *)
GwDies ==
  /\ HubStill /\ UNCHANGED wires /\ CopyLost
  /\ conn = None /\ client' = "DOWN" /\ UNCHANGED <<conn, linkEpoch, badSync>>
(* The gateway's clock expires a rule of its copy.                         *)
GwFades ==
  /\ HubStill /\ UNCHANGED wires /\ UNCHANGED clientVars /\ gEpoch' = gEpoch /\ gVer' = gVer
  /\ \E i \in Ids : gRules[i] # NoRule /\ gRules[i].timed /\ gRules' = [gRules EXCEPT ![i] = NoRule]

(* However the link ends, the client hangs up.                             *)
LEMMA HangsUp ==
  ASSUME BaseInv, conn # None, NEW next \in {"BACKOFF", "DOWN"}, Hangup(next), HubStill,
         CopySame \/ CopyLost \/ (GwSyncs(conn) /\ CopyTakes(Head(toGw[conn]).body))
  PROVE  \E s \in Conns : GwMoves(s)
<1>1. PICK s \in Conns : s = conn
  BY DEF BaseInv, GwEnds
<1>2. /\ gwOpen' = [gwOpen EXCEPT ![s] = FALSE] /\ toGw' = [toGw EXCEPT ![s] = <<>>]
      /\ toHub' = toHub
      /\ conn' = None /\ client' = next /\ linkEpoch' = 0 /\ badSync' = 0
  BY <1>1 DEF Hangup
<1>3. sess' = sess /\ out' = out /\ hubOpen' = hubOpen
  BY DEF HubStill
<1>4. gwOpen'[s] = FALSE /\ toGw'[s] = <<>> /\ toHub'[s] = toHub[s]
  BY <1>2, Kept
<1>5. Functions
  BY <1>2, <1>3, Kept DEF Functions
<1>6. \A p \in Conns \ {s} : Quiet(p)
  BY <1>2, <1>3, Kept DEF Quiet
<1>7. CopySame \/ CopyLost \/ (GwSyncs(s) /\ CopyTakes(Head(toGw[s]).body))
  BY <1>1
<1>8. GwHung(s)
  BY <1>2, <1>4, <1>7 DEF GwHung
<1> QED
  BY <1>1, <1>5, <1>6, <1>8 DEF GwMoves

(* A step of the client that reads one message.                            *)
LEMMA Receives ==
  ASSUME BaseInv, NEW s \in Conns, s = conn, HubStill, toGw[s] # <<>>,
         toGw' = [toGw EXCEPT ![s] = Tail(toGw[s])],
         NEW h, toHub' = [toHub EXCEPT ![s] = h], gwOpen' = gwOpen, conn' = conn
  PROVE  /\ GwReceives(s) /\ Functions /\ toHub'[s] = h
         /\ \A p \in Conns \ {s} : Quiet(p)
<1>1. sess' = sess /\ out' = out /\ hubOpen' = hubOpen
  BY DEF HubStill
<1>2. PICK g : g = Tail(toGw[s])
  OBVIOUS
<1>3. toGw' = [toGw EXCEPT ![s] = g]
  BY <1>2
<1>4. toGw'[s] = g /\ toHub'[s] = h
  BY <1>3, Kept
<1>5. Functions
  BY <1>1, <1>3, Kept DEF Functions
<1>6. \A p \in Conns \ {s} : Quiet(p)
  BY <1>1, <1>3, Kept DEF Quiet
<1>7. GwReceives(s)
  BY <1>2, <1>4 DEF GwReceives
<1> QED
  BY <1>4, <1>5, <1>6, <1>7

(* The client's handling of READY.                                         *)
LEMMA GwReadyDoes ==
  ASSUME BaseInv, GwReady
  PROVE  \E s \in Conns : GwMoves(s)
<1>1. HubStill /\ CopySame
  BY DEF GwReady, HubStill, hubSide, hubVars, guardVars, CopySame
<1>2. client = "HELLO" /\ toGw[conn] # <<>> /\ conn # None
  BY DEF GwReady, BaseInv, GwSound
<1>3. PICK s \in Conns : s = conn
  BY <1>2 DEF BaseInv, GwEnds
<1>4. CASE Head(toGw[conn]).kind = "READY"
  <2>1. /\ linkEpoch' = Head(toGw[s]).body.epoch /\ client' \in {"OPEN", "SYNC"}
        /\ toGw' = [toGw EXCEPT ![s] = Tail(toGw[s])] /\ conn' = conn /\ badSync' = badSync
        /\ toHub' = toHub /\ gwOpen' = gwOpen
    BY <1>3, <1>4 DEF GwReady
  <2>2. toHub' = [toHub EXCEPT ![s] = toHub[s]]
    BY <2>1, Keeps DEF BaseInv
  <2>3. toGw[s] # <<>>
    BY <1>2, <1>3
  <2>4. /\ GwReceives(s) /\ Functions /\ toHub'[s] = toHub[s]
        /\ \A p \in Conns \ {s} : Quiet(p)
    <3>1. /\ toGw' = [toGw EXCEPT ![s] = Tail(toGw[s])] /\ gwOpen' = gwOpen /\ conn' = conn
      BY <2>1
    <3> QED
      BY ONLY BaseInv, s \in Conns, <1>1, <1>3, <2>2, <2>3, <3>1, Receives
  <2>5. GwGreeted(s)
    BY <1>1, <1>2, <1>3, <1>4, <2>1, <2>4 DEF GwGreeted
  <2> QED
    BY <1>1, <1>3, <2>4, <2>5 DEF GwMoves
<1>5. CASE Head(toGw[conn]).kind # "READY"
  <2>1. Hangup("BACKOFF")
    BY <1>5 DEF GwReady
  <2> QED
    BY <1>1, <1>2, <2>1, HangsUp
<1> QED
  BY <1>4, <1>5

(* The client's handling of a push: applied, balked at, or the second bad  *)
(* one in a row, at which it hangs up.                                     *)
LEMMA GwPushDoes ==
  ASSUME BaseInv, GwPush
  PROVE  \E s \in Conns : GwMoves(s)
<1>1. HubStill
  BY DEF GwPush, HubStill, hubSide, hubVars
<1>2. client \in {"SYNC", "OPEN"} /\ toGw[conn] # <<>> /\ conn # None
  BY DEF GwPush, BaseInv, GwSound
<1>3. PICK s \in Conns : s = conn
  BY <1>2 DEF BaseInv, GwEnds
<1>4. PICK m : m = Head(toGw[s])
  OBVIOUS
<1>5. PICK p : p = m.body
  OBVIOUS
<1>6. m.kind \in PushKinds
  BY <1>3, <1>4 DEF GwPush, PushKinds
<1>7. GwSyncs(s)
  BY <1>2, <1>3, <1>4, <1>6 DEF GwSyncs
<1>8. IF Accepted(p) THEN CopyTakes(p) ELSE CopySame
  BY <1>3, <1>4, <1>5 DEF GwPush, CopyTakes, CopySame, guardVars
<1>9. CASE hubOpen[conn] /\ (Accepted(p) \/ badSync = 0)
  <2>1. PICK k : k = IF Accepted(p) THEN Msg("ACK", m.seq, [epoch |-> p.epoch, version |-> p.version])
                     ELSE Msg("SNAP_REQ", 0, None)
    OBVIOUS
  <2>2. /\ client' = IF Accepted(p) THEN "OPEN" ELSE "SYNC"
        /\ badSync' = IF Accepted(p) THEN 0 ELSE 1
        /\ toHub' = [toHub EXCEPT ![s] = Append(toHub[s], k)]
        /\ toGw' = [toGw EXCEPT ![s] = Tail(toGw[s])]
        /\ conn' = conn /\ linkEpoch' = linkEpoch /\ gwOpen' = gwOpen
    BY <1>3, <1>4, <1>5, <1>9, <2>1 DEF GwPush, Reply
  <2>3. PICK h : h = Append(toHub[s], k)
    OBVIOUS
  <2>4. /\ GwReceives(s) /\ Functions /\ toHub'[s] = h
        /\ \A q \in Conns \ {s} : Quiet(q)
    <3>1. /\ toGw' = [toGw EXCEPT ![s] = Tail(toGw[s])] /\ gwOpen' = gwOpen /\ conn' = conn
          /\ toHub' = [toHub EXCEPT ![s] = h]
      BY <2>2, <2>3
    <3>2. toGw[s] # <<>>
      BY <1>2, <1>3
    <3> QED
      BY ONLY BaseInv, s \in Conns, <1>1, <1>3, <3>1, <3>2, Receives
  <2>5. CASE Accepted(p)
    <3>1. GwApplies(s)
      BY <1>4, <1>5, <1>7, <1>8, <2>1, <2>2, <2>3, <2>4, <2>5 DEF GwApplies
    <3> QED
      BY <1>1, <1>3, <2>4, <3>1 DEF GwMoves
  <2>6. CASE ~Accepted(p)
    <3>1. GwBalks(s)
      BY <1>7, <1>8, <2>1, <2>2, <2>3, <2>4, <2>6 DEF GwBalks
    <3> QED
      BY <1>1, <1>3, <2>4, <3>1 DEF GwMoves
  <2> QED
    BY <2>5, <2>6
<1>10. CASE ~(hubOpen[conn] /\ (Accepted(p) \/ badSync = 0))
  <2>1. Hangup("BACKOFF")
    BY <1>3, <1>4, <1>5, <1>10 DEF GwPush
  <2>2. CopySame \/ CopyLost \/ (GwSyncs(conn) /\ CopyTakes(Head(toGw[conn]).body))
    BY <1>3, <1>4, <1>5, <1>7, <1>8
  <2> QED
    BY <1>1, <1>2, <2>1, <2>2, HangsUp
<1> QED
  BY <1>9, <1>10

(* The client's handling of the other messages.                            *)
LEMMA GwControlDoes ==
  ASSUME BaseInv, GwControl
  PROVE  \E s \in Conns : GwMoves(s)
<1>1. HubStill /\ CopySame
  BY DEF GwControl, HubStill, hubSide, hubVars, guardVars, CopySame
<1>2. client \in {"SYNC", "OPEN"} /\ toGw[conn] # <<>> /\ conn # None
  BY DEF GwControl, BaseInv, GwSound
<1>3. PICK s \in Conns : s = conn
  BY <1>2 DEF BaseInv, GwEnds
<1>4. CASE Head(toGw[conn]).kind = "PING" /\ hubOpen[conn]
  <2>1. PICK h : h = Append(toHub[s], Msg("PONG", Head(toGw[s]).seq, None))
    OBVIOUS
  <2>2. /\ toHub' = [toHub EXCEPT ![s] = h] /\ toGw' = [toGw EXCEPT ![s] = Tail(toGw[s])]
        /\ conn' = conn /\ gwOpen' = gwOpen
    BY <1>3, <1>4, <2>1 DEF GwControl, Reply, clientVars
  <2>3. client' = client /\ badSync' = badSync /\ linkEpoch' = linkEpoch
    BY <1>4 DEF GwControl, clientVars
  <2>4. /\ GwReceives(s) /\ Functions /\ toHub'[s] = h
        /\ \A q \in Conns \ {s} : Quiet(q)
    <3>1. toGw[s] # <<>>
      BY <1>2, <1>3
    <3> QED
      BY ONLY BaseInv, s \in Conns, <1>1, <1>3, <2>2, <3>1, Receives
  <2>5. GwPongs(s)
    BY <1>1, <1>2, <1>3, <1>4, <2>1, <2>3, <2>4 DEF GwPongs
  <2> QED
    BY <1>1, <1>3, <2>4, <2>5 DEF GwMoves
<1>5. CASE ~(Head(toGw[conn]).kind = "PING" /\ hubOpen[conn])
  <2>1. PICK next \in {"BACKOFF", "DOWN"} : Hangup(next)
    BY <1>5 DEF GwControl
  <2> QED
    BY <1>1, <1>2, <2>1, HangsUp
<1> QED
  BY <1>4, <1>5

(* Every step of the gateway is one of these.                              *)
LEMMA GwDoes ==
  ASSUME BaseInv, GwStep \/ GwBreak \/ GwRestart
  PROVE  (\E s \in Conns : GwMoves(s)) \/ GwDies
<1>1. ASSUME GwEof \/ GwBreak
      PROVE  \E s \in Conns : GwMoves(s)
  <2>1. conn # None /\ Hangup("BACKOFF") /\ HubStill /\ CopySame
    BY <1>1 DEF GwEof, GwBreak, HubStill, hubSide, hubVars, guardVars, CopySame
  <2> QED
    BY <2>1, HangsUp
<1>2. ASSUME GwRestart
      PROVE  (\E s \in Conns : GwMoves(s)) \/ GwDies
  <2>1. HubStill /\ CopyLost
    BY <1>2 DEF GwRestart, HubStill, hubSide, hubVars, CopyLost
  <2>2. CASE conn = None
    BY <1>2, <2>1, <2>2 DEF GwRestart, GwDies, wires, HubStill
  <2>3. CASE conn # None
    <3>1. Hangup("DOWN")
      BY <1>2, <2>3 DEF GwRestart
    <3> QED
      BY <2>1, <2>3, <3>1, HangsUp
  <2> QED
    BY <2>2, <2>3
<1> QED
  BY <1>1, <1>2, GwReadyDoes, GwPushDoes, GwControlDoes DEF GwStep

(* Every step of the system is of one of these kinds. The proofs below     *)
(* look at kinds, no longer at actions.                                    *)
LEMMA Kinds ==
  ASSUME BaseInv, SyncNext
  PROVE  \/ \E s \in Conns : Alone(s) /\ (SendKinds(s) \/ RecvKinds(s))
         \/ \E s \in Conns : Replaced(s)
         \/ HaltAll \/ RouseAll \/ RebootAll \/ Edited
         \/ \E s \in Conns : Dialled(s)
         \/ \E s \in Conns : GwMoves(s)
         \/ GwDies \/ GwFades
<1>1. ASSUME EditRule
      PROVE  Edited
  <2>1. CASE \E i \in Ids, r \in Rules : Put(i, r)
    BY <1>1, <2>1 DEF EditRule, Put, Remembered, Edits, Edited
  <2>2. CASE \E i \in Ids : Erase(i)
    BY <1>1, <2>2 DEF EditRule, Erase, Remembered, Edits, Edited
  <2> QED
    BY <1>1, <2>1, <2>2 DEF EditRule
<1>2. ASSUME NEW s \in Conns, RecvStep(s) \/ RecvTimeout(s)
      PROVE  Replaced(s) \/ (Alone(s) /\ RecvKinds(s))
  BY <1>2, RecvDoes, ReplaceDoes
<1>3. ASSUME NEW i \in Ids, GwExpire(i)
      PROVE  GwFades
  BY <1>3 DEF GwExpire, GwFades, HubStill, hubSide, hubVars, wires
<1>4. ASSUME NEW s \in Conns, StopStep(s)
      PROVE  HaltAll
  BY <1>4, StopDoes, CloseDoes DEF StopStep
<1> QED
  BY <1>1, <1>2, <1>3, <1>4, SendDoes, BeginDoes, ForceDoes, PublishDoes, RestartDoes, DialDoes,
     GwDoes DEF SyncNext

----------------------------------------------------------------------------
(* The types of connection s.                                              *)
Typed(s) ==
  /\ sess[s] \in Sessions /\ out[s] \in Outs /\ hubOpen[s] \in BOOLEAN /\ toGw[s] \in Seq(GwMsgs)
  /\ gwOpen[s] \in BOOLEAN /\ toHub[s] \in Seq(HubMsgs)

(* What BaseInv says of one connection.                                    *)
LEMMA TypedIs ==
  ASSUME BaseInv, NEW s \in Conns
  PROVE  Typed(s) /\ LinkSound(s) /\ epoch \in Nat /\ ver \in Nat
<1>1. HubEnds /\ GwEnds /\ LinkSound(s) /\ HubTyped
  BY DEF BaseInv
<1>2. epoch \in Nat /\ ver \in Nat
  BY <1>1, HubAssumption, SyncAssumption DEF HubTyped
<1> QED
  BY <1>1, <1>2 DEF HubEnds, GwEnds, Typed

(* What is right stays right: no step takes a version out of history.      *)
LEMMA StaysSound ==
  ASSUME BaseInv, SyncNext
  PROVE  /\ \A p : SoundAt(p, epoch, ver, hist) => SoundAt(p, epoch', ver', hist')
         /\ \A q : Carries(q, epoch, ver, hist) => Carries(q, epoch', ver', hist')
<1>1. \A e, v : Known(e, v, epoch, ver) => Known(e, v, epoch', ver') /\ hist'[e][v] = hist[e][v]
  BY HubStays DEF BaseInv
<1>2. \A p : SoundAt(p, epoch, ver, hist) => SoundAt(p, epoch', ver', hist')
  BY <1>1 DEF SoundAt
<1>3. \A q : Carries(q, epoch, ver, hist) => Carries(q, epoch', ver', hist')
  BY <1>2 DEF Carries
<1> QED
  BY <1>2, <1>3

(* What Append does, index by index.                                       *)
LEMMA AppendIs ==
  ASSUME NEW S, NEW q \in Seq(S), NEW m \in S
  PROVE  /\ Append(q, m) \in Seq(S) /\ Append(q, m) # <<>> /\ Len(Append(q, m)) = Len(q) + 1
         /\ \A n \in 1..Len(Append(q, m)) :
              \/ n \in 1..Len(q) /\ Append(q, m)[n] = q[n]
              \/ n = Len(q) + 1 /\ Append(q, m)[n] = m
         /\ \A n \in 1..Len(q) : n \in 1..Len(Append(q, m)) /\ Append(q, m)[n] = q[n]
         /\ Len(q) + 1 \in 1..Len(Append(q, m)) /\ Append(q, m)[Len(q) + 1] = m
         /\ q # <<>> => Head(Append(q, m)) = Head(q)
         /\ q = <<>> => Head(Append(q, m)) = m
<1>1. /\ Append(q, m) \in Seq(S) /\ Append(q, m) # <<>> /\ Len(Append(q, m)) = Len(q) + 1
      /\ Len(q) \in Nat
      /\ \A n \in 1..Len(q) : Append(q, m)[n] = q[n]
      /\ Append(q, m)[Len(q) + 1] = m
  OBVIOUS
<1>2. Head(Append(q, m)) = Append(q, m)[1]
  BY <1>1
<1>3. q # <<>> => Head(Append(q, m)) = Head(q)
  BY <1>1, <1>2
<1>4. q = <<>> => Head(Append(q, m)) = m
  BY <1>1, <1>2
<1>5. PICK k \in Nat : k = Len(q)
  BY <1>1
<1>6. \A n \in 1..(k + 1) : n \in 1..k \/ n = k + 1
  OBVIOUS
<1> QED
  BY <1>1, <1>3, <1>4, <1>5, <1>6

(* What Tail does, index by index.                                         *)
LEMMA TailIs ==
  ASSUME NEW S, NEW q \in Seq(S), q # <<>>
  PROVE  /\ Tail(q) \in Seq(S) /\ Head(q) \in S /\ Head(q) = q[1] /\ 1 \in 1..Len(q)
         /\ \A n \in 1..Len(Tail(q)) : n + 1 \in 1..Len(q) /\ Tail(q)[n] = q[n + 1]
<1>1. Tail(q) \in Seq(S) /\ Len(q) \in Nat /\ Len(q) # 0 /\ Head(q) = q[1]
  OBVIOUS
<1>2. 1 \in 1..Len(q) /\ Head(q) \in S
  BY <1>1
<1>3. Len(Tail(q)) = Len(q) - 1 /\ \A n \in 1..(Len(q) - 1) : Tail(q)[n] = q[n + 1]
  BY <1>1
<1> QED
  BY <1>1, <1>2, <1>3

(* A queue of right pushes stays one.                                      *)
LEMMA CarriesOn ==
  ASSUME NEW q \in Seq(GwMsgs), NEW ep, NEW ve, NEW hi
  PROVE  /\ Carries(<<>>, ep, ve, hi)
         /\ Carries(q, ep, ve, hi) /\ q # <<>> => Carries(Tail(q), ep, ve, hi)
         /\ \A m \in GwMsgs :
              /\ Carries(q, ep, ve, hi)
              /\ m.kind \in PushKinds => SoundAt(m.body, ep, ve, hi) /\ m.body.kind = m.kind
              /\ m.kind = "READY" => m.body \in Stamps
              => Carries(Append(q, m), ep, ve, hi)
<1>1. Carries(<<>>, ep, ve, hi)
  BY DEF Carries
<1>2. ASSUME Carries(q, ep, ve, hi), q # <<>>
      PROVE  Carries(Tail(q), ep, ve, hi)
  BY <1>2, TailIs DEF Carries
<1>3. ASSUME NEW m \in GwMsgs, Carries(q, ep, ve, hi),
             m.kind \in PushKinds => SoundAt(m.body, ep, ve, hi) /\ m.body.kind = m.kind,
             m.kind = "READY" => m.body \in Stamps
      PROVE  Carries(Append(q, m), ep, ve, hi)
  BY <1>3, AppendIs DEF Carries
<1> QED
  BY <1>1, <1>2, <1>3

(* A queue of stamped messages stays one.                                  *)
LEMMA StampedOn ==
  ASSUME NEW q \in Seq(HubMsgs)
  PROVE  /\ Stamped(<<>>)
         /\ Stamped(q) /\ q # <<>> => Stamped(Tail(q))
         /\ \A m \in HubMsgs : Stamped(q) /\ (m.kind \in {"HELLO", "ACK"} => m.body \in Stamps)
              => Stamped(Append(q, m))
<1>1. Stamped(<<>>)
  BY DEF Stamped
<1>2. ASSUME Stamped(q), q # <<>>
      PROVE  Stamped(Tail(q))
  BY <1>2, TailIs DEF Stamped
<1>3. ASSUME NEW m \in HubMsgs, Stamped(q), m.kind \in {"HELLO", "ACK"} => m.body \in Stamps
      PROVE  Stamped(Append(q, m))
  BY <1>3, AppendIs DEF Stamped
<1> QED
  BY <1>1, <1>2, <1>3

(* nextPush builds a right push of the current version. Here the deltas of *)
(* Rebuilds meet the copies.                                               *)
LEMMA NextPushIs ==
  ASSUME BaseInv, NEW from \in Nat, NEW once, from <= ver
  PROVE  /\ SoundAt(NextPush(from, once), epoch, ver, hist) /\ NextPush(from, once) \in Outs
         /\ NextPush(from, once).epoch = epoch /\ NextPush(from, once).version = ver
<1>0. HubTyped /\ LogSound
  BY DEF BaseInv
<1>1. /\ epoch \in 1..MaxEpoch /\ ver \in 0..MaxVer /\ rules \in RuleSets
      /\ hist[epoch][ver] = rules
      /\ MaxVer \in Nat /\ MaxEpoch \in Nat
  BY <1>0, HubAssumption, SyncAssumption DEF HubTyped, LogSound
<1>2. Known(epoch, ver, epoch, ver) /\ Known(epoch, from, epoch, ver)
  BY <1>1 DEF Known
<1>3. CASE ~once \/ from > ver \/ ~CanCover(log, from)
  <2>1. PICK p : p = [kind |-> "SNAP", epoch |-> epoch, version |-> ver, rules |-> rules]
    OBVIOUS
  <2>2. NextPush(from, once) = p
    BY <1>3, <2>1 DEF NextPush
  <2>3. p \in Snaps
    BY <1>1, <2>1 DEF Snaps
  <2>4. p.kind = "SNAP" /\ p.epoch = epoch /\ p.version = ver /\ p.rules = rules
    BY <2>1
  <2> QED
    BY <1>1, <1>2, <2>2, <2>3, <2>4 DEF SoundAt, Outs
<1>4. CASE ~(~once \/ from > ver \/ ~CanCover(log, from))
  <2>1. PICK ops : ops = Collect(log, from, ver)
    OBVIOUS
  <2>2. ApplyOps(hist[epoch][from], ops) = rules /\ ops \in SUBSET LogEntry
    <3>1. from \in 0..ver
      BY <1>1
    <3> QED
      BY <1>0, <1>4, <2>1, <3>1, Rebuilds
  <2>3. PICK p : p = [kind |-> "DELTA", epoch |-> epoch, prev |-> from, version |-> ver, ops |-> ops]
    OBVIOUS
  <2>4. NextPush(from, once) = p
    BY <1>4, <2>1, <2>3 DEF NextPush
  <2>5. p \in Deltas
    BY <1>1, <2>2, <2>3 DEF Deltas
  <2>6. p.kind = "DELTA" /\ p.epoch = epoch /\ p.version = ver /\ p.prev = from /\ p.ops = ops
    BY <2>3
  <2> QED
    BY <1>1, <1>2, <2>2, <2>4, <2>5, <2>6 DEF SoundAt, Outs
<1> QED
  BY <1>3, <1>4

(* Connection s is typed and sound.                                        *)
Whole(s) == Typed(s) /\ LinkSound(s)

(* The sending loop keeps its connection sound.                            *)
LEMMA SendWhole ==
  ASSUME BaseInv, SyncNext, NEW s \in Conns, Steady, SendKinds(s)
  PROVE  Whole(s)'
<1>1. PICK x \in Sessions, y \in Sessions : x = sess[s] /\ y = sess'[s]
  BY TypedIs DEF Typed, SendKinds
<1>2. PICK o \in Outs : o = out[s]
  BY TypedIs DEF Typed
<1>3. /\ toGw[s] \in Seq(GwMsgs) /\ toHub[s] \in Seq(HubMsgs) /\ epoch \in Nat /\ ver \in Nat
      /\ hubOpen[s] \in BOOLEAN /\ gwOpen[s] \in BOOLEAN
      /\ (x.st = "CLOSED" => x = ClosedSession) /\ Within(x, ver) /\ Planned(x, o, epoch, ver, hist)
      /\ Carries(toGw[s], epoch, ver, hist) /\ Stamped(toHub[s]) /\ Starts(x, toHub[s])
  BY <1>1, <1>2, TypedIs DEF Typed, LinkSound
<1>4. epoch' = epoch /\ ver' = ver /\ hist' = hist
  BY DEF Steady
<1>5. None \in Outs /\ None \notin Conns
  BY SyncAssumption DEF Outs
<1>6. ClosedSession \in Sessions /\ ClosedSession.send = "done" /\ ClosedSession.recv = "done"
      /\ Within(ClosedSession, ver)
  BY <1>3, NewTyped DEF ClosedSession, NewSession, States, Within
<1>7. x.send # "done" => x.st # "CLOSED"
  BY <1>3, <1>6
<1>8. SUFFICES /\ out'[s] \in Outs /\ hubOpen'[s] \in BOOLEAN /\ toGw'[s] \in Seq(GwMsgs)
               /\ gwOpen'[s] \in BOOLEAN /\ toHub'[s] \in Seq(HubMsgs)
               /\ y.st = "CLOSED" => y = ClosedSession
               /\ Within(y, ver) /\ Planned(y, out'[s], epoch, ver, hist)
               /\ Carries(toGw'[s], epoch, ver, hist) /\ Stamped(toHub'[s]) /\ Starts(y, toHub'[s])
  BY <1>1, <1>4 DEF Whole, Typed, LinkSound
<1>a. ASSUME NEW k \in {"READY", "PING", "ERR", "BYE"}, NEW n \in Nat, NEW b \in {None} \cup Stamps,
             k = "READY" => b \in Stamps
      PROVE  /\ Append(toGw[s], Msg(k, n, b)) \in Seq(GwMsgs)
             /\ Carries(Append(toGw[s], Msg(k, n, b)), epoch, ver, hist)
  <2>1. PICK m : m = Msg(k, n, b)
    OBVIOUS
  <2>2. m \in GwMsgs /\ m.kind = k /\ m.body = b
    BY <2>1 DEF Msg, GwMsgs
  <2>3. m.kind \notin PushKinds
    BY <2>2 DEF PushKinds
  <2> QED
    BY <1>3, <1>a, <2>1, <2>2, <2>3, AppendIs, CarriesOn
<1>9. CASE Quits(s)
  <2>1. /\ Stops(x, y) /\ y.syncVer <= ver /\ x.st # "CLOSED"
        /\ out'[s] = o \/ (out'[s] = None /\ y.send = "done")
        /\ hubOpen'[s] = FALSE /\ toHub'[s] = toHub[s] /\ gwOpen'[s] = gwOpen[s]
        /\ \/ toGw'[s] = toGw[s]
           \/ \E k \in {"ERR", "BYE"} : toGw'[s] = Append(toGw[s], Msg(k, 0, None))
    BY <1>1, <1>2, <1>9 DEF Quits
  <2>2. toGw'[s] \in Seq(GwMsgs) /\ Carries(toGw'[s], epoch, ver, hist)
    BY <1>3, <1>a, <2>1
  <2>3. CASE y = ClosedSession
    BY <1>2, <1>3, <1>5, <1>6, <2>1, <2>2, <2>3 DEF Planned, Starts
  <2>4. CASE y # ClosedSession
    <3>1. /\ y.st # "CLOSED" /\ y.sentVer = x.sentVer /\ y.target = x.target
          /\ y.send \in {x.send, "done"}
          /\ y.recv \in {x.recv, "done"}
      BY <2>1, <2>4 DEF Stops, Same, Fields
    <3>2. Within(y, ver)
      BY <1>3, <2>1, <3>1 DEF Within
    <3>3. Planned(y, out'[s], epoch, ver, hist) /\ out'[s] \in Outs
      BY <1>2, <1>3, <1>5, <2>1, <3>1 DEF Planned
    <3>4. Starts(y, toHub'[s])
      BY <1>3, <2>1, <3>1 DEF Starts
    <3> QED
      BY <1>3, <2>1, <2>2, <3>1, <3>2, <3>3, <3>4
  <2> QED
    BY <2>3, <2>4
<1>b. ASSUME x.st # "CLOSED", y.st # "CLOSED", y.recv = x.recv, y.sentVer <= ver, y.target <= ver, y.syncVer <= ver,
             toHub'[s] = toHub[s], gwOpen'[s] = gwOpen[s], hubOpen'[s] = hubOpen[s]
      PROVE  /\ hubOpen'[s] \in BOOLEAN /\ gwOpen'[s] \in BOOLEAN /\ toHub'[s] \in Seq(HubMsgs)
             /\ y.st = "CLOSED" => y = ClosedSession
             /\ Within(y, ver) /\ Stamped(toHub'[s]) /\ Starts(y, toHub'[s])
  BY <1>3, <1>b DEF Within, Starts
<1>10. CASE /\ Silent(s) /\ out'[s] = o
            /\ Wakes(x, y) \/ Decides(x, y) \/ Waits(x, y) \/ Passes(x, y)
  <2>1. /\ x.send # "done" /\ y.recv = x.recv /\ y.sentVer = x.sentVer /\ y.target = x.target
        /\ y.syncVer = x.syncVer /\ y.st \in {x.st, "OPEN", "SYNC"}
        /\ y.send \notin {"push", "mark", "emit", "sent"}
    BY <1>10 DEF Wakes, Decides, Waits, Passes, Same, Fields
  <2> QED
    BY <1>2, <1>3, <1>7, <1>10, <1>b, <2>1 DEF Silent, Within, Planned
<1>11. CASE /\ Silent(s) /\ out'[s] = None
            /\ Agrees(x, y, o, ver) \/ Settles(x, y, o)
  <2>1. /\ x.send # "done" /\ y.recv = x.recv /\ y.target = x.target /\ y.sentVer <= ver
        /\ y.syncVer = x.syncVer /\ y.st \in {x.st, "OPEN"}
        /\ y.send \notin {"push", "mark", "emit", "sent"}
    <3>1. CASE Agrees(x, y, o, ver)
      BY <1>3, <3>1 DEF Agrees, Same, Fields, Within
    <3>2. CASE Settles(x, y, o)
      BY <1>3, <3>2 DEF Settles, Same, Fields, Planned
    <3> QED
      BY <1>11, <3>1, <3>2
  <2> QED
    BY <1>3, <1>5, <1>7, <1>11, <1>b, <2>1 DEF Silent, Within, Planned
<1>12. CASE Silent(s) /\ Begins(x, y, out'[s])
  <2>1. /\ x.send # "done" /\ y.recv = x.recv /\ y.sentVer = x.sentVer /\ y.target = x.target
        /\ y.syncVer = x.syncVer /\ y.st = x.st /\ y.send = "push"
        /\ out'[s] \in Plans /\ out'[s].from = x.sentVer
    BY <1>12 DEF Begins, Same, Fields
  <2>2. Planned(y, out'[s], epoch, ver, hist) /\ out'[s] \in Outs
    BY <1>3, <2>1 DEF Planned, Within, Outs
  <2> QED
    BY <1>3, <1>7, <1>12, <1>b, <2>1, <2>2 DEF Silent, Within
<1>13. CASE Silent(s) /\ Fetches(x, y) /\ out'[s] = NextPush(o.from, o.once)
  <2>1. /\ x.send = "push" /\ y.recv = x.recv /\ y.sentVer = x.sentVer /\ y.target = x.target
        /\ y.syncVer = x.syncVer /\ y.st = x.st /\ y.send = "mark"
    BY <1>13 DEF Fetches, Same, Fields
  <2>2. o \in Plans /\ o.from \in Nat /\ o.from <= ver
    BY <1>3, <2>1 DEF Planned, Plans
  <2>3. /\ SoundAt(out'[s], epoch, ver, hist) /\ out'[s] \in Outs /\ out'[s].epoch = epoch
        /\ out'[s].version = ver
    BY <1>13, <2>2, NextPushIs
  <2>4. Planned(y, out'[s], epoch, ver, hist)
    BY <1>3, <2>1, <2>3 DEF Planned
  <2> QED
    BY <1>3, <1>7, <1>13, <1>b, <2>1, <2>3, <2>4 DEF Silent, Within
<1>14. CASE /\ out'[s] = o
            /\ \/ Greets(x, y) /\ Says(s, Msg("READY", 1, [epoch |-> epoch, version |-> x.target]))
               \/ Pings(x, y) /\ Says(s, Msg("PING", x.nextSeq, None))
  <2>1. /\ x.send # "done" /\ y.recv = x.recv /\ y.sentVer = x.sentVer /\ y.target = x.target
        /\ y.syncVer = x.syncVer /\ y.st = x.st /\ y.send \notin {"push", "mark", "emit", "sent"}
    BY <1>14 DEF Greets, Pings, Same, Fields
  <2>2. x.nextSeq \in Nat /\ [epoch |-> epoch, version |-> x.target] \in Stamps
    BY <1>3 DEF Sessions, Stamps
  <2>3. toGw'[s] \in Seq(GwMsgs) /\ Carries(toGw'[s], epoch, ver, hist)
    BY <1>14, <1>a, <2>2 DEF Says
  <2> QED
    BY <1>2, <1>3, <1>7, <1>14, <1>b, <2>1, <2>3 DEF Says, Within, Planned
<1>c. CASE Silent(s) /\ Marks(x, y, o) /\ out'[s] = o
  <2>1. /\ x.send = "mark" /\ y.recv = x.recv /\ y.sentVer = x.sentVer /\ y.target = x.target
        /\ y.syncVer = o.version /\ y.st = "SYNC" /\ y.send = "emit"
    BY <1>c DEF Marks, Same, Fields
  <2>2. SoundAt(o, epoch, ver, hist) /\ o.epoch = epoch /\ o.version <= ver
    BY <1>3, <2>1 DEF Planned
  <2>3. Planned(y, out'[s], epoch, ver, hist)
    BY <1>c, <2>1, <2>2 DEF Planned
  <2> QED
    BY <1>2, <1>3, <1>7, <1>b, <1>c, <2>1, <2>2, <2>3 DEF Silent, Within
<1>15. CASE out'[s] = o /\ Emits(x, y) /\ Says(s, Msg(o.kind, x.nextSeq - 1, o))
  <2>1. /\ x.send = "emit" /\ y.recv = x.recv /\ y.sentVer = x.sentVer /\ y.target = x.target
        /\ y.syncVer = x.syncVer /\ y.st = x.st /\ y.send = "sent"
    BY <1>15 DEF Emits, Same, Fields
  <2>2. SoundAt(o, epoch, ver, hist) /\ o.epoch = epoch /\ o.version <= ver
    BY <1>3, <2>1 DEF Planned
  <2>3. o.kind \in PushKinds /\ o \in Snaps \cup Deltas
    BY <2>2 DEF SoundAt, Snaps, Deltas, PushKinds
  <2>4. PICK n \in Nat : n = x.nextSeq - 1
    BY DEF Sessions
  <2>5. PICK m : m = Msg(o.kind, n, o)
    OBVIOUS
  <2>6. m \in GwMsgs /\ m.kind = o.kind /\ m.body = o
    BY <2>3, <2>5 DEF Msg, GwMsgs
  <2>7. m.kind # "READY"
    BY <2>3, <2>6 DEF PushKinds
  <2>8. toGw'[s] = Append(toGw[s], m)
    BY <1>15, <2>4, <2>5 DEF Says
  <2>9. toGw'[s] \in Seq(GwMsgs) /\ Carries(toGw'[s], epoch, ver, hist)
    BY <1>3, <2>2, <2>6, <2>7, <2>8, AppendIs, CarriesOn
  <2>10. Planned(y, out'[s], epoch, ver, hist)
    BY <1>15, <2>1, <2>2 DEF Planned
  <2> QED
    BY <1>2, <1>3, <1>7, <1>15, <1>b, <2>1, <2>2, <2>9, <2>10 DEF Says, Within
<1> QED
  BY <1>1, <1>2, <1>9, <1>10, <1>11, <1>12, <1>13, <1>14, <1>15, <1>c DEF SendKinds

(* So does the receiving loop.                                             *)
LEMMA RecvWhole ==
  ASSUME BaseInv, SyncNext, NEW s \in Conns, Steady, RecvKinds(s)
  PROVE  Whole(s)'
<1>1. PICK x \in Sessions, y \in Sessions : x = sess[s] /\ y = sess'[s]
  BY TypedIs DEF Typed, RecvKinds
<1>2. PICK o \in Outs : o = out[s] /\ out'[s] = o
  BY TypedIs DEF Typed, RecvKinds
<1>3. /\ toGw[s] \in Seq(GwMsgs) /\ toHub[s] \in Seq(HubMsgs) /\ epoch \in Nat /\ ver \in Nat
      /\ hubOpen[s] \in BOOLEAN /\ gwOpen[s] \in BOOLEAN
      /\ x.st # "CLOSED" /\ Within(x, ver) /\ Planned(x, o, epoch, ver, hist)
      /\ Carries(toGw[s], epoch, ver, hist) /\ Stamped(toHub[s]) /\ Starts(x, toHub[s])
  BY <1>1, <1>2, TypedIs DEF Typed, LinkSound, RecvKinds
<1>4. epoch' = epoch /\ ver' = ver /\ hist' = hist
  BY DEF Steady
<1>5. ClosedSession \in Sessions /\ ClosedSession.send = "done" /\ ClosedSession.recv = "done"
      /\ Within(ClosedSession, ver)
  BY <1>3, NewTyped DEF ClosedSession, NewSession, States, Within
<1>6. SUFFICES /\ hubOpen'[s] \in BOOLEAN /\ toGw'[s] = toGw[s]
               /\ gwOpen'[s] = gwOpen[s] /\ toHub'[s] \in Seq(HubMsgs)
               /\ y.st = "CLOSED" => y = ClosedSession
               /\ Within(y, ver) /\ Planned(y, o, epoch, ver, hist)
               /\ Stamped(toHub'[s]) /\ Starts(y, toHub'[s])
  BY <1>1, <1>2, <1>3, <1>4 DEF Whole, Typed, LinkSound
<1>7. CASE Quits(s) /\ toGw'[s] = toGw[s]
  <2>1. /\ Stops(x, y) /\ y.syncVer <= ver /\ x.st # "CLOSED"
        /\ hubOpen'[s] = FALSE /\ toHub'[s] = toHub[s] /\ gwOpen'[s] = gwOpen[s]
    BY <1>1, <1>7 DEF Quits
  <2>2. CASE y = ClosedSession
    BY <1>3, <1>5, <1>7, <2>1, <2>2 DEF Planned, Starts
  <2>3. CASE y # ClosedSession
    <3>1. /\ y.st # "CLOSED" /\ y.sentVer = x.sentVer /\ y.target = x.target
          /\ y.send \in {x.send, "done"}
          /\ y.recv \in {x.recv, "done"}
      BY <2>1, <2>3 DEF Stops, Same, Fields
    <3> QED
      BY <1>3, <1>7, <2>1, <3>1 DEF Within, Planned, Starts
  <2> QED
    BY <2>2, <2>3
<1>8. CASE Silent(s) /\ Hears(x, y, ver)
  <2>1. /\ x.recv = "hello" /\ y.recv = "bind" /\ y.sentVer = x.sentVer /\ y.target = ver
        /\ y.syncVer = x.syncVer /\ y.st = x.st /\ y.send = x.send
    BY <1>8 DEF Hears, Same, Fields
  <2> QED
    BY <1>3, <1>8, <2>1 DEF Silent, Within, Planned, Starts
<1>9. CASE Silent(s) /\ (Refuses(x, y) \/ Nudges(x, y) \/ Falters(x, y) \/ Serves(x, y))
  <2>1. /\ y.recv \in {x.recv, "fail", "loop"} /\ y.sentVer = x.sentVer /\ y.target = x.target
        /\ y.syncVer = x.syncVer /\ y.st \in {x.st, "CLOSING"} /\ y.send = x.send
    BY <1>9 DEF Refuses, Nudges, Falters, Serves, Same, Fields
  <2> QED
    BY <1>3, <1>9, <2>1 DEF Silent, Within, Planned, Starts
<1>10. CASE Takes(s) /\ Binds(x, y, Head(toHub[s]).body, epoch)
  <2>1. /\ x.recv = "bind" /\ y.recv = "replace" /\ y.target = x.target
        /\ y.syncVer = x.syncVer /\ y.st = x.st /\ y.send = x.send
    BY <1>10 DEF Binds, Same, Fields
  <2>2. y.sentVer <= ver
    <3>1. x.target \in Nat /\ y.sentVer \in Nat /\ x.target <= ver /\ x.sentVer <= ver
      BY <1>3 DEF Sessions, Within
    <3>2. y.sentVer <= x.target \/ y.sentVer = x.sentVer
      BY <1>10 DEF Binds
    <3> QED
      BY <1>3, <3>1, <3>2
  <2>3. toHub'[s] = Tail(toHub[s]) /\ toHub[s] # <<>>
    BY <1>10 DEF Takes
  <2>4. toHub'[s] \in Seq(HubMsgs) /\ Stamped(toHub'[s])
    BY <1>3, <2>3, TailIs, StampedOn
  <2> QED
    BY <1>3, <1>10, <2>1, <2>2, <2>4 DEF Takes, Within, Planned, Starts
<1>11. CASE /\ Takes(s) /\ x.recv = "loop"
            /\ \/ Acks(x, y, Head(toHub[s]), epoch) \/ Asks(x, y, Head(toHub[s]))
               \/ Pongs(x, y, Head(toHub[s])) \/ Refuses(x, y)
  <2>1. /\ y.recv = x.recv /\ y.sentVer = x.sentVer /\ y.target = x.target
        /\ y.syncVer \in {0, x.syncVer} /\ y.st \in {x.st, "CLOSING", "OPEN"} /\ y.send = x.send
    BY <1>11 DEF Acks, Asks, Pongs, Refuses, Same, Fields
  <2>2. toHub'[s] = Tail(toHub[s]) /\ toHub[s] # <<>>
    BY <1>11 DEF Takes
  <2>3. toHub'[s] \in Seq(HubMsgs) /\ Stamped(toHub'[s])
    BY <1>3, <2>2, TailIs, StampedOn
  <2> QED
    BY <1>3, <1>11, <2>1, <2>3 DEF Takes, Within, Planned, Starts
<1>12. CASE /\ Leaves(x, y) /\ toGw'[s] = toGw[s] /\ toHub'[s] = toHub[s] /\ gwOpen'[s] = gwOpen[s]
            /\ hubOpen'[s] = (hubOpen[s] /\ x.send # "done")
  <2>1. CASE y = ClosedSession
    BY <1>3, <1>5, <1>12, <2>1 DEF Planned, Starts
  <2>2. CASE y # ClosedSession
    <3>1. /\ y.recv = "done" /\ y.sentVer = x.sentVer /\ y.target = x.target
          /\ y.syncVer = x.syncVer /\ y.st = x.st /\ y.send = x.send
      BY <1>12, <2>2 DEF Leaves, Same, Fields
    <3> QED
      BY <1>3, <1>12, <3>1 DEF Within, Planned, Starts
  <2> QED
    BY <2>1, <2>2
<1> QED
  BY <1>1, <1>7, <1>8, <1>9, <1>10, <1>11, <1>12 DEF RecvKinds

(* What the daemon, the broadcaster and other sessions change of one.      *)
Marked == {"st", "token", "pushDue", "dirty", "due", "shut"}

(* A step that only changes the session's state and marks keeps it sound.  *)
LEMMA StateWhole ==
  ASSUME BaseInv, SyncNext, NEW s \in Conns, epoch' = epoch, sess'[s] \in Sessions,
         hubOpen'[s] \in BOOLEAN,
         out'[s] = out[s], toGw'[s] = toGw[s], toHub'[s] = toHub[s], gwOpen'[s] = gwOpen[s],
         \/ sess'[s] = sess[s]
         \/ /\ sess[s].st # "CLOSED" /\ sess'[s].st # "CLOSED" /\ Same(sess[s], sess'[s], Marked)
         \/ /\ sess[s].st # "CLOSED" /\ Replaces(sess[s], sess'[s])
  PROVE  Whole(s)'
<1>1. PICK x \in Sessions, y \in Sessions : x = sess[s] /\ y = sess'[s]
  BY TypedIs DEF Typed
<1>2. PICK o \in Outs : o = out[s] /\ out'[s] = o
  BY TypedIs DEF Typed
<1>3. /\ toGw[s] \in Seq(GwMsgs) /\ toHub[s] \in Seq(HubMsgs) /\ epoch \in Nat /\ ver \in Nat
      /\ hubOpen[s] \in BOOLEAN /\ gwOpen[s] \in BOOLEAN
      /\ (x.st = "CLOSED" => x = ClosedSession) /\ Within(x, ver) /\ Planned(x, o, epoch, ver, hist)
      /\ Carries(toGw[s], epoch, ver, hist) /\ Stamped(toHub[s]) /\ Starts(x, toHub[s])
  BY <1>1, <1>2, TypedIs DEF Typed, LinkSound
<1>4. ver' \in Nat /\ ver <= ver' /\ HubTyped'
  <2>1. HubTyped' /\ (epoch' = epoch => ver <= ver')
    BY HubStays DEF BaseInv
  <2>2. ver' \in Nat
    BY <2>1, HubAssumption DEF HubTyped
  <2> QED
    BY <2>1, <2>2
<1>5. /\ y.sentVer = x.sentVer /\ y.target = x.target /\ y.syncVer = x.syncVer /\ y.send = x.send
      /\ y.recv = x.recv \/ y.recv = "replacing"
      /\ y.st = "CLOSED" => y = ClosedSession
  <2>1. CASE y = x
    BY <1>3, <2>1
  <2>2. CASE x.st # "CLOSED" /\ y.st # "CLOSED" /\ Same(x, y, Marked)
    BY <2>2 DEF Same, Fields, Marked
  <2>3. CASE x.st # "CLOSED" /\ Replaces(x, y)
    BY <2>3 DEF Replaces, Same, Fields
  <2> QED
    BY <1>1, <2>1, <2>2, <2>3
<1>6. Within(y, ver')
  <2>1. x.sentVer \in Nat /\ x.target \in Nat /\ x.syncVer \in Nat
    BY DEF Sessions
  <2> QED
    BY <1>3, <1>4, <1>5, <2>1 DEF Within
<1>7. Planned(y, o, epoch, ver', hist')
  <2>1. x.send = "push" => o \in Plans /\ o.from \in Nat /\ o.from <= ver
    BY <1>3 DEF Planned, Plans
  <2>2. x.send \in {"mark", "emit", "sent"} =>
          SoundAt(o, epoch, ver', hist') /\ o.epoch = epoch /\ o.version \in Nat /\ o.version <= ver
    <3>1. x.send \in {"mark", "emit", "sent"} =>
            SoundAt(o, epoch, ver, hist) /\ o.epoch = epoch /\ o.version \in Nat /\ o.version <= ver
      BY <1>3, HubAssumption DEF Planned, SoundAt, Known
    <3> QED
      BY <3>1, StaysSound
  <2> QED
    BY <1>3, <1>4, <1>5, <2>1, <2>2 DEF Planned
<1>8. Carries(toGw[s], epoch, ver', hist')
  BY <1>3, StaysSound
<1>9. Starts(y, toHub[s])
  BY <1>3, <1>5 DEF Starts
<1> QED
  BY <1>1, <1>2, <1>3, <1>5, <1>6, <1>7, <1>8, <1>9 DEF Whole, Typed, LinkSound

(* So does a restart of the hub.                                           *)
LEMMA RebootWhole ==
  ASSUME BaseInv, SyncNext, NEW s \in Conns, Rebooted(s)
  PROVE  Whole(s)'
<1>1. /\ toGw[s] \in Seq(GwMsgs) /\ gwOpen[s] \in BOOLEAN /\ Carries(toGw[s], epoch, ver, hist)
  BY TypedIs DEF Typed, LinkSound
<1>2. ver' \in Nat
  BY HubStays, HubAssumption DEF BaseInv, HubTyped
<1>3. ClosedSession \in Sessions /\ ClosedSession.send = "done" /\ ClosedSession.recv = "done"
      /\ Within(ClosedSession, ver')
  BY <1>2, NewTyped DEF ClosedSession, NewSession, States, Within
<1>4. None \in Outs /\ <<>> \in Seq(HubMsgs) /\ Stamped(<<>>)
  BY DEF Outs, Stamped
<1>5. Carries(toGw[s], epoch', ver', hist')
  BY <1>1, StaysSound
<1>6. Planned(ClosedSession, None, epoch', ver', hist') /\ Starts(ClosedSession, <<>>)
  BY <1>3 DEF Planned, Starts
<1> QED
  BY <1>1, <1>3, <1>4, <1>5, <1>6 DEF Rebooted, Whole, Typed, LinkSound

(* So does the gateway's dialling.                                         *)
LEMMA DialWhole ==
  ASSUME BaseInv, SyncNext, NEW s \in Conns, Dialled(s)
  PROVE  Whole(s)'
<1>1. out[s] \in Outs /\ ver \in Nat /\ gEpoch \in Nat /\ gVer \in Nat
  BY TypedIs DEF Typed, BaseInv, GwEnds
<1>2. PICK y : y = NewSession("HELLO", "wait")
  OBVIOUS
<1>3. y \in Sessions /\ y.st = "HELLO" /\ y.send = "wait" /\ y.recv = "hello" /\ Within(y, ver)
  BY <1>1, <1>2, NewTyped DEF NewSession, States, Within
<1>4. PICK b : b = [epoch |-> gEpoch, version |-> gVer]
  OBVIOUS
<1>5. b \in Stamps
  BY <1>1, <1>4 DEF Stamps
<1>6. PICK m : m = Msg("HELLO", 1, b)
  OBVIOUS
<1>7. m \in HubMsgs /\ m.kind = "HELLO" /\ m.body = b
  BY <1>5, <1>6 DEF Msg, HubMsgs
<1>8. PICK h : h = <<m>>
  OBVIOUS
<1>9. h \in Seq(HubMsgs) /\ h # <<>> /\ Head(h) = m /\ Len(h) = 1 /\ h[1] = m
  BY <1>7, <1>8
<1>10. Stamped(h) /\ Starts(y, h)
  BY <1>5, <1>7, <1>9 DEF Stamped, Starts
<1>11. /\ sess'[s] = y /\ out'[s] = out[s] /\ toGw'[s] = <<>> /\ toHub'[s] = h /\ gwOpen'[s] = TRUE
       /\ hubOpen'[s] = TRUE /\ epoch' = epoch /\ ver' = ver /\ hist' = hist
  BY <1>2, <1>4, <1>6, <1>8 DEF Dialled
<1>12. /\ Planned(y, out[s], epoch, ver, hist) /\ Carries(<<>>, epoch, ver, hist)
       /\ <<>> \in Seq(GwMsgs)
  BY <1>3 DEF Planned, Carries
<1> QED
  BY <1>1, <1>3, <1>9, <1>10, <1>11, <1>12 DEF Whole, Typed, LinkSound

(* So does the client.                                                     *)
LEMMA GwWhole ==
  ASSUME BaseInv, SyncNext, NEW s \in Conns, GwMoves(s)
  PROVE  Whole(s)'
<1>1. /\ Typed(s) /\ LinkSound(s)
  BY TypedIs
<1>2. /\ sess'[s] = sess[s] /\ out'[s] = out[s] /\ hubOpen'[s] = hubOpen[s]
      /\ epoch' = epoch /\ ver' = ver /\ hist' = hist
  BY DEF GwMoves, HubStill
<1>3. toGw'[s] \in Seq(GwMsgs) /\ Carries(toGw'[s], epoch, ver, hist) /\ gwOpen'[s] \in BOOLEAN
  <2>1. /\ gwOpen'[s] \in {FALSE, gwOpen[s]}
        /\ toGw'[s] = <<>> \/ (toGw[s] # <<>> /\ toGw'[s] = Tail(toGw[s]))
    BY DEF GwMoves, GwHung, GwGreeted, GwApplies, GwBalks, GwPongs, GwReceives
  <2>2. <<>> \in Seq(GwMsgs)
    OBVIOUS
  <2>3. PICK g \in Seq(GwMsgs) : g = toGw[s] /\ Carries(g, epoch, ver, hist)
    BY <1>1 DEF Typed, LinkSound
  <2>4. Carries(<<>>, epoch, ver, hist)
    BY <2>3, CarriesOn
  <2>5. g # <<>> => Tail(g) \in Seq(GwMsgs) /\ Carries(Tail(g), epoch, ver, hist)
    BY <2>3, TailIs, CarriesOn
  <2>6. gwOpen[s] \in BOOLEAN
    BY <1>1 DEF Typed
  <2> QED
    BY <2>1, <2>2, <2>3, <2>4, <2>5, <2>6
<1>4. /\ toHub'[s] \in Seq(HubMsgs) /\ Stamped(toHub'[s])
      /\ toHub[s] # <<>> => toHub'[s] # <<>> /\ Head(toHub'[s]) = Head(toHub[s])
  <2>1. CASE toHub'[s] = toHub[s]
    BY <1>1, <2>1 DEF Typed, LinkSound
  <2>2. ASSUME NEW m \in HubMsgs, m.kind \in {"HELLO", "ACK"} => m.body \in Stamps, toHub'[s] = Append(toHub[s], m)
        PROVE  /\ toHub'[s] \in Seq(HubMsgs) /\ Stamped(toHub'[s])
               /\ toHub[s] # <<>> => toHub'[s] # <<>> /\ Head(toHub'[s]) = Head(toHub[s])
    BY <1>1, <2>2, AppendIs, StampedOn DEF Typed, LinkSound
  <2>3. toGw[s] # <<>> => Head(toGw[s]) \in GwMsgs /\ Head(toGw[s]).seq \in Nat
    <3>1. toGw[s] # <<>> => Head(toGw[s]) \in GwMsgs
      BY <1>1, TailIs DEF Typed
    <3> QED
      BY <3>1 DEF GwMsgs
  <2>4. CASE GwApplies(s)
    <3>1. PICK p : p = Head(toGw[s]).body
      OBVIOUS
    <3>2. p.epoch \in Nat /\ p.version \in Nat
      <4>1. Head(toGw[s]).kind \in PushKinds /\ toGw[s] # <<>>
        BY <2>4 DEF GwApplies, GwSyncs
      <4>2. SoundAt(p, epoch, ver, hist)
        BY <1>1, <3>1, <4>1, TailIs DEF Typed, LinkSound, Carries
      <4> QED
        BY <4>2 DEF SoundAt, Snaps, Deltas
    <3>3. PICK b : b = [epoch |-> p.epoch, version |-> p.version]
      OBVIOUS
    <3>4. b \in Stamps
      BY <3>2, <3>3 DEF Stamps
    <3>5. PICK n \in Nat : n = Head(toGw[s]).seq
      BY <2>3, <2>4 DEF GwApplies, GwSyncs
    <3>6. Msg("ACK", n, b) \in HubMsgs /\ Msg("ACK", n, b).body = b
      BY <3>4 DEF Msg, HubMsgs
    <3>7. toHub'[s] = Append(toHub[s], Msg("ACK", n, b))
      BY <2>4, <3>1, <3>3, <3>5 DEF GwApplies
    <3> QED
      BY <2>2, <3>4, <3>6, <3>7
  <2>5. CASE GwBalks(s)
    <3>1. PICK m : m = Msg("SNAP_REQ", 0, None)
      OBVIOUS
    <3>2. m \in HubMsgs /\ m.kind = "SNAP_REQ"
      BY <3>1 DEF Msg, HubMsgs
    <3> QED
      BY <2>2, <2>5, <3>1, <3>2 DEF GwBalks
  <2>6. CASE GwPongs(s)
    <3>1. PICK m : m = Msg("PONG", Head(toGw[s]).seq, None)
      OBVIOUS
    <3>2. m \in HubMsgs /\ m.kind = "PONG"
      BY <2>3, <2>6, <3>1 DEF Msg, HubMsgs, GwPongs, GwReceives
    <3> QED
      BY <2>2, <2>6, <3>1, <3>2 DEF GwPongs
  <2> QED
    BY <2>1, <2>4, <2>5, <2>6 DEF GwMoves, GwHung, GwGreeted
<1>5. Starts(sess[s], toHub'[s])
  BY <1>1, <1>4 DEF LinkSound, Starts
<1> QED
  BY <1>1, <1>2, <1>3, <1>4, <1>5 DEF Whole, Typed, LinkSound

(* Every step keeps every connection sound.                                *)
LEMMA LinksStay ==
  ASSUME BaseInv, SyncNext
  PROVE  Functions /\ \A s \in Conns : Whole(s)'
<1>1. ASSUME NEW s \in Conns, Quiet(s), epoch' = epoch
      PROVE  Whole(s)'
  <2>1. sess'[s] \in Sessions /\ hubOpen'[s] \in BOOLEAN
    BY <1>1, TypedIs DEF Quiet, Typed
  <2> QED
    BY <1>1, <2>1, StateWhole DEF Quiet
<1>2. CASE \E s \in Conns : Alone(s) /\ (SendKinds(s) \/ RecvKinds(s))
  <2>1. PICK s \in Conns : Alone(s) /\ (SendKinds(s) \/ RecvKinds(s))
    BY <1>2
  <2>2. Steady /\ Functions /\ \A p \in Conns \ {s} : Quiet(p)
    BY <2>1 DEF Alone
  <2>3. Whole(s)'
    BY <2>1, <2>2, SendWhole, RecvWhole
  <2>4. epoch' = epoch
    BY <2>2 DEF Steady
  <2> QED
    BY <1>1, <2>2, <2>3, <2>4
<1>3. ASSUME NEW p \in Conns, Halted(p), epoch' = epoch
      PROVE  Whole(p)'
  <2>1. \/ sess'[p] = sess[p]
        \/ /\ sess[p].st # "CLOSED" /\ sess'[p].st # "CLOSED"
           /\ Same(sess[p], sess'[p], Marked)
    BY <1>3 DEF Halted, Same, Marked, Listed, Yields, Forced, Closed
  <2> QED
    BY <1>3, <2>1, StateWhole DEF Halted
<1>4. CASE \E s \in Conns : Replaced(s)
  <2>1. PICK s \in Conns : Replaced(s)
    BY <1>4
  <2>2. epoch' = epoch /\ Functions /\ \A p \in Conns \ {s} : Halted(p)
    BY <2>1 DEF Replaced, Still
  <2>3. Whole(s)'
    <3>1. /\ sess'[s] \in Sessions /\ out'[s] = out[s] /\ Replaces(sess[s], sess'[s])
          /\ toGw'[s] = toGw[s] /\ toHub'[s] = toHub[s] /\ gwOpen'[s] = gwOpen[s]
          /\ hubOpen'[s] = hubOpen[s]
      BY <2>1 DEF Replaced, Silent
    <3>2. sess[s].st # "CLOSED" /\ hubOpen'[s] \in BOOLEAN
      BY <3>1, Awake, TypedIs DEF Replaces, Typed
    <3> QED
      BY <2>2, <3>1, <3>2, StateWhole
  <2> QED
    BY <1>3, <2>2, <2>3
<1>5. CASE HaltAll
  BY <1>3, <1>5 DEF HaltAll, Still
<1>6. CASE RouseAll
  <2>1. epoch' = epoch /\ Functions
    BY <1>6 DEF RouseAll
  <2>2. ASSUME NEW p \in Conns
        PROVE  Whole(p)'
    <3>1. Roused(p)
      BY <1>6 DEF RouseAll
    <3>2. /\ sess'[p] \in Sessions /\ out'[p] = out[p] /\ hubOpen'[p] \in BOOLEAN
          /\ toGw'[p] = toGw[p] /\ toHub'[p] = toHub[p] /\ gwOpen'[p] = gwOpen[p]
      BY <3>1, TypedIs DEF Roused, Silent, Typed
    <3>3. \/ sess'[p] = sess[p]
          \/ /\ sess[p].st # "CLOSED" /\ sess'[p].st # "CLOSED"
             /\ Same(sess[p], sess'[p], Marked)
      BY <3>1 DEF Roused, Late, Same, Fields, Marked
    <3> QED
      BY <2>1, <3>2, <3>3, StateWhole
  <2> QED
    BY <2>1, <2>2
<1>7. CASE RebootAll
  BY <1>7, RebootWhole DEF RebootAll
<1>8. ASSUME UNCHANGED <<sess, out, wires>>, epoch' = epoch
      PROVE  Functions /\ \A s \in Conns : Whole(s)'
  <2>1. Functions /\ \A p \in Conns : Quiet(p)
    BY <1>8, Kept DEF Functions, Quiet, wires
  <2> QED
    BY <1>1, <1>8, <2>1
<1>9. CASE Edited
  <2>1. UNCHANGED <<sess, out, wires>> /\ epoch' = epoch
    BY <1>9 DEF Edited, Edits
  <2> QED
    BY <1>8, <2>1
<1>10. CASE GwDies \/ GwFades
  <2>1. UNCHANGED <<sess, out, wires>> /\ epoch' = epoch
    BY <1>10 DEF GwDies, GwFades, HubStill
  <2> QED
    BY <1>8, <2>1
<1>11. CASE \E s \in Conns : Dialled(s)
  <2>1. PICK s \in Conns : Dialled(s)
    BY <1>11
  <2>2. epoch' = epoch /\ Functions /\ \A p \in Conns \ {s} : Quiet(p)
    BY <2>1 DEF Dialled
  <2> QED
    BY <1>1, <2>1, <2>2, DialWhole
<1>12. CASE \E s \in Conns : GwMoves(s)
  <2>1. PICK s \in Conns : GwMoves(s)
    BY <1>12
  <2>2. epoch' = epoch /\ Functions /\ \A p \in Conns \ {s} : Quiet(p)
    BY <2>1 DEF GwMoves, HubStill
  <2> QED
    BY <1>1, <2>1, <2>2, GwWhole
<1> QED
  BY <1>2, <1>4, <1>5, <1>6, <1>7, <1>9, <1>10, <1>11, <1>12, Kinds

(* The first message to the gateway is right.                              *)
LEMMA HeadSound ==
  ASSUME BaseInv, NEW s \in Conns, toGw[s] # <<>>
  PROVE  /\ Head(toGw[s]) \in GwMsgs /\ Head(toGw[s]).seq \in Nat
         /\ Head(toGw[s]).kind \in PushKinds =>
              SoundAt(Head(toGw[s]).body, epoch, ver, hist) /\ Head(toGw[s]).body.kind = Head(toGw[s]).kind
         /\ Head(toGw[s]).kind = "READY" => Head(toGw[s]).body \in Stamps
<1>1. toGw[s] \in Seq(GwMsgs) /\ Carries(toGw[s], epoch, ver, hist)
  BY TypedIs DEF Typed, LinkSound
<1>2. Head(toGw[s]) \in GwMsgs /\ Head(toGw[s]) = toGw[s][1] /\ 1 \in 1..Len(toGw[s])
  BY <1>1, TailIs
<1>3. Head(toGw[s]).seq \in Nat
  BY <1>2 DEF GwMsgs
<1> QED
  BY <1>1, <1>2, <1>3 DEF Carries

(* The gateway's copy is one the hub has had.                              *)
CopySound == gEpoch # 0 => Known(gEpoch, gVer, epoch, ver) /\ SameRules(gRules, hist[gEpoch][gVer])
(* The type of the copy.                                                   *)
CopyTyped == gEpoch \in Nat /\ gVer \in Nat /\ gRules \in RuleSets

(* A right push that the guard accepts leaves a right copy: a delta is     *)
(* accepted only at the version it starts from, in its epoch. A rule that  *)
(* has expired at the gateway and is not in the delta stays expired.       *)
LEMMA TakenSound ==
  ASSUME BaseInv, NEW p, SoundAt(p, epoch, ver, hist), CopyTakes(p)
  PROVE  /\ CopyTyped'
         /\ Known(gEpoch', gVer', epoch, ver) /\ SameRules(gRules', hist[gEpoch'][gVer'])
<1>1. /\ gEpoch \in Nat /\ gVer \in Nat /\ gRules \in RuleSets /\ CopySound
  BY DEF BaseInv, GwEnds, GwSound, CopySound
<1>2. /\ Known(p.epoch, p.version, epoch, ver) /\ gEpoch' = p.epoch /\ gVer' = p.version
      /\ p \in Snaps \cup Deltas
  BY DEF SoundAt, CopyTakes
<1>3. hist[p.epoch][p.version] \in RuleSets /\ gEpoch' \in Nat /\ gVer' \in Nat
  <2>1. HubTyped /\ MaxVer \in Nat /\ MaxEpoch \in Nat
    BY HubAssumption, SyncAssumption DEF BaseInv
  <2>2. p.epoch \in 1..MaxEpoch /\ p.version \in 0..MaxVer
    BY <1>2, <2>1 DEF Known, HubTyped
  <2> QED
    BY <1>2, <2>1, <2>2 DEF HubTyped, Histories
<1>4. PICK h \in RuleSets : h = hist[p.epoch][p.version]
  BY <1>3
<1>5. CASE p.kind = "SNAP"
  <2>1. gRules' = h
    BY <1>4, <1>5 DEF CopyTakes, SoundAt
  <2> QED
    BY <1>2, <1>3, <1>4, <2>1 DEF CopyTyped, SameRules
<1>6. CASE p.kind # "SNAP"
  <2>1. p.kind = "DELTA"
    BY <1>2, <1>6 DEF Snaps, Deltas
  <2>2. gEpoch = p.epoch /\ gVer = p.prev /\ gRules' = ApplyOps(gRules, p.ops)
    BY <1>6 DEF CopyTakes, Accepted, AcceptsDelta
  <2>3. gEpoch # 0
    BY <1>2, <2>2 DEF Known
  <2>4. PICK old : old = hist[gEpoch][gVer]
    OBVIOUS
  <2>5. SameRules(gRules, old) /\ ApplyOps(old, p.ops) = h
    BY <1>1, <1>4, <2>1, <2>2, <2>3, <2>4 DEF CopySound, SoundAt
  <2>6. ASSUME NEW i \in Ids
        PROVE  /\ gRules'[i] \in Rules \cup {NoRule}
               /\ gRules'[i] = h[i] \/ (gRules'[i] = NoRule /\ h[i] # NoRule /\ h[i].timed)
    <3>1. CASE \E e \in p.ops : e.id = i
      <4>1. ApplyOps(gRules, p.ops)[i] = ApplyOps(old, p.ops)[i]
        BY <3>1 DEF ApplyOps
      <4>2. h[i] \in Rules \cup {NoRule}
        BY DEF RuleSets
      <4> QED
        BY <2>2, <2>5, <4>1, <4>2
    <3>2. CASE ~\E e \in p.ops : e.id = i
      <4>1. ApplyOps(gRules, p.ops)[i] = gRules[i] /\ ApplyOps(old, p.ops)[i] = old[i]
        BY <3>2 DEF ApplyOps
      <4>2. gRules[i] \in Rules \cup {NoRule}
        BY <1>1 DEF RuleSets
      <4> QED
        BY <2>2, <2>5, <4>1, <4>2 DEF SameRules
    <3> QED
      BY <3>1, <3>2
  <2>7. gRules' = [i \in Ids |-> gRules'[i]]
    BY <2>2 DEF ApplyOps
  <2>8. gRules' \in RuleSets
    BY <2>6, <2>7 DEF RuleSets
  <2>9. SameRules(gRules', h)
    BY <2>6 DEF SameRules
  <2> QED
    BY <1>2, <1>3, <1>4, <2>8, <2>9 DEF CopyTyped
<1> QED
  BY <1>5, <1>6

(* Every step keeps the copy right.                                        *)
LEMMA CopyStays ==
  ASSUME BaseInv, SyncNext
  PROVE  CopyTyped' /\ CopySound'
<1>1. CopyTyped /\ CopySound
  BY DEF BaseInv, GwEnds, GwSound, CopySound, CopyTyped
<1>2. \A e, v : Known(e, v, epoch, ver) => Known(e, v, epoch', ver') /\ hist'[e][v] = hist[e][v]
  BY HubStays DEF BaseInv
<1>3. CASE CopySame
  BY <1>1, <1>2, <1>3 DEF CopySame, CopyTyped, CopySound
<1>4. CASE CopyLost
  <2>1. [i \in Ids |-> NoRule] \in RuleSets
    BY DEF RuleSets
  <2> QED
    BY <1>4, <2>1 DEF CopyLost, CopyTyped, CopySound
<1>5. CASE GwFades
  <2>1. PICK i \in Ids : /\ gRules[i] # NoRule /\ gRules[i].timed /\ gRules' = [gRules EXCEPT ![i] = NoRule]
                         /\ gEpoch' = gEpoch /\ gVer' = gVer
    BY <1>5 DEF GwFades
  <2>2. gRules' \in RuleSets /\ \A j \in Ids : gRules'[j] = IF j = i THEN NoRule ELSE gRules[j]
    BY <1>1, <2>1 DEF CopyTyped, RuleSets
  <2>3. ASSUME gEpoch # 0
        PROVE  SameRules(gRules', hist[gEpoch][gVer])
    BY <1>1, <2>1, <2>2, <2>3 DEF CopySound, SameRules
  <2> QED
    BY <1>1, <1>2, <2>1, <2>2, <2>3 DEF CopyTyped, CopySound
<1>6. ASSUME NEW s \in Conns, GwSyncs(s), CopyTakes(Head(toGw[s]).body)
      PROVE  CopyTyped' /\ CopySound'
  <2>1. PICK p : p = Head(toGw[s]).body
    OBVIOUS
  <2>2. SoundAt(p, epoch, ver, hist)
    BY <1>6, <2>1, HeadSound DEF GwSyncs
  <2>3. /\ CopyTyped' /\ Known(gEpoch', gVer', epoch, ver)
        /\ SameRules(gRules', hist[gEpoch'][gVer'])
    BY <1>6, <2>1, <2>2, TakenSound
  <2> QED
    BY <1>2, <2>3 DEF CopySound
<1>7. ASSUME NEW s \in Conns, GwMoves(s)
      PROVE  CopyTyped' /\ CopySound'
  BY <1>3, <1>4, <1>6, <1>7 DEF GwMoves, GwHung, GwGreeted, GwApplies, GwBalks, GwPongs
<1>8. ASSUME \/ \E s \in Conns : Alone(s) /\ (SendKinds(s) \/ RecvKinds(s))
             \/ \E s \in Conns : Replaced(s)
             \/ HaltAll \/ RouseAll \/ RebootAll \/ Edited
             \/ \E s \in Conns : Dialled(s)
      PROVE  CopySame
  BY <1>8 DEF Alone, Steady, Replaced, HaltAll, Still, RouseAll, RebootAll, Edited, guardVars,
     Dialled, CopySame
<1>9. CASE GwDies
  BY <1>4, <1>9 DEF GwDies
<1> QED
  BY <1>3, <1>5, <1>7, <1>8, <1>9, Kinds

(* The types of the client.                                                *)
GateTyped ==
  /\ conn \in Conns \cup {None} /\ client \in {"DOWN", "HELLO", "SYNC", "OPEN", "BACKOFF"}
  /\ linkEpoch \in Nat /\ badSync \in {0, 1} /\ draining \in BOOLEAN
(* The gateway has one connection at most.                                 *)
GateSound ==
  /\ \A s \in Conns : gwOpen[s] <=> conn = s
  /\ client \in {"HELLO", "SYNC", "OPEN"} <=> conn # None

(* Every step keeps that.                                                  *)
LEMMA GateStays ==
  ASSUME BaseInv, SyncNext
  PROVE  GateTyped' /\ GateSound'
<1>1. GateTyped /\ GateSound
  BY DEF BaseInv, GwEnds, GwSound, GateTyped, GateSound
<1>2. ASSUME UNCHANGED <<conn, client, linkEpoch, badSync>>, draining' \in BOOLEAN, \A p \in Conns : gwOpen'[p] = gwOpen[p]
      PROVE  GateTyped' /\ GateSound'
  BY <1>1, <1>2 DEF GateTyped, GateSound
<1>3. ASSUME NEW s \in Conns, Alone(s), SendKinds(s) \/ RecvKinds(s)
      PROVE  GateTyped' /\ GateSound'
  <2>1. UNCHANGED <<conn, client, linkEpoch, badSync, draining>> /\ \A p \in Conns \ {s} : gwOpen'[p] = gwOpen[p]
    BY <1>3 DEF Alone, Steady, Quiet
  <2>2. gwOpen'[s] = gwOpen[s]
    BY <1>3 DEF SendKinds, RecvKinds, Quits, Silent, Says, Takes
  <2> QED
    BY <1>1, <1>2, <2>1, <2>2 DEF GateTyped
<1>4. ASSUME NEW s \in Conns, Replaced(s)
      PROVE  GateTyped' /\ GateSound'
  <2>1. UNCHANGED <<conn, client, linkEpoch, badSync, draining>> /\ \A p \in Conns : gwOpen'[p] = gwOpen[p]
    BY <1>4 DEF Replaced, Still, Halted, Silent
  <2> QED
    BY <1>1, <1>2, <2>1 DEF GateTyped
<1>5. CASE HaltAll
  BY <1>2, <1>5 DEF HaltAll, Still, Halted
<1>6. CASE RouseAll
  <2>1. UNCHANGED <<conn, client, linkEpoch, badSync, draining>> /\ \A p \in Conns : gwOpen'[p] = gwOpen[p]
    BY <1>6 DEF RouseAll, Roused, Silent
  <2> QED
    BY <1>1, <1>2, <2>1 DEF GateTyped
<1>7. CASE RebootAll
  BY <1>2, <1>7 DEF RebootAll, Rebooted, Reboots
<1>8. CASE Edited
  <2>1. UNCHANGED <<conn, client, linkEpoch, badSync, draining>> /\ \A p \in Conns : gwOpen'[p] = gwOpen[p]
    BY <1>8 DEF Edited, Edits, clientVars, wires
  <2> QED
    BY <1>1, <1>2, <2>1 DEF GateTyped
<1>9. CASE GwFades
  <2>1. UNCHANGED <<conn, client, linkEpoch, badSync, draining>> /\ \A p \in Conns : gwOpen'[p] = gwOpen[p]
    BY <1>9 DEF GwFades, HubStill, clientVars, wires
  <2> QED
    BY <1>1, <1>2, <2>1 DEF GateTyped
<1>10. CASE GwDies
  BY <1>1, <1>10 DEF GwDies, HubStill, wires, GateTyped, GateSound
<1>11. ASSUME NEW s \in Conns, Dialled(s)
       PROVE  GateTyped' /\ GateSound'
  <2>1. conn = None
    BY <1>1, <1>11 DEF Dialled, GateSound
  <2>2. s # None
    BY SyncAssumption
  <2>3. \A p \in Conns : gwOpen'[p] <=> p = s
    BY <1>1, <1>11, <2>1, SyncAssumption DEF Dialled, GateSound, Quiet
  <2> QED
    BY <1>1, <1>11, <2>2, <2>3 DEF Dialled, GateTyped, GateSound
<1>12. ASSUME NEW s \in Conns, GwMoves(s)
       PROVE  GateTyped' /\ GateSound'
  <2>1. draining' = draining /\ conn = s /\ s # None /\ \A p \in Conns \ {s} : gwOpen'[p] = gwOpen[p]
    BY <1>12, SyncAssumption DEF GwMoves, HubStill, Quiet
  <2>2. CASE GwHung(s)
    <3>1. \A p \in Conns : gwOpen'[p] <=> FALSE
      BY <1>1, <2>1, <2>2 DEF GwHung, GateSound
    <3> QED
      BY <1>1, <2>1, <2>2, <3>1, SyncAssumption DEF GwHung, GateTyped, GateSound
  <2>3. CASE GwGreeted(s) \/ GwApplies(s) \/ GwBalks(s) \/ GwPongs(s)
    <3>1. /\ conn' = conn /\ gwOpen'[s] = gwOpen[s] /\ badSync' \in {0, 1, badSync}
          /\ client' \in {"SYNC", "OPEN"}
      BY <2>3 DEF GwGreeted, GwApplies, GwBalks, GwPongs, GwReceives
    <3>2. linkEpoch' \in Nat
      <4>1. CASE GwGreeted(s)
        BY <4>1, HeadSound DEF GwGreeted, GwReceives, Stamps
      <4>2. CASE GwApplies(s) \/ GwBalks(s) \/ GwPongs(s)
        BY <1>1, <4>2 DEF GwApplies, GwBalks, GwPongs, GateTyped
      <4> QED
        BY <2>3, <4>1, <4>2
    <3> QED
      BY <1>1, <2>1, <3>1, <3>2 DEF GateTyped, GateSound
  <2> QED
    BY <1>12, <2>2, <2>3 DEF GwMoves
<1> QED
  BY <1>3, <1>4, <1>5, <1>6, <1>7, <1>8, <1>9, <1>10, <1>11, <1>12, Kinds

(* BaseInv is kept by every step.                                          *)
LEMMA BaseStays ==
  ASSUME BaseInv, SyncNext
  PROVE  BaseInv'
<1>1. HubTyped' /\ LogSound'
  BY HubStays, LogStays DEF BaseInv
<1>2. Functions /\ \A s \in Conns : Typed(s)' /\ LinkSound(s)'
  BY LinksStay DEF Whole
<1>3. CopyTyped' /\ CopySound' /\ GateTyped' /\ GateSound'
  BY CopyStays, GateStays
<1>4. HubEnds'
  BY <1>2 DEF Functions, Typed, HubEnds
<1>5. GwEnds'
  <2>1. gwOpen' \in [Conns -> BOOLEAN] /\ toHub' \in [Conns -> Seq(HubMsgs)]
    BY <1>2 DEF Functions, Typed
  <2> QED
    BY <1>3, <2>1 DEF GwEnds, CopyTyped, GateTyped
<1>6. GwSound'
  BY <1>3 DEF GwSound, CopySound, GateSound
<1> QED
  BY <1>1, <1>2, <1>4, <1>5, <1>6 DEF BaseInv

(* It holds at the start.                                                  *)
LEMMA BaseStarts ==
  ASSUME SyncInit
  PROVE  BaseInv
<1>1. HubTyped /\ LogSound
  BY HubStarts
<1>2. /\ sess = [s \in Conns |-> ClosedSession] /\ out = [s \in Conns |-> None]
      /\ toGw = [s \in Conns |-> << >>] /\ toHub = [s \in Conns |-> << >>]
      /\ gwOpen = [s \in Conns |-> FALSE] /\ hubOpen = [s \in Conns |-> FALSE]
      /\ conn = None /\ client = "DOWN" /\ linkEpoch = 0 /\ badSync = 0 /\ draining = FALSE
      /\ gEpoch = 0 /\ gVer = 0 /\ gRules = [i \in Ids |-> NoRule]
  BY DEF SyncInit
<1>3. ver \in Nat /\ None \notin Conns
  BY <1>1, HubAssumption, SyncAssumption DEF HubTyped
<1>4. ClosedSession \in Sessions /\ ClosedSession.send = "done" /\ ClosedSession.recv = "done"
      /\ Within(ClosedSession, ver)
  BY <1>3, NewTyped DEF ClosedSession, NewSession, States, Within
<1>5. None \in Outs /\ <<>> \in Seq(HubMsgs) /\ <<>> \in Seq(GwMsgs) /\ Stamped(<<>>)
      /\ Carries(<<>>, epoch, ver, hist)
  BY DEF Outs, Stamped, Carries
<1>6. HubEnds
  BY <1>2, <1>4, <1>5 DEF HubEnds
<1>7. GwEnds
  BY <1>2, <1>5 DEF GwEnds, RuleSets
<1>8. ASSUME NEW s \in Conns
      PROVE  LinkSound(s)
  <2>1. sess[s] = ClosedSession /\ out[s] = None /\ toGw[s] = <<>> /\ toHub[s] = <<>>
    BY <1>2
  <2> QED
    BY <1>4, <1>5, <2>1 DEF LinkSound, Planned, Starts
<1>9. GwSound
  BY <1>2, <1>3 DEF GwSound
<1> QED
  BY <1>1, <1>6, <1>7, <1>8, <1>9 DEF BaseInv

(* It is kept where nothing changes.                                       *)
LEMMA BaseRests ==
  ASSUME BaseInv, UNCHANGED vars
  PROVE  BaseInv'
<1>1. /\ epoch' = epoch /\ ver' = ver /\ announced' = announced /\ rules' = rules /\ log' = log
      /\ hist' = hist /\ sess' = sess /\ out' = out /\ hubOpen' = hubOpen /\ toGw' = toGw
      /\ gwOpen' = gwOpen /\ toHub' = toHub /\ conn' = conn /\ client' = client
      /\ linkEpoch' = linkEpoch /\ badSync' = badSync /\ gEpoch' = gEpoch /\ gVer' = gVer
      /\ gRules' = gRules /\ draining' = draining
  BY DEF vars, hubSide, hubVars, wires, clientVars, guardVars
<1>2. HubTyped' /\ LogSound'
  BY <1>1 DEF BaseInv, HubTyped, LogSound
<1>3. HubEnds' /\ GwEnds'
  BY <1>1 DEF BaseInv, HubEnds, GwEnds
<1>4. ASSUME NEW s \in Conns
      PROVE  LinkSound(s)'
  <2>1. LinkSound(s)
    BY DEF BaseInv
  <2> QED
    BY <1>1, <2>1 DEF LinkSound
<1>5. GwSound'
  BY <1>1 DEF BaseInv, GwSound
<1> QED
  BY <1>2, <1>3, <1>4, <1>5 DEF BaseInv

(* BaseInv always holds.                                                   *)
LEMMA BaseInductive == SyncSpec => []BaseInv
<1>1. BaseInv /\ [SyncNext]_vars => BaseInv'
  BY BaseRests, BaseStays
<1> QED
  BY <1>1, BaseStarts, PTL DEF SyncSpec

(* For every number of connections, ids, versions, epochs and faults,      *)
(* through lost links, replays, overflown logs and restarts of either      *)
(* side: the gateway's copy, which pull.cpp and guard.cpp change push by   *)
(* push, is never torn.                                                    *)
THEOREM CopiesAreNotTorn == SyncSpec => []NotTorn
<1>1. BaseInv => NotTorn
  BY DEF BaseInv, GwSound, NotTorn
<1> QED
  BY <1>1, BaseInductive, PTL

----------------------------------------------------------------------------
(* Neither the client's link nor its copy changes.                         *)
LinkKept == UNCHANGED <<client, linkEpoch, gEpoch, gVer>>
(* The step is somebody else's.                                            *)
Idles(p) == Steady /\ Quiet(p)
(* Connection p as the daemon stops, or as another session replaces it.    *)
Halts(p) == Still /\ (draining => draining') /\ Halted(p)
(* Connection p as the broadcaster announces.                              *)
Hurries(p) ==
  /\ UNCHANGED <<epoch, ver, draining>> /\ LinkKept /\ announced' = ver /\ Roused(p)
(* Connection p as the hub restarts.                                       *)
Reboot(p) == epoch' = epoch + 1 /\ LinkKept /\ Rebooted(p)
(* Connection p as the rules are edited.                                   *)
Drifts(p) ==
  /\ UNCHANGED <<epoch, announced, draining>> /\ LinkKept /\ Quiet(p) /\ ver' >= ver /\ ver' \in Nat
(* Connection p, on which the gateway is not, as the gateway moves.        *)
Apart(p) ==
  /\ ~gwOpen[p] /\ ~gwOpen'[p] /\ UNCHANGED <<epoch, ver, announced, draining>>
  /\ sess'[p] = sess[p] /\ out'[p] = out[p] /\ hubOpen'[p] = hubOpen[p] /\ toHub'[p] = toHub[p]
(* Connection p as the client moves on it.                                 *)
Client(p) ==
  /\ HubStill /\ sess'[p] = sess[p] /\ out'[p] = out[p] /\ hubOpen'[p] = hubOpen[p]
  /\ GwHung(p) \/ GwGreeted(p) \/ GwApplies(p) \/ GwBalks(p) \/ GwPongs(p)

(* A step as connection p sees it.                                         *)
View(p) ==
  \/ Idles(p) \/ (Steady /\ SendKinds(p)) \/ (Steady /\ RecvKinds(p)) \/ Halts(p) \/ Replaced(p)
  \/ Hurries(p) \/ Reboot(p) \/ Drifts(p) \/ Apart(p) \/ Client(p) \/ Dialled(p)

(* Every step is one of these to every connection.                         *)
LEMMA Views ==
  ASSUME BaseInv, SyncNext, NEW p \in Conns
  PROVE  View(p)
<1>0. GwSound /\ GwEnds /\ None \notin Conns /\ ver \in Nat
  BY SyncAssumption, TypedIs DEF BaseInv
<1>1. CASE \E s \in Conns : Alone(s) /\ (SendKinds(s) \/ RecvKinds(s))
  BY <1>1 DEF Alone, View, Idles
<1>2. CASE \E s \in Conns : Replaced(s)
  <2>1. PICK s \in Conns : Replaced(s)
    BY <1>2
  <2>2. CASE p = s
    BY <2>1, <2>2 DEF View
  <2>3. CASE p # s
    BY <2>1, <2>3 DEF Replaced, View, Halts
  <2> QED
    BY <2>2, <2>3
<1>3. CASE HaltAll
  BY <1>3 DEF HaltAll, View, Halts
<1>4. CASE RouseAll
  BY <1>4 DEF RouseAll, View, Hurries, LinkKept
<1>5. CASE RebootAll
  BY <1>5 DEF RebootAll, Reboots, View, Reboot, LinkKept
<1>6. CASE Edited
  <2>1. epoch' = epoch /\ ver' = ver + 1 /\ announced' = announced /\ draining' = draining
    BY <1>6 DEF Edited, Edits
  <2>2. LinkKept /\ Quiet(p)
    BY <1>6 DEF Edited, wires, clientVars, guardVars, LinkKept, Quiet
  <2> QED
    BY <1>0, <2>1, <2>2 DEF View, Drifts
<1>7. CASE \E s \in Conns : Dialled(s)
  <2>1. PICK s \in Conns : Dialled(s)
    BY <1>7
  <2>2. CASE p = s
    BY <2>1, <2>2 DEF View
  <2>3. CASE p # s
    <3>1. conn # p
      BY <1>0, <2>1 DEF Dialled, GwSound
    <3>2. Quiet(p) /\ UNCHANGED <<epoch, ver, announced, draining>>
      BY <2>1, <2>3 DEF Dialled
    <3> QED
      BY <1>0, <3>1, <3>2 DEF GwSound, Quiet, View, Apart
  <2> QED
    BY <2>2, <2>3
<1>8. CASE \E s \in Conns : GwMoves(s)
  <2>1. PICK s \in Conns : GwMoves(s)
    BY <1>8
  <2>2. sess'[p] = sess[p] /\ out'[p] = out[p] /\ hubOpen'[p] = hubOpen[p] /\ HubStill
    BY <2>1 DEF GwMoves, HubStill
  <2>3. CASE p = s
    BY <2>1, <2>2, <2>3 DEF GwMoves, View, Client
  <2>4. CASE p # s
    <3>1. ~gwOpen[p] /\ Quiet(p)
      BY <1>0, <2>1, <2>4 DEF GwMoves, GwSound
    <3> QED
      BY <2>2, <3>1 DEF Quiet, View, Apart, HubStill
  <2> QED
    BY <2>3, <2>4
<1>9. CASE GwDies
  <2>1. ~gwOpen[p]
    BY <1>0, <1>9 DEF GwDies, GwSound
  <2> QED
    BY <1>9, <2>1 DEF GwDies, HubStill, wires, View, Apart
<1>10. CASE GwFades
  BY <1>0, <1>10 DEF GwFades, HubStill, wires, clientVars, View, Drifts, LinkKept, Quiet
<1> QED
  BY <1>1, <1>2, <1>3, <1>4, <1>5, <1>6, <1>7, <1>8, <1>9, <1>10, Kinds

----------------------------------------------------------------------------
(* The hello is not handled yet.                                           *)
Opening(x) == x.recv \in {"hello", "bind"}
(* No READY is due before the hello is handled.                            *)
Unready(x) == Opening(x) => ~x.ready /\ x.send \notin {"ready", "readied"}
(* Until then the client waits in HELLO, the hello tells what it has, and  *)
(* no READY is on the way.                                                 *)
Greeting(x, g, h, cl, ge, gv) ==
  Opening(x) =>
    /\ cl = "HELLO" /\ Head(h).body = [epoch |-> ge, version |-> gv]
    /\ \A n \in 1..Len(g) : g[n].kind # "READY"
(* A READY on the way is of this epoch; so is the link of a client that    *)
(* has read it.                                                            *)
Readies(x, g, cl, le, ep) ==
  x.st # "CLOSED" =>
    /\ \A n \in 1..Len(g) : g[n].kind = "READY" => g[n].body.epoch = ep
    /\ cl # "HELLO" => le = ep
(* An ACK on the way is of the link's epoch and of a version the gateway   *)
(* has.                                                                    *)
Acking(h, cl, le, ge, gv) ==
  \A n \in 1..Len(h) : h[n].kind = "ACK" =>
    /\ cl # "HELLO" /\ h[n].body.epoch = le /\ ge = le
    /\ h[n].body.version <= gv
(* What is acknowledged, the gateway has.                                  *)
Acked(x, ge, gv, ep) == x.acked > 0 => ge = ep /\ gv >= x.acked

(* All that of connection p, while the gateway is on it.                   *)
AckView(p) ==
  /\ Unready(sess[p])
  /\ gwOpen[p] =>
       /\ Greeting(sess[p], toGw[p], toHub[p], client, gEpoch, gVer)
       /\ Readies(sess[p], toGw[p], client, linkEpoch, epoch)
       /\ Acking(toHub[p], client, linkEpoch, gEpoch, gVer)
       /\ Acked(sess[p], gEpoch, gVer, epoch)
(* The inductive invariant behind AckedIsApplied.                          *)
AckSound == \A p \in Conns : AckView(p)

(* At most one message is added; a READY only after the hello, and of this *)
(* epoch.                                                                  *)
Adds(s) ==
  \/ toGw'[s] = toGw[s]
  \/ \E m \in GwMsgs : /\ toGw'[s] = Append(toGw[s], m)
                       /\ m.kind = "READY" => ~Opening(sess[s]) /\ m.body.epoch = epoch

(* What a loop that ends does to the marks AckView is about.               *)
LEMMA StopsBriefly ==
  ASSUME NEW x \in Sessions, NEW y \in Sessions, Stops(x, y), Unready(x)
  PROVE  Unready(y) /\ (Opening(y) => Opening(x)) /\ y.acked \in {x.acked, 0}
<1>1. ~Opening(ClosedSession) /\ ClosedSession.acked = 0
  BY DEF Opening, ClosedSession, NewSession
<1>2. CASE y = ClosedSession
  BY <1>1, <1>2 DEF Unready
<1>3. CASE y # ClosedSession
  <2>1. /\ y.send \in {"done", x.send} /\ y.recv \in {x.recv, "done"} /\ (y.ready => x.ready)
        /\ y.acked = x.acked
    BY <1>3 DEF Stops, Same, Fields
  <2> QED
    BY <2>1 DEF Unready, Opening
<1> QED
  BY <1>2, <1>3

(* What the sending loop does to them.                                     *)
LEMMA SendBriefly ==
  ASSUME BaseInv, NEW s \in Conns, SendKinds(s), Unready(sess[s])
  PROVE  /\ Unready(sess'[s])
         /\ Opening(sess'[s]) => Opening(sess[s])
         /\ sess'[s].acked \in {sess[s].acked, 0} /\ sess[s].st # "CLOSED"
         /\ Adds(s) /\ toHub'[s] = toHub[s] /\ gwOpen'[s] = gwOpen[s]
<1>0. PICK x \in Sessions, y \in Sessions : x = sess[s] /\ y = sess'[s]
  BY TypedIs DEF SendKinds, Typed
<1>1. LinkSound(s) /\ epoch \in Nat /\ ver \in Nat /\ x.nextSeq \in Nat /\ out[s] \in Outs
  BY <1>0, TypedIs DEF Sessions, Typed
<1>2. x.send # "done" => x.st # "CLOSED"
  BY <1>0, Awake
<1>3. ASSUME Same(x, y, Fields \ {"recv", "acked", "ready"}), y.send \notin {"ready", "readied"} \/ ~Opening(x)
      PROVE  Unready(y) /\ (Opening(y) => Opening(x)) /\ y.acked = x.acked
  <2>1. y.recv = x.recv /\ y.acked = x.acked /\ y.ready = x.ready
    BY <1>3 DEF Same, Fields
  <2> QED
    BY <1>0, <1>3, <2>1 DEF Unready, Opening
<1>4. CASE Quits(s)
  <2>1. /\ Stops(x, y) /\ x.st # "CLOSED" /\ toHub'[s] = toHub[s] /\ gwOpen'[s] = gwOpen[s]
        /\ \/ toGw'[s] = toGw[s]
           \/ \E k \in {"ERR", "BYE"} : toGw'[s] = Append(toGw[s], Msg(k, 0, None))
    BY <1>0, <1>4 DEF Quits
  <2>2. \A k \in {"ERR", "BYE"} : Msg(k, 0, None) \in GwMsgs /\ Msg(k, 0, None).kind = k
    BY DEF Msg, GwMsgs
  <2>3. Adds(s)
    BY <2>1, <2>2 DEF Adds
  <2> QED
    BY <1>0, <2>1, <2>3, StopsBriefly
<1>5. ASSUME Silent(s)
      PROVE  Adds(s) /\ toHub'[s] = toHub[s] /\ gwOpen'[s] = gwOpen[s]
  BY <1>5 DEF Silent, Adds
<1>6. CASE Silent(s) /\ (Wakes(x, y) \/ Decides(x, y) \/ Waits(x, y) \/ Begins(x, y, out'[s]))
  <2>1. Same(x, y, Fields \ {"recv", "acked", "ready"}) /\ x.send # "done"
    BY <1>6 DEF Wakes, Decides, Waits, Begins, Same, Fields
  <2>2. y.send \notin {"ready", "readied"} \/ ~Opening(x)
    BY <1>0, <1>6 DEF Wakes, Decides, Waits, Begins, Unready, Opening
  <2> QED
    BY <1>0, <1>2, <1>3, <1>5, <1>6, <2>1, <2>2
<1>7. CASE /\ Silent(s)
           /\ \/ Agrees(x, y, out[s], ver) \/ Fetches(x, y) \/ Marks(x, y, out[s])
              \/ Settles(x, y, out[s]) \/ Passes(x, y)
  <2>1. Same(x, y, Fields \ {"recv", "acked", "ready"}) /\ x.send # "done"
    BY <1>7 DEF Agrees, Fetches, Marks, Settles, Passes, Same, Fields
  <2>2. y.send \notin {"ready", "readied"} \/ ~Opening(x)
    BY <1>7 DEF Agrees, Fetches, Marks, Settles, Passes
  <2> QED
    BY <1>0, <1>2, <1>3, <1>5, <1>7, <2>1, <2>2
<1>8. CASE /\ Greets(x, y)
           /\ Says(s, Msg("READY", 1, [epoch |-> epoch, version |-> sess[s].target]))
  <2>1. PICK b \in Stamps : b = [epoch |-> epoch, version |-> x.target]
    BY <1>1 DEF Stamps, Sessions
  <2>m. PICK m : m = Msg("READY", 1, b)
    OBVIOUS
  <2>2. m \in GwMsgs /\ m = Msg("READY", 1, b) /\ m.body = b
    BY <2>m DEF Msg, GwMsgs
  <2>3. toGw'[s] = Append(toGw[s], m) /\ toHub'[s] = toHub[s] /\ gwOpen'[s] = gwOpen[s]
    BY <1>0, <1>8, <2>1, <2>2 DEF Says
  <2>4. x.send = "ready" /\ ~y.ready /\ y.recv = x.recv /\ y.acked = x.acked
    BY <1>8 DEF Greets, Same, Fields
  <2>5. ~Opening(x)
    BY <1>0, <2>4 DEF Unready
  <2>6. ~Opening(y)
    BY <2>4, <2>5 DEF Opening
  <2>7. Adds(s)
    BY <1>0, <2>1, <2>2, <2>3, <2>5 DEF Adds
  <2> QED
    BY <1>0, <1>2, <2>3, <2>4, <2>6, <2>7 DEF Unready
<1>9. CASE /\ Emits(x, y)
           /\ Says(s, Msg(out[s].kind, sess[s].nextSeq - 1, out[s]))
  <2>1. out[s] \in Snaps \cup Deltas /\ x.send = "emit"
    BY <1>0, <1>1, <1>9 DEF Emits, LinkSound, Planned, SoundAt
  <2>2. out[s].kind \in PushKinds
    BY <2>1 DEF Snaps, Deltas, PushKinds
  <2>n. PICK n \in Nat : n = x.nextSeq - 1
    BY DEF Sessions
  <2>3. PICK m : m = Msg(out[s].kind, n, out[s])
    OBVIOUS
  <2>4. m \in GwMsgs /\ m.kind \in PushKinds
    BY <1>1, <2>1, <2>2, <2>3 DEF Msg, GwMsgs
  <2>5. toGw'[s] = Append(toGw[s], m) /\ toHub'[s] = toHub[s] /\ gwOpen'[s] = gwOpen[s]
    BY <1>0, <1>9, <2>n, <2>3 DEF Says
  <2>6. Adds(s)
    BY <2>4, <2>5 DEF Adds, PushKinds
  <2>7. Same(x, y, Fields \ {"recv", "acked", "ready"}) /\ y.send = "sent"
    BY <1>9 DEF Emits, Same, Fields
  <2> QED
    BY <1>0, <1>2, <1>3, <2>1, <2>5, <2>6, <2>7
<1>10. CASE /\ Pings(x, y)
            /\ Says(s, Msg("PING", sess[s].nextSeq, None))
  <2>m. PICK m : m = Msg("PING", x.nextSeq, None)
    OBVIOUS
  <2>1. m \in GwMsgs /\ m = Msg("PING", x.nextSeq, None) /\ m.kind = "PING"
    BY <1>1, <2>m DEF Msg, GwMsgs
  <2>2. toGw'[s] = Append(toGw[s], m) /\ toHub'[s] = toHub[s] /\ gwOpen'[s] = gwOpen[s]
    BY <1>0, <1>10, <2>1 DEF Says
  <2>3. Adds(s)
    BY <2>1, <2>2 DEF Adds
  <2>4. Same(x, y, Fields \ {"recv", "acked", "ready"}) /\ y.send = "bye" /\ x.send = "ping"
    BY <1>10 DEF Pings, Same, Fields
  <2> QED
    BY <1>0, <1>2, <1>3, <2>2, <2>3, <2>4
<1> QED
  BY <1>0, <1>4, <1>6, <1>7, <1>8, <1>9, <1>10 DEF SendKinds

(* What the receiving loop does to them: acked is set from the hello of a  *)
(* gateway of this epoch, or from an ACK.                                  *)
LEMMA RecvBriefly ==
  ASSUME BaseInv, NEW s \in Conns, RecvKinds(s), Unready(sess[s])
  PROVE  /\ Unready(sess'[s]) /\ sess[s].st # "CLOSED"
         /\ toGw'[s] = toGw[s] /\ gwOpen'[s] = gwOpen[s]
         /\ \/ /\ toHub'[s] = toHub[s] /\ (Opening(sess'[s]) => Opening(sess[s]))
               /\ sess'[s].acked \in {sess[s].acked, 0}
            \/ /\ Takes(s) /\ ~Opening(sess'[s])
               /\ \/ sess'[s].acked = sess[s].acked
                  \/ /\ sess[s].recv = "bind" /\ Head(toHub[s]).body.epoch = epoch
                     /\ sess'[s].acked = Head(toHub[s]).body.version
                  \/ /\ Head(toHub[s]).kind = "ACK" /\ Head(toHub[s]).body.epoch = epoch
                     /\ sess'[s].acked = Head(toHub[s]).body.version
<1>0. PICK x \in Sessions, y \in Sessions : x = sess[s] /\ y = sess'[s] /\ x.st # "CLOSED"
  BY TypedIs DEF RecvKinds, Typed
<1>1. CASE Quits(s) /\ toGw'[s] = toGw[s]
  <2>1. Stops(x, y) /\ toHub'[s] = toHub[s] /\ gwOpen'[s] = gwOpen[s]
    BY <1>0, <1>1 DEF Quits
  <2> QED
    BY <1>0, <1>1, <2>1, StopsBriefly
<1>2. CASE Silent(s) /\ Hears(x, y, ver)
  <2>1. Opening(x) /\ y.acked = x.acked /\ y.ready = x.ready /\ y.send = x.send
    BY <1>2 DEF Hears, Same, Fields, Opening
  <2> QED
    BY <1>0, <1>2, <2>1 DEF Silent, Unready
<1>3. CASE Takes(s) /\ Binds(x, y, Head(toHub[s]).body, epoch)
  <2>1. PICK b : b = Head(toHub[s]).body
    OBVIOUS
  <2>2. /\ x.recv = "bind" /\ y.recv = "replace"
        /\ y.acked = x.acked \/ (b.epoch = epoch /\ y.acked = b.version)
    BY <1>3, <2>1 DEF Binds
  <2>3. ~Opening(y)
    BY <2>2 DEF Opening
  <2> QED
    BY <1>0, <1>3, <2>1, <2>2, <2>3 DEF Takes, Unready
<1>4. CASE /\ Takes(s) /\ x.recv = "loop"
           /\ Acks(x, y, Head(toHub[s]), epoch)
  <2>1. PICK m : m = Head(toHub[s])
    OBVIOUS
  <2>2. m.kind = "ACK" /\ m.body.epoch = epoch /\ y.acked = m.body.version /\ y.recv = x.recv
    BY <1>4, <2>1 DEF Acks, Same, Fields
  <2>3. ~Opening(y)
    BY <1>4, <2>2 DEF Opening
  <2> QED
    BY <1>0, <1>4, <2>1, <2>2, <2>3 DEF Takes, Unready
<1>5. CASE /\ Takes(s) /\ x.recv = "loop"
           /\ Asks(x, y, Head(toHub[s])) \/ Pongs(x, y, Head(toHub[s])) \/ Refuses(x, y)
  <2>1. y.acked = x.acked /\ y.recv = x.recv
    BY <1>5 DEF Asks, Pongs, Refuses, Same, Fields
  <2>2. ~Opening(y)
    BY <1>5, <2>1 DEF Opening
  <2> QED
    BY <1>0, <1>5, <2>1, <2>2 DEF Takes, Unready
<1>6. CASE Silent(s) /\ (Refuses(x, y) \/ Nudges(x, y) \/ Falters(x, y) \/ Serves(x, y))
  <2>1. y.acked = x.acked /\ y.recv \in {"loop", "fail"}
    BY <1>6 DEF Nudges, Refuses, Falters, Serves, Same, Fields
  <2>2. ~Opening(y)
    BY <1>6, <2>1 DEF Opening
  <2> QED
    BY <1>0, <1>6, <2>1, <2>2 DEF Silent, Unready
<1>7. CASE /\ Leaves(x, y)
           /\ toGw'[s] = toGw[s] /\ toHub'[s] = toHub[s] /\ gwOpen'[s] = gwOpen[s]
  <2>1. y.acked \in {x.acked, 0} /\ y.recv = "done"
    BY <1>7 DEF Leaves, Same, Fields, ClosedSession, NewSession
  <2>2. ~Opening(y)
    BY <2>1 DEF Opening
  <2> QED
    BY <1>0, <1>7, <2>1, <2>2 DEF Unready
<1> QED
  BY <1>0, <1>1, <1>2, <1>3, <1>4, <1>5, <1>6, <1>7 DEF RecvKinds

(* The sending loop keeps AckView.                                         *)
LEMMA SendAck ==
  ASSUME BaseInv, NEW p \in Conns, AckView(p), Steady, SendKinds(p)
  PROVE  AckView(p)'
<1>0. PICK y : y = sess'[p]
  OBVIOUS
<1>1. PICK x \in Sessions : x = sess[p] /\ y = sess'[p]
  BY <1>0, TypedIs DEF Typed
<1>f. PICK f : f = toGw'[p]
  OBVIOUS
<1>2. PICK g \in Seq(GwMsgs) : g = toGw[p] /\ f = toGw'[p]
  BY <1>f, TypedIs DEF Typed
<1>3. /\ Unready(y) /\ (Opening(y) => Opening(x)) /\ y.acked \in {x.acked, 0} /\ x.st # "CLOSED"
      /\ toHub'[p] = toHub[p] /\ gwOpen'[p] = gwOpen[p]
      /\ \/ f = g
         \/ \E m \in GwMsgs : f = Append(g, m) /\ (m.kind = "READY" => ~Opening(x) /\ m.body.epoch = epoch)
  BY <1>1, <1>2, SendBriefly DEF AckView, Adds
<1>4. /\ epoch' = epoch /\ client' = client /\ linkEpoch' = linkEpoch /\ gEpoch' = gEpoch
      /\ gVer' = gVer
  BY DEF Steady
<1>5. ASSUME gwOpen[p]
      PROVE  /\ Greeting(y, f, toHub[p], client, gEpoch, gVer)
             /\ Readies(y, f, client, linkEpoch, epoch)
             /\ Acking(toHub[p], client, linkEpoch, gEpoch, gVer)
             /\ Acked(y, gEpoch, gVer, epoch)
  <2>1. /\ Greeting(x, g, toHub[p], client, gEpoch, gVer) /\ Readies(x, g, client, linkEpoch, epoch)
        /\ Acking(toHub[p], client, linkEpoch, gEpoch, gVer) /\ Acked(x, gEpoch, gVer, epoch)
    BY <1>1, <1>2, <1>5 DEF AckView
  <2>2. Greeting(y, f, toHub[p], client, gEpoch, gVer)
    BY <1>3, <2>1, AppendIs DEF Greeting
  <2>3. Readies(y, f, client, linkEpoch, epoch)
    BY <1>3, <2>1, AppendIs DEF Readies
  <2>4. Acked(y, gEpoch, gVer, epoch)
    BY <1>3, <2>1 DEF Acked
  <2> QED
    BY <2>1, <2>2, <2>3, <2>4
<1> QED
  BY <1>1, <1>2, <1>3, <1>4, <1>5 DEF AckView

(* The receiving loop keeps AckView: what it takes for acknowledged is in  *)
(* the message.                                                            *)
LEMMA RecvAck ==
  ASSUME BaseInv, NEW p \in Conns, AckView(p), Steady, RecvKinds(p)
  PROVE  AckView(p)'
<1>0. PICK y : y = sess'[p]
  OBVIOUS
<1>1. PICK x \in Sessions : x = sess[p] /\ y = sess'[p]
  BY <1>0, TypedIs DEF Typed
<1>k. PICK k : k = toHub'[p]
  OBVIOUS
<1>2. PICK h \in Seq(HubMsgs) : h = toHub[p] /\ k = toHub'[p]
  BY <1>k, TypedIs DEF Typed
<1>3. /\ Unready(y) /\ x.st # "CLOSED" /\ toGw'[p] = toGw[p] /\ gwOpen'[p] = gwOpen[p]
      /\ \/ k = h /\ (Opening(y) => Opening(x)) /\ y.acked \in {x.acked, 0}
         \/ /\ h # <<>> /\ k = Tail(h) /\ ~Opening(y)
            /\ \/ y.acked = x.acked
               \/ x.recv = "bind" /\ Head(h).body.epoch = epoch /\ y.acked = Head(h).body.version
               \/ Head(h).kind = "ACK" /\ Head(h).body.epoch = epoch /\ y.acked = Head(h).body.version
  BY <1>1, <1>2, RecvBriefly DEF AckView, Takes
<1>4. /\ epoch' = epoch /\ client' = client /\ linkEpoch' = linkEpoch /\ gEpoch' = gEpoch
      /\ gVer' = gVer
  BY DEF Steady
<1>5. gVer \in Nat
  BY DEF BaseInv, GwEnds
<1>6. ASSUME gwOpen[p]
      PROVE  /\ Greeting(y, toGw[p], k, client, gEpoch, gVer)
             /\ Readies(y, toGw[p], client, linkEpoch, epoch)
             /\ Acking(k, client, linkEpoch, gEpoch, gVer)
             /\ Acked(y, gEpoch, gVer, epoch)
  <2>1. /\ Greeting(x, toGw[p], h, client, gEpoch, gVer)
        /\ Readies(x, toGw[p], client, linkEpoch, epoch)
        /\ Acking(h, client, linkEpoch, gEpoch, gVer) /\ Acked(x, gEpoch, gVer, epoch)
    BY <1>1, <1>2, <1>6 DEF AckView
  <2>2. Greeting(y, toGw[p], k, client, gEpoch, gVer)
    BY <1>3, <2>1 DEF Greeting
  <2>3. Readies(y, toGw[p], client, linkEpoch, epoch)
    BY <1>3, <2>1 DEF Readies
  <2>4. Acking(k, client, linkEpoch, gEpoch, gVer)
    <3>1. CASE k = h
      BY <2>1, <3>1
    <3>2. CASE h # <<>> /\ k = Tail(h)
      <4>1. \A n \in 1..Len(k) : n + 1 \in 1..Len(h) /\ k[n] = h[n + 1]
        BY <3>2, TailIs
      <4> QED
        BY <2>1, <4>1 DEF Acking
    <3> QED
      BY <1>3, <3>1, <3>2
  <2>5. CASE y.acked \in {x.acked, 0}
    BY <2>1, <2>2, <2>3, <2>4, <2>5 DEF Acked
  <2>6. CASE x.recv = "bind" /\ Head(h).body.epoch = epoch /\ y.acked = Head(h).body.version
    <3>1. Head(h).body = [epoch |-> gEpoch, version |-> gVer]
      BY <2>1, <2>6 DEF Greeting, Opening
    <3>2. gEpoch = epoch /\ y.acked = gVer
      BY <2>6, <3>1
    <3> QED
      BY <1>5, <2>2, <2>3, <2>4, <3>2 DEF Acked
  <2>7. CASE h # <<>> /\ Head(h).kind = "ACK" /\ Head(h).body.epoch = epoch /\ y.acked = Head(h).body.version
    <3>1. Head(h) = h[1] /\ 1 \in 1..Len(h)
      BY <2>7, TailIs
    <3>2. gEpoch = linkEpoch /\ h[1].body.epoch = linkEpoch /\ h[1].body.version <= gVer
      BY <2>1, <2>7, <3>1 DEF Acking
    <3>3. y.acked <= gVer /\ gEpoch = epoch
      BY <2>7, <3>1, <3>2
    <3>4. y.acked \in Nat
      BY <1>1, TypedIs DEF RecvKinds, Sessions
    <3> QED
      BY <1>5, <2>2, <2>3, <2>4, <3>3, <3>4 DEF Acked
  <2> QED
    BY <1>3, <2>5, <2>6, <2>7
<1> QED
  BY <1>1, <1>2, <1>3, <1>4, <1>6 DEF AckView

(* So do the daemon, the broadcaster and another session.                  *)
LEMMA HubAck ==
  ASSUME BaseInv, NEW p \in Conns, AckView(p), epoch' = epoch, LinkKept,
         toGw'[p] = toGw[p], toHub'[p] = toHub[p], gwOpen'[p] = gwOpen[p],
         \/ sess'[p] = sess[p]
         \/ sess[p].st # "CLOSED" /\ sess'[p].recv \in {sess[p].recv, "replacing"}
            /\ Same(sess[p], sess'[p], Marked \cup {"recv"})
  PROVE  AckView(p)'
<1>1. PICK x, y : x = sess[p] /\ y = sess'[p]
  OBVIOUS
<1>2. /\ y.acked = x.acked /\ y.ready = x.ready /\ y.send = x.send /\ y.recv \in {x.recv, "replacing"}
      /\ y.st # "CLOSED" => x.st # "CLOSED"
  BY <1>1 DEF Same, Fields, Marked
<1>3. client' = client /\ linkEpoch' = linkEpoch /\ gEpoch' = gEpoch /\ gVer' = gVer
  BY DEF LinkKept
<1>4. Unready(x) => Unready(y)
  BY <1>2 DEF Unready, Opening
<1>5. PICK g, h : g = toGw[p] /\ h = toHub[p]
  OBVIOUS
<1>6. Greeting(x, g, h, client, gEpoch, gVer) => Greeting(y, g, h, client, gEpoch, gVer)
  BY <1>2 DEF Greeting, Opening
<1>7. Readies(x, g, client, linkEpoch, epoch) => Readies(y, g, client, linkEpoch, epoch)
  BY <1>2 DEF Readies
<1>8. Acked(x, gEpoch, gVer, epoch) => Acked(y, gEpoch, gVer, epoch)
  BY <1>2 DEF Acked
<1> QED
  BY <1>1, <1>3, <1>4, <1>5, <1>6, <1>7, <1>8 DEF AckView

(* So does the client: it answers ACK only after it has applied, and its   *)
(* version only grows within an epoch.                                     *)
LEMMA ClientAck ==
  ASSUME BaseInv, NEW p \in Conns, AckView(p), Client(p)
  PROVE  AckView(p)'
<1>1. PICK x \in Sessions : x = sess[p] /\ x = sess'[p]
  BY TypedIs DEF Typed, Client
<1>2. PICK g \in Seq(GwMsgs) : g = toGw[p]
  BY TypedIs DEF Typed
<1>k. PICK k : k = toHub'[p]
  OBVIOUS
<1>3. PICK h \in Seq(HubMsgs) : h = toHub[p] /\ k = toHub'[p]
  BY <1>k, TypedIs DEF Typed
<1>4. epoch' = epoch /\ Unready(x) /\ gVer \in Nat
  BY <1>1 DEF Client, HubStill, AckView, BaseInv, GwEnds
<1>5. CASE ~gwOpen'[p]
  BY <1>1, <1>4, <1>5 DEF AckView
<1>6. CASE gwOpen'[p]
  <2>1. gwOpen[p] /\ g # <<>> /\ toGw'[p] = Tail(g)
    BY <1>2, <1>6 DEF Client, GwHung, GwGreeted, GwApplies, GwBalks, GwPongs, GwReceives
  <2>2. /\ Greeting(x, g, h, client, gEpoch, gVer) /\ Readies(x, g, client, linkEpoch, epoch)
        /\ Acking(h, client, linkEpoch, gEpoch, gVer) /\ Acked(x, gEpoch, gVer, epoch)
    BY <1>1, <1>2, <1>3, <2>1 DEF AckView
  <2>3. PICK f, m : f = Tail(g) /\ m = Head(g)
    OBVIOUS
  <2>4. m = g[1] /\ 1 \in 1..Len(g) /\ \A n \in 1..Len(f) : n + 1 \in 1..Len(g) /\ f[n] = g[n + 1]
    BY <2>1, <2>3, TailIs
  <2>5. SUFFICES /\ Greeting(x, f, k, client', gEpoch', gVer')
                 /\ Readies(x, f, client', linkEpoch', epoch)
                 /\ Acking(k, client', linkEpoch', gEpoch', gVer')
                 /\ Acked(x, gEpoch', gVer', epoch)
    BY <1>1, <1>3, <1>4, <2>1, <2>3 DEF AckView
  <2>6. CASE GwGreeted(p)
    <3>1. /\ client = "HELLO" /\ m.kind = "READY" /\ k = h /\ linkEpoch' = m.body.epoch
          /\ client' \in {"OPEN", "SYNC"} /\ gEpoch' = gEpoch /\ gVer' = gVer
      BY <1>2, <1>3, <2>3, <2>6 DEF GwGreeted, CopySame
    <3>2. ~Opening(x)
      BY <2>2, <2>4, <3>1 DEF Greeting
    <3>3. Readies(x, f, client', linkEpoch', epoch)
      BY <2>2, <2>4, <3>1 DEF Readies
    <3>4. \A n \in 1..Len(h) : h[n].kind # "ACK"
      BY <2>2, <3>1 DEF Acking
    <3> QED
      BY <2>2, <3>1, <3>2, <3>3, <3>4 DEF Greeting, Acking
  <2>7. CASE GwBalks(p) \/ GwPongs(p)
    <3>1. /\ client \in {"SYNC", "OPEN"} /\ client' \in {"SYNC", "OPEN"} /\ linkEpoch' = linkEpoch
          /\ gEpoch' = gEpoch /\ gVer' = gVer
          /\ \E c \in {"SNAP_REQ", "PONG"}, q \in {0, m.seq} : k = Append(h, Msg(c, q, None))
      BY <1>2, <1>3, <2>3, <2>7 DEF GwBalks, GwPongs, GwSyncs, CopySame
    <3>2. ~Opening(x)
      BY <2>2, <3>1 DEF Greeting
    <3>3. Readies(x, f, client', linkEpoch', epoch)
      BY <2>2, <2>4, <3>1 DEF Readies
    <3>4. PICK c \in {"SNAP_REQ", "PONG"}, q \in {0, m.seq} : k = Append(h, Msg(c, q, None))
      BY <3>1
    <3>5. PICK a : a = Msg(c, q, None)
      OBVIOUS
    <3>6. m \in GwMsgs
      BY <2>1, <2>3, TailIs
    <3>7. q \in Nat
      BY <3>6 DEF GwMsgs
    <3>8. a \in HubMsgs /\ a.kind # "ACK"
      BY <3>5, <3>7 DEF Msg, HubMsgs
    <3>9. Acking(k, client', linkEpoch', gEpoch', gVer')
      BY <2>2, <3>1, <3>4, <3>5, <3>8, AppendIs DEF Acking
    <3> QED
      BY <2>2, <3>1, <3>2, <3>3, <3>9 DEF Greeting
  <2>8. CASE GwApplies(p)
    <3>1. PICK b : b = m.body
      OBVIOUS
    <3>2. /\ client \in {"SYNC", "OPEN"} /\ client' = "OPEN" /\ linkEpoch' = linkEpoch
          /\ m.kind \in PushKinds
          /\ Accepted(b) /\ gEpoch' = b.epoch /\ gVer' = b.version
          /\ k = Append(h, Msg("ACK", m.seq, [epoch |-> b.epoch, version |-> b.version]))
      BY <1>2, <1>3, <2>3, <2>8, <3>1 DEF GwApplies, GwSyncs, CopyTakes
    <3>3. b \in Snaps \cup Deltas
      <4>1. Carries(g, epoch, ver, hist)
        BY <1>2, TypedIs DEF LinkSound
      <4> QED
        BY <2>4, <3>1, <3>2, <4>1 DEF Carries, SoundAt
    <3>4. /\ b.epoch = linkEpoch /\ b.version \in Nat /\ b.epoch \in Nat
          /\ (gEpoch = linkEpoch => b.version > gVer)
      BY <1>4, <3>2, <3>3 DEF Accepted, AcceptsSnap, AcceptsDelta, Snaps, Deltas
    <3>5. ~Opening(x)
      BY <2>2, <3>2 DEF Greeting
    <3>6. Readies(x, f, client', linkEpoch', epoch)
      BY <2>2, <2>4, <3>2 DEF Readies
    <3>7. PICK e : e = [epoch |-> b.epoch, version |-> b.version]
      OBVIOUS
    <3>8. e \in Stamps /\ e.epoch = b.epoch /\ e.version = b.version
      BY <3>4, <3>7 DEF Stamps
    <3>9. PICK a : a = Msg("ACK", m.seq, e)
      OBVIOUS
    <3>10. m \in GwMsgs
      BY <2>1, <2>3, TailIs
    <3>11. m.seq \in Nat
      BY <3>10 DEF GwMsgs
    <3>12. a \in HubMsgs /\ a.body = e
      BY <3>8, <3>9, <3>11 DEF Msg, HubMsgs
    <3>13. \A n \in 1..Len(h) : h[n].kind = "ACK" => h[n].body.epoch = linkEpoch /\ h[n].body.version <= b.version
      <4>1. ASSUME NEW n \in 1..Len(h), h[n].kind = "ACK"
            PROVE  h[n].body.epoch = linkEpoch /\ h[n].body.version <= b.version
        <5>1. h[n].body.epoch = linkEpoch /\ gEpoch = linkEpoch /\ h[n].body.version <= gVer
          BY <2>2, <4>1 DEF Acking
        <5>2. Stamped(h)
          BY <1>3, TypedIs DEF LinkSound
        <5>3. h[n].body \in Stamps
          BY <4>1, <5>2 DEF Stamped
        <5>4. h[n].body.version \in Nat
          BY <5>3 DEF Stamps
        <5> QED
          BY <1>4, <3>4, <5>1, <5>4
      <4> QED
        BY <4>1
    <3>14. Acking(k, client', linkEpoch', gEpoch', gVer')
      BY <3>2, <3>4, <3>7, <3>8, <3>9, <3>12, <3>13, AppendIs DEF Acking
    <3>15. Acked(x, gEpoch', gVer', epoch)
      <4>1. CASE x.acked > 0
        <5>1. gEpoch = epoch /\ gVer >= x.acked
          BY <2>2, <4>1 DEF Acked
        <5>2. x.st # "CLOSED"
          <6>1. ClosedSession.acked = 0
            BY DEF ClosedSession, NewSession
          <6>2. x.st = "CLOSED" => x = ClosedSession
            BY <1>1, TypedIs DEF LinkSound
          <6> QED
            BY <4>1, <6>1, <6>2
        <5>3. linkEpoch = epoch
          BY <2>2, <3>2, <5>2 DEF Readies
        <5>4. x.acked \in Nat
          BY DEF Sessions
        <5> QED
          BY <1>4, <3>2, <3>4, <5>1, <5>3, <5>4 DEF Acked
      <4>2. CASE ~(x.acked > 0)
        BY <4>2 DEF Acked
      <4> QED
        BY <4>1, <4>2
    <3> QED
      BY <3>5, <3>6, <3>14, <3>15 DEF Greeting
  <2>9. ~GwHung(p)
    BY <1>6 DEF GwHung
  <2> QED
    BY <2>6, <2>7, <2>8, <2>9 DEF Client
<1>7. gwOpen'[p] \in BOOLEAN
  BY TypedIs DEF Client, GwHung, GwGreeted, GwApplies, GwBalks, GwPongs, GwReceives, Typed
<1> QED
  BY <1>5, <1>6

(* So does every step.                                                     *)
LEMMA AckStays ==
  ASSUME BaseInv, SyncNext, NEW p \in Conns, AckView(p)
  PROVE  AckView(p)'
<1>1. ASSUME Idles(p) \/ Halts(p) \/ Replaced(p) \/ Hurries(p) \/ Drifts(p)
      PROVE  AckView(p)'
  <2>1. /\ epoch' = epoch /\ LinkKept
        /\ toGw'[p] = toGw[p] /\ toHub'[p] = toHub[p] /\ gwOpen'[p] = gwOpen[p]
    BY <1>1 DEF Idles, Steady, Quiet, Halts, Still, Halted, Replaced, Silent, Hurries, Roused,
       Drifts, LinkKept
  <2>2. \/ sess'[p] = sess[p]
        \/ sess[p].st # "CLOSED" /\ sess'[p].recv \in {sess[p].recv, "replacing"}
           /\ Same(sess[p], sess'[p], Marked \cup {"recv"})
    <3>1. CASE Idles(p) \/ Drifts(p)
      BY <3>1 DEF Idles, Drifts, Quiet
    <3>2. CASE Halts(p)
      BY <3>2 DEF Halts, Halted, Same, Fields, Marked
    <3>3. CASE Replaced(p)
      BY <3>3, Awake DEF Replaced, Replaces, Same, Fields, Marked
    <3>4. CASE Hurries(p)
      BY <3>4 DEF Hurries, Roused, Late, Same, Fields, Marked
    <3> QED
      BY <1>1, <3>1, <3>2, <3>3, <3>4
  <2> QED
    BY <2>1, <2>2, HubAck
<1>2. CASE Reboot(p)
  <2>1. sess'[p] = ClosedSession /\ toHub'[p] = <<>>
    BY <1>2 DEF Reboot, Rebooted
  <2>2. ~Opening(ClosedSession) /\ ClosedSession.st = "CLOSED" /\ ClosedSession.acked = 0
    BY DEF Opening, ClosedSession, NewSession
  <2> QED
    BY <2>1, <2>2 DEF AckView, Unready, Greeting, Readies, Acking, Acked
<1>3. CASE Apart(p)
  BY <1>3 DEF Apart, AckView
<1>4. CASE Dialled(p)
  <2>1. PICK y : y = NewSession("HELLO", "wait")
    OBVIOUS
  <2>2. y.recv = "hello" /\ ~y.ready /\ y.send = "wait" /\ y.acked = 0 /\ y.st = "HELLO"
    BY <2>1 DEF NewSession
  <2>3. PICK m : m = Msg("HELLO", 1, [epoch |-> gEpoch, version |-> gVer])
    OBVIOUS
  <2>4. m.kind = "HELLO" /\ m.body = [epoch |-> gEpoch, version |-> gVer]
    BY <2>3 DEF Msg
  <2>5. /\ sess'[p] = y /\ toGw'[p] = <<>> /\ toHub'[p] = <<m>> /\ client' = "HELLO"
        /\ epoch' = epoch
        /\ gEpoch' = gEpoch /\ gVer' = gVer
    BY <1>4, <2>1, <2>3 DEF Dialled
  <2>6. Head(<<m>>) = m /\ \A n \in 1..Len(<<m>>) : <<m>>[n] = m
    OBVIOUS
  <2>7. /\ Greeting(y, <<>>, <<m>>, "HELLO", gEpoch, gVer)
        /\ Readies(y, <<>>, "HELLO", linkEpoch', epoch)
    BY <2>4, <2>6 DEF Greeting, Readies
  <2>8. /\ Acking(<<m>>, "HELLO", linkEpoch', gEpoch, gVer) /\ Acked(y, gEpoch, gVer, epoch)
        /\ Unready(y)
    BY <2>2, <2>4, <2>6 DEF Acking, Acked, Unready
  <2> QED
    BY <2>5, <2>7, <2>8 DEF AckView
<1> QED
  BY <1>1, <1>2, <1>3, <1>4, SendAck, RecvAck, ClientAck, Views DEF View

(* At the start nothing is acknowledged.                                   *)
LEMMA AckStarts ==
  ASSUME SyncInit
  PROVE  AckSound
<1>1. \A p \in Conns : sess[p] = ClosedSession /\ gwOpen[p] = FALSE
  BY DEF SyncInit
<1>2. ~Opening(ClosedSession)
  BY DEF Opening, ClosedSession, NewSession
<1> QED
  BY <1>1, <1>2 DEF AckSound, AckView, Unready

(* For every instance: what Session takes for acknowledged (m_acked, from  *)
(* the hello or an ACK), the gateway at the other end has applied, in this *)
(* epoch, also when sessions are replaced and the link or the hub is lost. *)
THEOREM AcksAreApplied == SyncSpec => []AckedIsApplied
<1>1. AckSound /\ BaseInv /\ SyncNext => AckSound'
  BY AckStays DEF AckSound
<1>2. ASSUME AckSound, UNCHANGED vars
      PROVE  AckSound'
  <2>1. /\ sess' = sess /\ toGw' = toGw /\ toHub' = toHub /\ gwOpen' = gwOpen /\ client' = client
        /\ linkEpoch' = linkEpoch /\ gEpoch' = gEpoch /\ gVer' = gVer /\ epoch' = epoch
    BY <1>2 DEF vars, hubSide, hubVars, wires, clientVars, guardVars
  <2> QED
    BY <1>2, <2>1 DEF AckSound, AckView
<1>3. AckSound => AckedIsApplied
  BY DEF AckSound, AckView, Acked, AckedIsApplied
<1> QED
  BY <1>1, <1>2, <1>3, AckStarts, BaseInductive, PTL DEF SyncSpec

----------------------------------------------------------------------------
(* The answers to a push.                                                  *)
Replies == {"ACK", "SNAP_REQ"}
(* No message of the kinds K is in q.                                      *)
Lacks(q, K) == \A n \in 1..Len(q) : q[n].kind \notin K
(* At most one is.                                                         *)
Single(q, K) == \A n, m \in 1..Len(q) : q[n].kind \in K /\ q[m].kind \in K => n = m

(* At most one push is on the way, or its answer, and none while the       *)
(* session does not wait for one or has yet to send it.                    *)
Flight(x, g, h) ==
  /\ Single(g, PushKinds) /\ Single(h, Replies)
  /\ Lacks(g, PushKinds) \/ Lacks(h, Replies)
  /\ x.sync = 0 \/ x.send = "emit" => Lacks(g, PushKinds) /\ Lacks(h, Replies)
  /\ x.send = "emit" => x.sync # 0
(* Between the first two sections of sendCurrent no push is in flight:     *)
(* only this loop starts one.                                              *)
Free(x) == x.send \in {"push", "mark"} => x.sync = 0
(* All that of connection p, while the gateway is on it.                   *)
FlightView(p) ==
  /\ Free(sess[p])
  /\ gwOpen[p] /\ sess[p].st # "CLOSED" => Flight(sess[p], toGw[p], toHub[p])
(* The inductive invariant behind OnePushInFlight.                         *)
FlightSound == \A p \in Conns : FlightView(p)

(* What reading the first message leaves.                                  *)
LEMMA QueueTail ==
  ASSUME NEW S, NEW q \in Seq(S), NEW K, q # <<>>
  PROVE  /\ Lacks(q, K) => Lacks(Tail(q), K)
         /\ Single(q, K) => Single(Tail(q), K)
         /\ Single(q, K) /\ Head(q).kind \in K => Lacks(Tail(q), K)
         /\ Lacks(q, K) => Head(q).kind \notin K
<1>1. PICK t : t = Tail(q)
  OBVIOUS
<1>2. Head(q) = q[1] /\ 1 \in 1..Len(q) /\ \A n \in 1..Len(t) : n + 1 \in 1..Len(q) /\ t[n] = q[n + 1]
  BY <1>1, TailIs
<1>3. Lacks(q, K) => Lacks(t, K) /\ Head(q).kind \notin K
  BY <1>2 DEF Lacks
<1>4. ASSUME Single(q, K)
      PROVE  Single(t, K)
  <2>1. \A n, m \in 1..Len(t) : t[n].kind \in K /\ t[m].kind \in K => n + 1 = m + 1
    BY <1>2, <1>4 DEF Single
  <2> QED
    BY <2>1 DEF Single
<1>5. ASSUME Single(q, K), Head(q).kind \in K
      PROVE  Lacks(t, K)
  <2>1. \A n \in 1..Len(t) : t[n].kind \in K => n + 1 = 1
    BY <1>2, <1>5 DEF Single
  <2> QED
    BY <2>1 DEF Lacks
<1> QED
  BY <1>1, <1>3, <1>4, <1>5

(* What adding a message leaves.                                           *)
LEMMA QueueAppend ==
  ASSUME NEW S, NEW q \in Seq(S), NEW K, NEW m \in S
  PROVE  /\ Lacks(q, K) => Single(q, K)
         /\ Lacks(q, K) /\ m.kind \notin K => Lacks(Append(q, m), K)
         /\ Single(q, K) /\ m.kind \notin K => Single(Append(q, m), K)
         /\ Lacks(q, K) => Single(Append(q, m), K)
<1>1. PICK a : a = Append(q, m)
  OBVIOUS
<1>2. PICK k : k = Len(q) + 1
  OBVIOUS
<1>3. \A n \in 1..Len(a) : (n \in 1..Len(q) /\ a[n] = q[n]) \/ (n = k /\ a[n] = m)
  BY <1>1, <1>2, AppendIs
<1>4. Lacks(q, K) => Single(q, K)
  BY DEF Lacks, Single
<1>5. Lacks(q, K) /\ m.kind \notin K => Lacks(a, K)
  BY <1>3 DEF Lacks
<1>6. Single(q, K) /\ m.kind \notin K => Single(a, K)
  BY <1>3 DEF Single
<1>7. Lacks(q, K) => Single(a, K)
  BY <1>3 DEF Single, Lacks
<1> QED
  BY <1>1, <1>4, <1>5, <1>6, <1>7

(* A step that does not end the wait for an answer.                        *)
Plain(x, y) ==
  \/ y = ClosedSession
  \/ (y.sync = 0 => x.sync = 0) /\ (Free(x) => Free(y)) /\ (y.send = "emit" => x.send = "emit")

(* Such a step keeps Flight.                                               *)
LEMMA PlainFlight ==
  ASSUME NEW x, NEW y, NEW g, NEW h, Plain(x, y), Free(x), y.st # "CLOSED" => Flight(x, g, h)
  PROVE  Free(y) /\ (y.st # "CLOSED" => Flight(y, g, h))
<1>1. ClosedSession.st = "CLOSED" /\ Free(ClosedSession)
  BY DEF ClosedSession, NewSession, Free
<1>2. CASE y = ClosedSession
  BY <1>1, <1>2
<1>3. CASE y # ClosedSession
  BY <1>3 DEF Plain, Free, Flight
<1> QED
  BY <1>2, <1>3

(* A loop that ends takes such a step.                                     *)
LEMMA StopsPlain ==
  ASSUME NEW x \in Sessions, NEW y \in Sessions, Stops(x, y)
  PROVE  Plain(x, y)
BY DEF Stops, Plain, Free, Sessions

(* The sending loop takes such a step without writing a push, begins to    *)
(* wait, or writes the push it waits for.                                  *)
LEMMA SendFlies ==
  ASSUME BaseInv, NEW s \in Conns, SendKinds(s), Free(sess[s])
  PROVE  /\ sess[s].st # "CLOSED" /\ toHub'[s] = toHub[s] /\ gwOpen'[s] = gwOpen[s]
         /\ \/ /\ Plain(sess[s], sess'[s])
               /\ \/ toGw'[s] = toGw[s]
                  \/ \E m \in GwMsgs : m.kind \notin PushKinds /\ toGw'[s] = Append(toGw[s], m)
            \/ /\ sess[s].sync = 0 /\ sess'[s].sync # 0 /\ Free(sess'[s])
               /\ toGw'[s] = toGw[s]
            \/ /\ sess[s].send = "emit" /\ sess'[s].send = "sent" /\ sess'[s].sync = sess[s].sync
               /\ \E m \in GwMsgs : toGw'[s] = Append(toGw[s], m)
<1>0. PICK x \in Sessions, y \in Sessions : x = sess[s] /\ y = sess'[s]
  BY TypedIs DEF SendKinds, Typed
<1>1. LinkSound(s) /\ epoch \in Nat /\ ver \in Nat /\ x.nextSeq \in Nat \ {0} /\ out[s] \in Outs
  BY <1>0, TypedIs DEF Sessions, Typed
<1>2. x.send # "done" => x.st # "CLOSED"
  BY <1>0, Awake
<1>3. CASE Quits(s)
  <2>1. /\ Stops(x, y) /\ x.st # "CLOSED" /\ toHub'[s] = toHub[s] /\ gwOpen'[s] = gwOpen[s]
        /\ \/ toGw'[s] = toGw[s]
           \/ \E k \in {"ERR", "BYE"} : toGw'[s] = Append(toGw[s], Msg(k, 0, None))
    BY <1>0, <1>3 DEF Quits
  <2>2. \A k \in {"ERR", "BYE"} : Msg(k, 0, None) \in GwMsgs /\ Msg(k, 0, None).kind \notin PushKinds
    BY DEF Msg, GwMsgs, PushKinds
  <2> QED
    BY <1>0, <2>1, <2>2, StopsPlain
<1>4. CASE Silent(s) /\ (Wakes(x, y) \/ Decides(x, y) \/ Waits(x, y) \/ Begins(x, y, out'[s]))
  <2>1. /\ y.sync = x.sync /\ x.send # "done" /\ (y.send \notin {"push", "mark"} \/ x.sync = 0)
        /\ y.send # "emit"
    BY <1>4 DEF Wakes, Decides, Waits, Begins, Same, Fields
  <2>2. Plain(x, y)
    BY <2>1 DEF Plain, Free
  <2> QED
    BY <1>0, <1>2, <1>4, <2>1, <2>2 DEF Silent
<1>5. CASE /\ Silent(s)
           /\ Agrees(x, y, out[s], ver) \/ Fetches(x, y) \/ Settles(x, y, out[s]) \/ Passes(x, y)
  <2>1. /\ y.sync = x.sync /\ x.send # "done" /\ (y.send \notin {"push", "mark"} \/ x.send = "push")
        /\ y.send # "emit"
    BY <1>5 DEF Agrees, Fetches, Settles, Passes, Same, Fields
  <2>2. Plain(x, y)
    BY <1>0, <2>1 DEF Plain, Free
  <2> QED
    BY <1>0, <1>2, <1>5, <2>1, <2>2 DEF Silent
<1>6. CASE /\ Greets(x, y)
           /\ Says(s, Msg("READY", 1, [epoch |-> epoch, version |-> sess[s].target]))
  <2>1. PICK b : b = [epoch |-> epoch, version |-> x.target]
    OBVIOUS
  <2>2. b \in Stamps
    BY <1>1, <2>1 DEF Stamps, Sessions
  <2>3. PICK m : m = Msg("READY", 1, b)
    OBVIOUS
  <2>4. m \in GwMsgs /\ m.kind \notin PushKinds
    BY <2>2, <2>3 DEF Msg, GwMsgs, PushKinds
  <2>5. toGw'[s] = Append(toGw[s], m) /\ toHub'[s] = toHub[s] /\ gwOpen'[s] = gwOpen[s]
    BY <1>0, <1>6, <2>1, <2>3 DEF Says
  <2>6. x.send = "ready" /\ y.send = "readied" /\ y.sync = x.sync
    BY <1>6 DEF Greets, Same, Fields
  <2>7. Plain(x, y)
    BY <2>6 DEF Plain, Free
  <2> QED
    BY <1>0, <1>2, <2>4, <2>5, <2>6, <2>7
<1>9. CASE Silent(s) /\ Marks(x, y, out[s])
  <2>1. x.sync = 0 /\ y.sync # 0 /\ Free(y) /\ x.send = "mark"
    BY <1>0, <1>1, <1>9 DEF Marks, Free
  <2> QED
    BY <1>0, <1>2, <1>9, <2>1 DEF Silent
<1>7. CASE /\ Emits(x, y)
           /\ Says(s, Msg(out[s].kind, sess[s].nextSeq - 1, out[s]))
  <2>1. out[s] \in Snaps \cup Deltas /\ x.send = "emit"
    BY <1>0, <1>1, <1>7 DEF Emits, LinkSound, Planned, SoundAt
  <2>2. out[s].kind \in PushKinds
    BY <2>1 DEF Snaps, Deltas, PushKinds
  <2>n. PICK n \in Nat : n = x.nextSeq - 1
    BY <1>1
  <2>3. PICK m : m = Msg(out[s].kind, n, out[s])
    OBVIOUS
  <2>4. m \in GwMsgs
    BY <1>1, <2>1, <2>2, <2>3 DEF Msg, GwMsgs
  <2>5. toGw'[s] = Append(toGw[s], m) /\ toHub'[s] = toHub[s] /\ gwOpen'[s] = gwOpen[s]
    BY <1>0, <1>7, <2>n, <2>3 DEF Says
  <2>6. y.send = "sent" /\ y.sync = x.sync
    BY <1>7 DEF Emits, Same, Fields
  <2> QED
    BY <1>0, <1>2, <2>1, <2>4, <2>5, <2>6
<1>8. CASE /\ Pings(x, y)
           /\ Says(s, Msg("PING", sess[s].nextSeq, None))
  <2>1. PICK m : m = Msg("PING", x.nextSeq, None)
    OBVIOUS
  <2>2. m \in GwMsgs /\ m.kind \notin PushKinds
    BY <1>1, <2>1 DEF Msg, GwMsgs, PushKinds
  <2>3. toGw'[s] = Append(toGw[s], m) /\ toHub'[s] = toHub[s] /\ gwOpen'[s] = gwOpen[s]
    BY <1>0, <1>8, <2>1 DEF Says
  <2>4. x.send = "ping" /\ y.send = "bye" /\ y.sync = x.sync
    BY <1>8 DEF Pings, Same, Fields
  <2>5. Plain(x, y)
    BY <2>4 DEF Plain, Free
  <2> QED
    BY <1>0, <1>2, <2>2, <2>3, <2>4, <2>5
<1> QED
  BY <1>0, <1>3, <1>4, <1>5, <1>6, <1>7, <1>8, <1>9 DEF SendKinds

(* The receiving loop takes such a step, or reads an answer and no longer  *)
(* waits.                                                                  *)
LEMMA RecvFlies ==
  ASSUME BaseInv, NEW s \in Conns, RecvKinds(s), Free(sess[s])
  PROVE  /\ sess[s].st # "CLOSED" /\ toGw'[s] = toGw[s] /\ gwOpen'[s] = gwOpen[s]
         /\ \/ Plain(sess[s], sess'[s]) /\ (toHub'[s] = toHub[s] \/ Takes(s))
            \/ /\ Takes(s) /\ Head(toHub[s]).kind \in Replies /\ sess'[s].sync = 0
               /\ sess'[s].send = sess[s].send
<1>0. PICK x \in Sessions, y \in Sessions : x = sess[s] /\ y = sess'[s] /\ x.st # "CLOSED"
  BY TypedIs DEF RecvKinds, Typed
<1>1. CASE Quits(s) /\ toGw'[s] = toGw[s]
  <2>1. Stops(x, y) /\ toHub'[s] = toHub[s] /\ gwOpen'[s] = gwOpen[s]
    BY <1>0, <1>1 DEF Quits
  <2> QED
    BY <1>0, <1>1, <2>1, StopsPlain
<1>2. CASE /\ Silent(s)
           /\ Hears(x, y, ver) \/ Refuses(x, y) \/ Nudges(x, y) \/ Falters(x, y) \/ Serves(x, y)
  <2>1. y.sync = x.sync /\ y.send = x.send
    BY <1>2 DEF Hears, Refuses, Nudges, Falters, Serves, Same, Fields
  <2> QED
    BY <1>0, <1>2, <2>1 DEF Silent, Plain, Free
<1>3. CASE Takes(s) /\ (Binds(x, y, Head(toHub[s]).body, epoch) \/ Pongs(x, y, Head(toHub[s])) \/ Refuses(x, y))
  <2>1. y.sync = x.sync /\ y.send = x.send
    BY <1>3 DEF Binds, Pongs, Refuses, Same, Fields
  <2> QED
    BY <1>0, <1>3, <2>1 DEF Takes, Plain, Free
<1>4. CASE Takes(s) /\ (Acks(x, y, Head(toHub[s]), epoch) \/ Asks(x, y, Head(toHub[s])))
  <2>1. y.sync = 0 /\ Head(toHub[s]).kind \in Replies /\ y.send = x.send
    BY <1>4 DEF Acks, Asks, Replies, Same, Fields
  <2> QED
    BY <1>0, <1>4, <2>1 DEF Takes
<1>5. CASE /\ Leaves(x, y)
           /\ toGw'[s] = toGw[s] /\ toHub'[s] = toHub[s] /\ gwOpen'[s] = gwOpen[s]
  <2>1. Plain(x, y)
    BY <1>5 DEF Leaves, Same, Fields, Plain, Free
  <2> QED
    BY <1>0, <1>5, <2>1
<1> QED
  BY <1>0, <1>1, <1>2, <1>3, <1>4, <1>5 DEF RecvKinds

(* The sending loop keeps FlightView.                                      *)
LEMMA SendFlight ==
  ASSUME BaseInv, NEW p \in Conns, FlightView(p), SendKinds(p)
  PROVE  FlightView(p)'
<1>1. PICK x, y, f, h : x = sess[p] /\ y = sess'[p] /\ f = toGw'[p] /\ h = toHub[p]
  OBVIOUS
<1>2. PICK g \in Seq(GwMsgs) : g = toGw[p]
  BY TypedIs DEF Typed
<1>3. Free(x) /\ (gwOpen[p] /\ x.st # "CLOSED" => Flight(x, g, h))
  BY <1>1, <1>2 DEF FlightView
<1>4. /\ x.st # "CLOSED" /\ toHub'[p] = h /\ gwOpen'[p] = gwOpen[p]
      /\ \/ Plain(x, y) /\ (f = g \/ \E m \in GwMsgs : m.kind \notin PushKinds /\ f = Append(g, m))
         \/ x.sync = 0 /\ y.sync # 0 /\ Free(y) /\ f = g
         \/ /\ x.send = "emit" /\ y.send = "sent" /\ y.sync = x.sync
            /\ \E m \in GwMsgs : f = Append(g, m)
  BY <1>1, <1>2, <1>3, SendFlies
<1>5. SUFFICES Free(y) /\ (gwOpen[p] /\ y.st # "CLOSED" => Flight(y, f, h))
  BY <1>1, <1>4 DEF FlightView
<1>6. CASE Plain(x, y) /\ (f = g \/ \E m \in GwMsgs : m.kind \notin PushKinds /\ f = Append(g, m))
  <2>1. /\ Single(g, PushKinds) => Single(f, PushKinds)
        /\ Lacks(g, PushKinds) => Lacks(f, PushKinds)
    BY <1>6, QueueAppend
  <2>2. Flight(x, g, h) => Flight(x, f, h)
    BY <2>1 DEF Flight
  <2>3. CASE gwOpen[p]
    BY <1>3, <1>4, <1>6, <2>2, <2>3, PlainFlight
  <2>4. CASE ~gwOpen[p]
    <3>1. Free(ClosedSession)
      BY DEF ClosedSession, NewSession, Free
    <3> QED
      BY <1>3, <1>6, <2>4, <3>1 DEF Plain
  <2> QED
    BY <2>3, <2>4
<1>7. CASE x.sync = 0 /\ y.sync # 0 /\ Free(y) /\ f = g
  BY <1>3, <1>4, <1>7 DEF Flight
<1>8. CASE /\ x.send = "emit" /\ y.send = "sent" /\ y.sync = x.sync
           /\ \E m \in GwMsgs : f = Append(g, m)
  <2>1. Lacks(g, PushKinds) => Single(f, PushKinds)
    BY <1>8, QueueAppend
  <2> QED
    BY <1>3, <1>4, <1>8, <2>1 DEF Flight, Free
<1> QED
  BY <1>4, <1>6, <1>7, <1>8

(* So does the receiving loop.                                             *)
LEMMA RecvFlight ==
  ASSUME BaseInv, NEW p \in Conns, FlightView(p), RecvKinds(p)
  PROVE  FlightView(p)'
<1>1. PICK x, y, g, k : x = sess[p] /\ y = sess'[p] /\ g = toGw[p] /\ k = toHub'[p]
  OBVIOUS
<1>2. PICK h \in Seq(HubMsgs) : h = toHub[p]
  BY TypedIs DEF Typed
<1>3. Free(x) /\ (gwOpen[p] /\ x.st # "CLOSED" => Flight(x, g, h))
  BY <1>1, <1>2 DEF FlightView
<1>4. /\ x.st # "CLOSED" /\ toGw'[p] = g /\ gwOpen'[p] = gwOpen[p]
      /\ \/ Plain(x, y) /\ (k = h \/ (h # <<>> /\ k = Tail(h)))
         \/ h # <<>> /\ k = Tail(h) /\ Head(h).kind \in Replies /\ y.sync = 0 /\ y.send = x.send
  BY <1>1, <1>2, <1>3, RecvFlies DEF Takes
<1>5. SUFFICES Free(y) /\ (gwOpen[p] /\ y.st # "CLOSED" => Flight(y, g, k))
  BY <1>1, <1>4 DEF FlightView
<1>6. CASE Plain(x, y) /\ (k = h \/ (h # <<>> /\ k = Tail(h)))
  <2>1. /\ Single(h, Replies) => Single(k, Replies)
        /\ Lacks(h, Replies) => Lacks(k, Replies)
    BY <1>6, QueueTail
  <2>2. Flight(x, g, h) => Flight(x, g, k)
    BY <2>1 DEF Flight
  <2>3. CASE gwOpen[p]
    BY <1>3, <1>4, <1>6, <2>2, <2>3, PlainFlight
  <2>4. CASE ~gwOpen[p]
    <3>1. Free(ClosedSession)
      BY DEF ClosedSession, NewSession, Free
    <3> QED
      BY <1>3, <1>6, <2>4, <3>1 DEF Plain
  <2> QED
    BY <2>3, <2>4
<1>7. CASE h # <<>> /\ k = Tail(h) /\ Head(h).kind \in Replies /\ y.sync = 0 /\ y.send = x.send
  <2>1. Single(h, Replies) => Lacks(k, Replies) /\ Single(k, Replies)
    BY <1>7, QueueTail
  <2>2. ~Lacks(h, Replies)
    BY <1>7, QueueTail
  <2> QED
    BY <1>3, <1>4, <1>7, <2>1, <2>2 DEF Flight, Free
<1> QED
  BY <1>4, <1>6, <1>7

(* So does the client: one answer for one push.                            *)
LEMMA ClientFlight ==
  ASSUME BaseInv, NEW p \in Conns, FlightView(p), Client(p)
  PROVE  FlightView(p)'
<1>1. PICK x, f, k : x = sess[p] /\ x = sess'[p] /\ f = toGw'[p] /\ k = toHub'[p]
  BY DEF Client
<1>2. PICK g \in Seq(GwMsgs), h \in Seq(HubMsgs) : g = toGw[p] /\ h = toHub[p]
  BY TypedIs DEF Typed
<1>3. Free(x) /\ (gwOpen[p] /\ x.st # "CLOSED" => Flight(x, g, h))
  BY <1>1, <1>2 DEF FlightView
<1>4. SUFFICES ASSUME gwOpen'[p], x.st # "CLOSED"
               PROVE  Flight(x, f, k)
  BY <1>1, <1>3 DEF FlightView
<1>5. gwOpen[p] /\ g # <<>> /\ f = Tail(g)
  BY <1>1, <1>2, <1>4 DEF Client, GwHung, GwGreeted, GwApplies, GwBalks, GwPongs, GwReceives
<1>6. Flight(x, g, h)
  BY <1>3, <1>4, <1>5
<1>7. /\ Single(g, PushKinds) => Single(f, PushKinds)
      /\ Lacks(g, PushKinds) => Lacks(f, PushKinds)
      /\ Single(g, PushKinds) /\ Head(g).kind \in PushKinds => Lacks(f, PushKinds)
      /\ Lacks(g, PushKinds) => Head(g).kind \notin PushKinds
  BY <1>5, QueueTail
<1>8. PICK m \in GwMsgs : m = Head(g)
  BY <1>5, TailIs
<1>9. m.seq \in Nat
  BY <1>8 DEF GwMsgs
<1>10. CASE GwGreeted(p)
  <2>1. k = h
    BY <1>1, <1>2, <1>10 DEF GwGreeted
  <2> QED
    BY <1>6, <1>7, <2>1 DEF Flight
<1>11. CASE GwPongs(p)
  <2>1. PICK a : a = Msg("PONG", m.seq, None)
    OBVIOUS
  <2>2. k = Append(h, a)
    BY <1>1, <1>2, <1>8, <1>11, <2>1 DEF GwPongs
  <2>3. a \in HubMsgs /\ a.kind \notin Replies
    BY <1>9, <2>1 DEF Msg, HubMsgs, Replies
  <2>4. (Single(h, Replies) => Single(k, Replies)) /\ (Lacks(h, Replies) => Lacks(k, Replies))
    BY <2>2, <2>3, QueueAppend
  <2> QED
    BY <1>6, <1>7, <2>4 DEF Flight
<1>12. CASE GwApplies(p) \/ GwBalks(p)
  <2>1. Head(g).kind \in PushKinds
    BY <1>2, <1>12 DEF GwApplies, GwBalks, GwSyncs
  <2>2. /\ Lacks(f, PushKinds) /\ Single(f, PushKinds) /\ Lacks(h, Replies) /\ x.sync # 0
        /\ x.send # "emit"
    BY <1>6, <1>7, <2>1 DEF Flight
  <2>3. PICK a \in HubMsgs : k = Append(h, a)
    <3>1. CASE GwBalks(p)
      <4>1. PICK a : a = Msg("SNAP_REQ", 0, None)
        OBVIOUS
      <4>2. a \in HubMsgs
        BY <4>1 DEF Msg, HubMsgs
      <4> QED
        BY <1>1, <1>2, <3>1, <4>1, <4>2 DEF GwBalks
    <3>2. CASE GwApplies(p)
      <4>1. PICK b : b = m.body
        OBVIOUS
      <4>2. b \in Snaps \cup Deltas
        <5>1. Carries(g, epoch, ver, hist)
          BY <1>2, TypedIs DEF LinkSound
        <5>2. m = g[1] /\ 1 \in 1..Len(g)
          BY <1>5, <1>8, TailIs
        <5> QED
          BY <1>8, <2>1, <4>1, <5>1, <5>2 DEF Carries, SoundAt
      <4>3. PICK e : e = [epoch |-> b.epoch, version |-> b.version]
        OBVIOUS
      <4>4. b.epoch \in Nat /\ b.version \in Nat
        BY <4>2 DEF Snaps, Deltas
      <4>5. e \in Stamps
        BY <4>3, <4>4 DEF Stamps
      <4>6. PICK a : a = Msg("ACK", m.seq, e)
        OBVIOUS
      <4>7. a \in HubMsgs
        BY <1>9, <4>5, <4>6 DEF Msg, HubMsgs
      <4>8. k = Append(h, a)
        BY <1>1, <1>2, <1>8, <3>2, <4>1, <4>3, <4>6 DEF GwApplies
      <4> QED
        BY <4>7, <4>8
    <3> QED
      BY <1>12, <3>1, <3>2
  <2>4. Single(k, Replies)
    BY <2>2, <2>3, QueueAppend
  <2> QED
    BY <2>2, <2>4 DEF Flight
<1> QED
  BY <1>4, <1>10, <1>11, <1>12 DEF Client, GwHung

(* So does every step.                                                     *)
LEMMA FlightStays ==
  ASSUME BaseInv, SyncNext, NEW p \in Conns, FlightView(p)
  PROVE  FlightView(p)'
<1>1. ASSUME Idles(p) \/ Halts(p) \/ Replaced(p) \/ Hurries(p) \/ Drifts(p)
      PROVE  FlightView(p)'
  <2>1. toGw'[p] = toGw[p] /\ toHub'[p] = toHub[p] /\ gwOpen'[p] = gwOpen[p]
    BY <1>1 DEF Idles, Quiet, Halts, Halted, Replaced, Silent, Hurries, Roused, Drifts
  <2>2. /\ sess'[p].send = sess[p].send /\ sess'[p].sync = sess[p].sync
        /\ sess'[p].st # "CLOSED" => sess[p].st # "CLOSED"
    <3>1. CASE Idles(p) \/ Drifts(p)
      BY <3>1 DEF Idles, Drifts, Quiet
    <3>2. CASE Halts(p)
      BY <3>2 DEF Halts, Halted, Same, Fields, Marked
    <3>3. CASE Replaced(p)
      BY <3>3, Awake DEF Replaced, Replaces, Same, Fields, Marked
    <3>4. CASE Hurries(p)
      BY <3>4 DEF Hurries, Roused, Late, Same, Fields, Marked
    <3> QED
      BY <1>1, <3>1, <3>2, <3>3, <3>4
  <2> QED
    BY <2>1, <2>2 DEF FlightView, Flight, Free
<1>2. CASE Reboot(p)
  <2>1. sess'[p] = ClosedSession
    BY <1>2 DEF Reboot, Rebooted
  <2>2. ClosedSession.st = "CLOSED" /\ ClosedSession.send = "done"
    BY DEF ClosedSession, NewSession
  <2> QED
    BY <2>1, <2>2 DEF FlightView, Free
<1>3. CASE Apart(p)
  BY <1>3 DEF Apart, FlightView
<1>4. CASE Dialled(p)
  <2>1. PICK y : y = NewSession("HELLO", "wait")
    OBVIOUS
  <2>2. Free(y) /\ y.send = "wait"
    BY <2>1 DEF NewSession, Free
  <2>3. PICK m : m = Msg("HELLO", 1, [epoch |-> gEpoch, version |-> gVer])
    OBVIOUS
  <2>4. m.kind = "HELLO"
    BY <2>3 DEF Msg
  <2>5. sess'[p] = y /\ toGw'[p] = <<>> /\ toHub'[p] = <<m>>
    BY <1>4, <2>1, <2>3 DEF Dialled
  <2>6. \A n \in 1..Len(<<m>>) : <<m>>[n] = m
    OBVIOUS
  <2>7. Lacks(<<>>, PushKinds) /\ Single(<<>>, PushKinds)
    BY DEF Lacks, Single
  <2>8. Lacks(<<m>>, Replies) /\ Single(<<m>>, Replies)
    BY <2>4, <2>6 DEF Lacks, Single, Replies
  <2> QED
    BY <2>2, <2>5, <2>7, <2>8 DEF FlightView, Flight
<1> QED
  BY <1>1, <1>2, <1>3, <1>4, SendFlight, RecvFlight, ClientFlight, Views DEF View

----------------------------------------------------------------------------
(* The session has an error to report, a closed socket, or somebody who is *)
(* about to close it. Its state alone does not tell: sendCurrent may set a *)
(* closing one back to SYNC, and even write once more.                     *)
Doomed(x, b) == x.err \/ ~b \/ x.shut # {}
(* The session has listed its elders.                                      *)
Past == {"replacing", "loop"}
(* A session past its hello is known, and a closing one is doomed, or its  *)
(* receiving loop is about to end.                                         *)
Guarded(x, b) ==
  /\ x.recv \in Past \cup {"replace"} => x.known
  /\ x.st = "CLOSING" => Doomed(x, b) \/ x.recv \in {"fail", "done"}
(* The inductive invariant behind OneServing: of two sessions that have    *)
(* listed their elders one is doomed, or is on the list of the other, who  *)
(* has not yet entered its loop.                                           *)
ServeSound ==
  /\ \A p \in Conns : Guarded(sess[p], hubOpen[p])
  /\ \A s, p \in Conns : s \in sess[p].due => sess[s].recv = "replacing"
  /\ \A s, p \in Conns :
       s # p /\ sess[s].recv \in Past /\ sess[p].recv \in Past =>
         \/ Doomed(sess[s], hubOpen[s]) \/ Doomed(sess[p], hubOpen[p])
         \/ s \in sess[p].due \/ p \in sess[s].due
(* A step that lists no elders, leaves the doomed doomed and takes nobody  *)
(* off the list but to doom him.                                           *)
Turns(x, b, y, c) ==
  /\ Guarded(y, c)
  /\ y.recv \in Past =>
       /\ x.recv \in Past /\ (Doomed(x, b) => Doomed(y, c))
       /\ \A s \in x.due : s = None \/ s \in y.due \/ Doomed(y, c)

(* So does a step that keeps the error and the lists, whatever it does to  *)
(* the state but to close it.                                              *)
LEMMA SameTurns ==
  ASSUME NEW x, NEW y, NEW b, NEW c, Guarded(x, b), y.recv = x.recv, y.known = x.known,
         y.err = x.err, y.due = x.due, y.shut = x.shut,
         c => b, y.st = "CLOSING" => x.st = "CLOSING"
  PROVE  Turns(x, b, y, c)
BY DEF Guarded, Turns, Doomed

(* So does a loop that ends.                                               *)
LEMMA StopsTurn ==
  ASSUME NEW x \in Sessions, NEW y \in Sessions, NEW b, Guarded(x, b), Stops(x, y)
  PROVE  Turns(x, b, y, FALSE) /\ y.due \subseteq x.due
         /\ (y.recv = x.recv \/ (x.recv = "fail" /\ y.recv = "done"))
<1>1. CASE y = ClosedSession
  <2>1. ClosedSession.recv = "done" /\ ClosedSession.st = "CLOSED" /\ ClosedSession.due = {}
    BY DEF ClosedSession, NewSession
  <2> QED
    BY <1>1, <2>1 DEF Turns, Guarded, Past, Stops
<1>2. CASE y # ClosedSession
  <2>1. /\ y.known = x.known /\ y.due = x.due
        /\ y.recv = x.recv \/ (x.recv = "fail" /\ y.recv = "done")
    BY <1>2 DEF Stops, Same, Fields
  <2> QED
    BY <2>1 DEF Turns, Guarded, Doomed, Past
<1> QED
  BY <1>1, <1>2

(* So does the sending loop, also where it writes over CLOSING. It leaves  *)
(* the lists and the place of the receiving loop alone.                    *)
LEMMA SendTurns ==
  ASSUME BaseInv, NEW s \in Conns, SendKinds(s), Guarded(sess[s], hubOpen[s])
  PROVE  /\ Turns(sess[s], hubOpen[s], sess'[s], hubOpen'[s])
         /\ sess'[s].due \subseteq sess[s].due
         /\ sess[s].recv = "replacing" => sess'[s].recv = "replacing"
<1>0. PICK x \in Sessions, y \in Sessions : x = sess[s] /\ y = sess'[s]
  BY TypedIs DEF SendKinds, Typed
<1>1. PICK b, c : b = hubOpen[s] /\ c = hubOpen'[s]
  OBVIOUS
<1>2. CASE Quits(s)
  <2>1. Stops(x, y) /\ c = FALSE
    BY <1>0, <1>1, <1>2 DEF Quits
  <2> QED
    BY <1>0, <1>1, <2>1, StopsTurn
<1>a. ASSUME /\ y.recv = x.recv /\ y.known = x.known /\ y.err = x.err /\ y.due = x.due
             /\ y.shut = x.shut,
             y.st = "CLOSING" => x.st = "CLOSING", c = b
      PROVE  /\ Turns(x, b, y, c) /\ y.due \subseteq x.due
             /\ x.recv = "replacing" => y.recv = "replacing"
  BY <1>0, <1>1, <1>a, SameTurns
<1>3. CASE Silent(s) /\ (Wakes(x, y) \/ Decides(x, y) \/ Waits(x, y) \/ Begins(x, y, out'[s]))
  <2>1. /\ y.recv = x.recv /\ y.known = x.known /\ y.err = x.err /\ y.due = x.due
        /\ y.shut = x.shut
    BY <1>3 DEF Wakes, Decides, Waits, Begins, Same, Fields
  <2>2. y.st = "CLOSING" => x.st = "CLOSING"
    BY <1>3 DEF Wakes, Decides, Waits, Begins, Same, Fields
  <2>3. c = b
    BY <1>1, <1>3 DEF Silent
  <2> QED
    BY <1>0, <1>1, <1>a, <2>1, <2>2, <2>3
<1>4. CASE /\ Silent(s)
           /\ \/ Agrees(x, y, out[s], ver) \/ Fetches(x, y) \/ Marks(x, y, out[s])
              \/ Settles(x, y, out[s]) \/ Passes(x, y)
  <2>1. /\ y.recv = x.recv /\ y.known = x.known /\ y.err = x.err /\ y.due = x.due
        /\ y.shut = x.shut
    BY <1>4 DEF Agrees, Fetches, Marks, Settles, Passes, Same, Fields
  <2>2. y.st = "CLOSING" => x.st = "CLOSING"
    BY <1>4 DEF Agrees, Fetches, Marks, Settles, Passes, Same, Fields
  <2>3. c = b
    BY <1>1, <1>4 DEF Silent
  <2> QED
    BY <1>0, <1>1, <1>a, <2>1, <2>2, <2>3
<1>5. CASE /\ Greets(x, y) \/ Emits(x, y) \/ Pings(x, y)
           /\ \E m : Says(s, m)
  <2>1. /\ y.recv = x.recv /\ y.known = x.known /\ y.err = x.err /\ y.due = x.due
        /\ y.shut = x.shut /\ y.st = x.st
    BY <1>5 DEF Greets, Emits, Pings, Same, Fields
  <2>2. c = b
    BY <1>1, <1>5 DEF Says
  <2> QED
    BY <1>0, <1>1, <1>a, <2>1, <2>2
<1> QED
  BY <1>0, <1>2, <1>3, <1>4, <1>5 DEF SendKinds

(* So does the receiving loop. It enters its loop only when nobody is on   *)
(* its list any more.                                                      *)
LEMMA RecvTurns ==
  ASSUME BaseInv, NEW s \in Conns, RecvKinds(s), Guarded(sess[s], hubOpen[s])
  PROVE  /\ Turns(sess[s], hubOpen[s], sess'[s], hubOpen'[s])
         /\ sess'[s].due \subseteq sess[s].due
         /\ \/ sess[s].recv = "replacing" => sess'[s].recv = "replacing"
            \/ \A p \in Conns : s \notin sess[p].due
<1>0. PICK x \in Sessions, y \in Sessions : x = sess[s] /\ y = sess'[s]
  BY TypedIs DEF RecvKinds, Typed
<1>1. PICK b, c : b = hubOpen[s] /\ c = hubOpen'[s]
  OBVIOUS
<1>2. CASE Quits(s)
  <2>1. Stops(x, y) /\ c = FALSE
    BY <1>0, <1>1, <1>2 DEF Quits
  <2> QED
    BY <1>0, <1>1, <2>1, StopsTurn
<1>3. CASE Silent(s) /\ Hears(x, y, ver)
  <2>1. /\ y.recv = "bind" /\ y.st = x.st /\ y.err = x.err /\ c = b /\ x.recv = "hello"
        /\ y.due = x.due /\ y.shut = x.shut
    BY <1>1, <1>3 DEF Hears, Same, Fields, Silent
  <2> QED
    BY <1>0, <1>1, <2>1 DEF Turns, Guarded, Doomed, Past
<1>4. CASE Takes(s) /\ Binds(x, y, Head(toHub[s]).body, epoch)
  <2>1. /\ y.recv = "replace" /\ y.known /\ y.st = x.st /\ y.err = x.err /\ c = b
        /\ x.recv = "bind" /\ y.due = x.due /\ y.shut = x.shut
    BY <1>1, <1>4 DEF Binds, Same, Fields, Takes
  <2> QED
    BY <1>0, <1>1, <2>1 DEF Turns, Guarded, Doomed, Past
<1>5. CASE /\ Takes(s)
           /\ \/ Acks(x, y, Head(toHub[s]), epoch) \/ Asks(x, y, Head(toHub[s]))
              \/ Pongs(x, y, Head(toHub[s]))
  <2>1. /\ y.recv = x.recv /\ y.known = x.known /\ y.err = x.err /\ y.due = x.due
        /\ y.shut = x.shut
    BY <1>5 DEF Acks, Asks, Pongs, Same, Fields
  <2>2. y.st = "CLOSING" => x.st = "CLOSING"
    BY <1>5 DEF Acks, Asks, Pongs, Same, Fields
  <2>3. c = b
    BY <1>1, <1>5 DEF Takes
  <2> QED
    BY <1>0, <1>1, <2>1, <2>2, <2>3, SameTurns
<1>6. CASE Refuses(x, y)
  <2>1. x.recv = "loop" /\ y.recv = x.recv /\ y.known = x.known /\ y.err /\ y.due = x.due
    BY <1>6 DEF Refuses, Same, Fields
  <2> QED
    BY <1>0, <1>1, <2>1 DEF Turns, Guarded, Doomed, Past
<1>7. CASE Leaves(x, y) /\ hubOpen'[s] = (hubOpen[s] /\ sess[s].send # "done")
  <2>1. y.recv = "done" /\ x.recv = "loop" /\ y.due \subseteq x.due
    BY <1>7 DEF Leaves, Same, Fields, ClosedSession, NewSession
  <2> QED
    BY <1>0, <1>1, <2>1 DEF Turns, Guarded, Past
<1>8. CASE Silent(s) /\ Nudges(x, y)
  <2>1. /\ y.recv = x.recv /\ y.known = x.known /\ y.err = x.err /\ y.st = x.st /\ c = b
        /\ y.due = x.due /\ y.shut = x.shut
    BY <1>1, <1>8 DEF Nudges, Same, Fields, Silent
  <2> QED
    BY <1>0, <1>1, <2>1, SameTurns
<1>9. CASE Silent(s) /\ Falters(x, y)
  <2>1. y.recv = "fail" /\ x.recv \in {"hello", "loop"} /\ y.due = x.due
    BY <1>9 DEF Falters, Same, Fields
  <2> QED
    BY <1>0, <1>1, <2>1 DEF Turns, Guarded, Past
<1>10. CASE Silent(s) /\ Serves(x, y) /\ \A p \in Conns : s \notin sess[p].due
  <2>1. /\ y.recv = "loop" /\ x.recv = "replacing" /\ y.known = x.known /\ y.err = x.err
        /\ y.st = x.st /\ c = b /\ y.due = x.due /\ y.shut = x.shut
    BY <1>1, <1>10 DEF Serves, Same, Fields, Silent
  <2> QED
    BY <1>0, <1>1, <1>10, <2>1 DEF Turns, Guarded, Doomed, Past
<1> QED
  BY <1>0, <1>2, <1>3, <1>4, <1>5, <1>6, <1>7, <1>8, <1>9, <1>10 DEF RecvKinds

(* So does a stopped session: who takes himself off its list closes it.    *)
LEMMA HaltTurns ==
  ASSUME BaseInv, NEW p \in Conns, Halted(p), Guarded(sess[p], hubOpen[p])
  PROVE  Turns(sess[p], hubOpen[p], sess'[p], hubOpen'[p]) /\ sess'[p].recv = sess[p].recv
<1>0. PICK x \in Sessions, y \in Sessions : x = sess[p] /\ y = sess'[p]
  BY TypedIs DEF Halted, Typed
<1>1. PICK b, c : b = hubOpen[p] /\ c = hubOpen'[p]
  OBVIOUS
<1>2. CASE y = x
  BY <1>0, <1>1, <1>2, SameTurns DEF Halted
<1>3. CASE y # x
  <2>1. y.recv = x.recv /\ y.known = x.known /\ y.err = x.err
    BY <1>0, <1>3 DEF Halted, Same, Fields
  <2>2. CASE c = b /\ Listed(x, y, draining')
    BY <1>0, <1>1, <2>1, <2>2 DEF Listed, Turns, Guarded, Doomed
  <2>3. CASE c = b /\ Yields(x, y)
    <3>1. PICK q \in x.due :
            /\ y.due = x.due \ {q}
            /\ \/ q = None /\ y.st = "DRAIN" /\ y.shut = x.shut
               \/ ~Shut(x) /\ y.st = "CLOSING" /\ y.shut = x.shut \cup {q}
               \/ x.st = "CLOSING" /\ y.st = "CLOSING" /\ y.shut = x.shut
      BY <2>3 DEF Yields
    <3>2. CASE q = None /\ y.st = "DRAIN" /\ y.shut = x.shut
      BY <1>0, <1>1, <2>1, <2>3, <3>1, <3>2 DEF Turns, Guarded, Doomed
    <3>3. CASE y.st = "CLOSING" /\ y.shut = x.shut \cup {q}
      <4>1. y.shut # {}
        BY <3>3
      <4> QED
        BY <1>0, <1>1, <2>1, <3>1, <4>1 DEF Turns, Guarded, Doomed
    <3>4. CASE x.st = "CLOSING" /\ y.st = "CLOSING" /\ y.shut = x.shut
      BY <1>0, <1>1, <2>1, <2>3, <3>1, <3>4 DEF Turns, Guarded, Doomed, Past
    <3> QED
      BY <3>1, <3>2, <3>3, <3>4
  <2>4. CASE c = b /\ Forced(x, y)
    <3>1. y.shut # {}
      BY <2>4 DEF Forced
    <3> QED
      BY <1>0, <1>1, <2>1, <3>1 DEF Turns, Guarded, Doomed
  <2>5. CASE ~c
    BY <1>0, <1>1, <2>1, <2>5 DEF Turns, Guarded, Doomed
  <2> QED
    BY <1>0, <1>1, <1>3, <2>2, <2>3, <2>4, <2>5 DEF Halted
<1> QED
  BY <1>2, <1>3

(* So does every step but the listing of elders.                           *)
LEMMA ServeTurns ==
  ASSUME BaseInv, SyncNext, NEW p \in Conns, Guarded(sess[p], hubOpen[p])
  PROVE  \/ Turns(sess[p], hubOpen[p], sess'[p], hubOpen'[p])
         \/ Replaced(p) /\ Guarded(sess'[p], hubOpen'[p])
<1>1. CASE Idles(p) \/ Drifts(p) \/ Apart(p) \/ Client(p)
  <2>1. sess'[p] = sess[p] /\ hubOpen'[p] = hubOpen[p]
    BY <1>1 DEF Idles, Drifts, Quiet, Apart, Client
  <2> QED
    BY <2>1 DEF Turns
<1>2. CASE Hurries(p)
  <2>1. /\ hubOpen'[p] = hubOpen[p]
        /\ (sess'[p] = sess[p] \/ Same(sess[p], sess'[p], {"pushDue", "dirty", "token"}))
    BY <1>2 DEF Hurries, Roused, Silent
  <2>2. /\ sess'[p].recv = sess[p].recv /\ sess'[p].known = sess[p].known
        /\ sess'[p].err = sess[p].err /\ sess'[p].due = sess[p].due
        /\ sess'[p].st = sess[p].st /\ sess'[p].shut = sess[p].shut
    BY <2>1 DEF Same, Fields
  <2> QED
    BY <2>1, <2>2 DEF Turns, Guarded, Doomed
<1>3. CASE Reboot(p)
  BY <1>3 DEF Reboot, Rebooted, Turns, Guarded, Past, ClosedSession, NewSession
<1>4. CASE Dialled(p)
  BY <1>4 DEF Dialled, Turns, Guarded, Past, NewSession
<1>5. CASE Replaced(p)
  <2>1. /\ sess[p].recv = "replace" /\ sess'[p].known = sess[p].known /\ sess'[p].err = sess[p].err
        /\ sess'[p].st = sess[p].st /\ hubOpen'[p] = hubOpen[p] /\ sess'[p].shut = sess[p].shut
    BY <1>5 DEF Replaced, Replaces, Same, Fields, Silent
  <2> QED
    BY <1>5, <2>1 DEF Guarded, Doomed, Past
<1>6. CASE Halts(p)
  BY <1>6, HaltTurns DEF Halts
<1> QED
  BY <1>1, <1>2, <1>3, <1>4, <1>5, <1>6, SendTurns, RecvTurns, Views DEF View

(* A session is put on a list by the one who replaces his elders only, and *)
(* he stays where he is while anybody is on it.                            *)
LEMMA ListStays ==
  ASSUME BaseInv, SyncNext, NEW s \in Conns, NEW p \in Conns, s \in sess'[p].due,
         \A q \in Conns : Guarded(sess[q], hubOpen[q]), s \in sess[p].due => sess[s].recv = "replacing"
  PROVE  sess'[s].recv = "replacing"
<1>0. s # None /\ None \notin Conns
  BY SyncAssumption
<1>c. ClosedSession.due = {} /\ NewSession("HELLO", "wait").due = {}
  BY DEF ClosedSession, NewSession
<1>1. ASSUME NEW r \in Conns, Alone(r), SendKinds(r) \/ RecvKinds(r)
      PROVE  sess'[s].recv = "replacing"
  <2>1. \A q \in Conns \ {r} : sess'[q] = sess[q]
    BY <1>1 DEF Alone, Quiet
  <2>2. /\ sess'[r].due \subseteq sess[r].due
        /\ \/ sess[r].recv = "replacing" => sess'[r].recv = "replacing"
           \/ \A q \in Conns : r \notin sess[q].due
    BY <1>1, SendTurns, RecvTurns
  <2>3. s \in sess[p].due
    BY <2>1, <2>2
  <2> QED
    BY <2>1, <2>2, <2>3
<1>2. ASSUME NEW r \in Conns, Replaced(r)
      PROVE  sess'[s].recv = "replacing"
  <2>1. /\ sess'[r].due = sess[r].due /\ sess[r].recv = "replace" /\ sess'[r].recv = "replacing"
    BY <1>2 DEF Replaced, Replaces, Same, Fields
  <2>2. \A q \in Conns \ {r} : Halted(q) /\ sess'[q].due \subseteq sess[q].due \cup {r}
    BY <1>2 DEF Replaced
  <2>3. CASE s = r
    BY <2>1, <2>3
  <2>4. CASE s # r
    <3>1. s \in sess[p].due
      BY <2>1, <2>2, <2>4
    <3>2. sess'[s].recv = sess[s].recv
      BY <2>2, <2>4, HaltTurns
    <3> QED
      BY <3>1, <3>2
  <2> QED
    BY <2>3, <2>4
<1>3. CASE HaltAll
  <2>1. s \in sess[p].due /\ Halted(s)
    BY <1>0, <1>3 DEF HaltAll
  <2> QED
    BY <2>1, HaltTurns
<1>4. CASE RouseAll
  <2>1. \A q \in Conns : sess'[q].due = sess[q].due /\ sess'[q].recv = sess[q].recv
    BY <1>4 DEF RouseAll, Roused, Same, Fields
  <2> QED
    BY <2>1
<1>5. CASE RebootAll
  BY <1>5, <1>c DEF RebootAll, Rebooted
<1>6. ASSUME NEW r \in Conns, Dialled(r)
      PROVE  sess'[s].recv = "replacing"
  <2>1. \A q \in Conns \ {r} : sess'[q] = sess[q]
    BY <1>6 DEF Dialled, Quiet
  <2>2. sess'[r].due = {} /\ sess[r].recv = "done"
    BY <1>6, <1>c DEF Dialled
  <2> QED
    BY <2>1, <2>2
<1>7. CASE Edited \/ GwDies \/ GwFades \/ \E r \in Conns : GwMoves(r)
  <2>1. sess' = sess
    BY <1>7 DEF Edited, GwDies, GwFades, GwMoves, HubStill
  <2> QED
    BY <2>1
<1> QED
  BY <1>1, <1>2, <1>3, <1>4, <1>5, <1>6, <1>7, Kinds

(* Every step keeps ServeSound: who lists his elders lists every other     *)
(* session that is past its hello.                                         *)
LEMMA ServeStays ==
  ASSUME BaseInv, SyncNext, ServeSound
  PROVE  ServeSound'
<1>0. None \notin Conns
  BY SyncAssumption
<1>1. ASSUME NEW p \in Conns
      PROVE  /\ Guarded(sess[p], hubOpen[p])
             /\ \/ Turns(sess[p], hubOpen[p], sess'[p], hubOpen'[p])
                \/ Replaced(p) /\ Guarded(sess'[p], hubOpen'[p])
  <2>1. Guarded(sess[p], hubOpen[p])
    BY DEF ServeSound
  <2> QED
    BY <2>1, ServeTurns
<1>2. ASSUME NEW s \in Conns, NEW p \in Conns, s # p, Replaced(s), sess'[p].recv \in Past
      PROVE  s \in sess'[p].due
  <2>1. Halted(p) /\ (sess[p].known => s \in sess'[p].due)
    BY <1>2 DEF Replaced
  <2>2. Turns(sess[p], hubOpen[p], sess'[p], hubOpen'[p])
    BY <1>1, <2>1, HaltTurns
  <2>3. sess[p].known
    BY <1>1, <1>2, <2>2 DEF Turns, Guarded
  <2> QED
    BY <2>1, <2>3
<1>3. ASSUME NEW s \in Conns, NEW p \in Conns, s # p, sess'[s].recv \in Past, sess'[p].recv \in Past
      PROVE  \/ Doomed(sess'[s], hubOpen'[s]) \/ Doomed(sess'[p], hubOpen'[p])
             \/ s \in sess'[p].due \/ p \in sess'[s].due
  <2>1. CASE Replaced(s) \/ Replaced(p)
    BY <1>2, <1>3, <2>1
  <2>2. CASE ~Replaced(s) /\ ~Replaced(p)
    <3>1. /\ Turns(sess[s], hubOpen[s], sess'[s], hubOpen'[s])
          /\ Turns(sess[p], hubOpen[p], sess'[p], hubOpen'[p])
      BY <1>1, <2>2
    <3>2. \/ Doomed(sess[s], hubOpen[s]) \/ Doomed(sess[p], hubOpen[p])
          \/ s \in sess[p].due \/ p \in sess[s].due
      BY <1>3, <3>1 DEF Turns, ServeSound
    <3> QED
      BY <1>0, <1>3, <3>1, <3>2 DEF Turns
  <2> QED
    BY <2>1, <2>2
<1>4. \A p \in Conns : Guarded(sess'[p], hubOpen'[p])
  BY <1>1 DEF Turns
<1>5. ASSUME NEW s \in Conns, NEW p \in Conns, s \in sess'[p].due
      PROVE  sess'[s].recv = "replacing"
  BY <1>5, ListStays DEF ServeSound
<1> QED
  BY <1>3, <1>4, <1>5 DEF ServeSound

----------------------------------------------------------------------------
(* The client is about to hang up: it is still in HELLO and the next       *)
(* message is, or will be, a push. This is what a publish does that        *)
(* overtakes the hello.                                                    *)
Spoiled(x, o, g, cl) ==
  /\ cl = "HELLO"
  /\ IF g # <<>> THEN Head(g).kind \in PushKinds
     ELSE x.send \in {"mark", "emit"} \/ (x.send = "push" /\ ~o.once)
(* What was announced has been sent.                                       *)
UpTo(x, an) == x.sentOnce /\ x.sentVer >= an
(* Before the binding nothing was sent; a publish then is due, or is in    *)
(* the target.                                                             *)
Unbound(x, g, an) ==
  /\ x.st = "HELLO" /\ x.sync = 0 /\ ~x.sentOnce /\ g = <<>>
  /\ (x.send = "wait" /\ (x.token => x.pushDue)) \/ (x.send = "cur" /\ x.pushDue)
  /\ x.recv = "bind" => x.target >= an \/ x.pushDue
(* With no push in flight: what was announced was sent, or is due, or      *)
(* READY is about to compare with the target.                              *)
Idle(x, an) ==
  x.sync = 0 /\ x.send \notin {"push", "mark", "emit", "sent"} =>
    \/ UpTo(x, an) \/ x.pushDue
    \/ x.st = "HELLO" /\ x.target >= an /\ (x.ready \/ x.send = "readied")
(* With a push in flight: it is of what was announced, or the session is   *)
(* dirty or due.                                                           *)
Pending(x, an) ==
  x.sync # 0 /\ x.send \notin {"emit", "sent"} =>
    /\ x.sentOnce /\ x.sentVer = x.syncVer
    /\ x.syncVer >= an \/ x.dirty \/ x.pushDue
(* Between the sections of sendCurrent the same holds of the push it       *)
(* holds.                                                                  *)
Pushing(x, o, an) ==
  /\ x.send \in {"emit", "sent"} =>
       /\ x.sync # 0 => x.syncVer = o.version
       /\ o.version >= an \/ x.pushDue \/ (x.sync # 0 /\ x.dirty)
  /\ x.send = "push" => o.from = x.sentVer /\ (o.once <=> x.sentOnce)
  /\ x.send = "mark" => o.version >= an \/ x.pushDue
(* A session that is due a push has its token, or its loop is on the way   *)
(* to look.                                                                *)
Nudged(x) == x.pushDue /\ x.send \notin {"ready", "readied", "cur"} => x.token
(* No announced change is lost: unless the link is spoiled, one of these   *)
(* accounts for it.                                                        *)
Wake(x, o, g, cl, an) ==
  \/ Spoiled(x, o, g, cl)
  \/ Opening(x) /\ Unbound(x, g, an) /\ Nudged(x)
  \/ ~Opening(x) /\ Idle(x, an) /\ Pending(x, an) /\ Pushing(x, o, an) /\ Nudged(x)

(* A spoiled link stays so as long as the hub only adds to the queue.      *)
LEMMA SpoiledStays ==
  ASSUME NEW x, NEW y, NEW o, NEW u, NEW g, NEW f, NEW cl, Spoiled(x, o, g, cl),
         x.send \notin {"push", "mark", "emit"}, g # <<>> => f # <<>> /\ Head(f) = Head(g)
  PROVE  Spoiled(y, u, f, cl)
BY DEF Spoiled

(* Taking the token keeps Wake: the loop is on the way to look.            *)
LEMMA WakesWake ==
  ASSUME NEW x \in Sessions, NEW y \in Sessions, NEW o, NEW g, NEW cl, NEW an,
         Wakes(x, y), Unready(x), Wake(x, o, g, cl, an)
  PROVE  Wake(y, o, g, cl, an)
<1>1. /\ x.send = "wait" /\ x.token /\ y.send = IF x.ready THEN "ready" ELSE "cur"
      /\ y.recv = x.recv /\ y.st = x.st /\ y.ready = x.ready /\ y.target = x.target
      /\ y.sync = x.sync
      /\ y.syncVer = x.syncVer /\ y.sentVer = x.sentVer /\ y.sentOnce = x.sentOnce
      /\ y.pushDue = x.pushDue /\ y.dirty = x.dirty
  BY DEF Wakes, Same, Fields
<1>2. CASE Spoiled(x, o, g, cl)
  BY <1>1, <1>2, SpoiledStays DEF Wake
<1>3. CASE Opening(x) /\ Unbound(x, g, an)
  <2>1. ~x.ready /\ Opening(y)
    BY <1>1, <1>3 DEF Unready, Opening
  <2> QED
    BY <1>1, <1>3, <2>1 DEF Unbound, Nudged, Wake
<1>4. CASE ~Opening(x) /\ Idle(x, an) /\ Pending(x, an)
  <2>1. ~Opening(y)
    BY <1>1, <1>4 DEF Opening
  <2> QED
    BY <1>1, <1>4, <2>1 DEF Idle, Pending, UpTo, Pushing, Nudged, Wake
<1> QED
  BY <1>2, <1>3, <1>4 DEF Wake

(* So does the decision after READY: a gateway at the target is up to      *)
(* date, another one is due.                                               *)
LEMMA DecidesWake ==
  ASSUME NEW x \in Sessions, NEW y \in Sessions, NEW o, NEW g, NEW cl, NEW an \in Nat,
         Decides(x, y), ~Late(x), Unready(x), Wake(x, o, g, cl, an)
  PROVE  Wake(y, o, g, cl, an)
<1>1. /\ x.send = "readied" /\ y.send = "cur"
      /\ y.recv = x.recv /\ y.sync = x.sync /\ y.target = x.target
      /\ y.syncVer = x.syncVer /\ y.sentVer = x.sentVer /\ y.sentOnce = x.sentOnce
      /\ y.dirty = x.dirty
      /\ (x.sentOnce /\ x.sentVer = x.target /\ y.pushDue = x.pushDue) \/ y.pushDue
  BY DEF Decides, Same, Fields
<1>2. CASE Spoiled(x, o, g, cl)
  BY <1>1, <1>2, SpoiledStays DEF Wake
<1>3. ~Opening(x) /\ ~Opening(y)
  BY <1>1 DEF Unready, Opening
<1>4. CASE Idle(x, an) /\ Pending(x, an)
  <2>1. Idle(y, an)
    BY <1>1, <1>4 DEF Idle, UpTo
  <2>2. Pending(y, an)
    BY <1>1, <1>4 DEF Pending
  <2> QED
    BY <1>1, <1>3, <2>1, <2>2 DEF Pushing, Nudged, Wake
<1> QED
  BY <1>2, <1>3, <1>4 DEF Wake

(* So does returning early: what is due becomes dirty while a push is in   *)
(* flight.                                                                 *)
LEMMA WaitsWake ==
  ASSUME NEW x \in Sessions, NEW y \in Sessions, NEW o, NEW g, NEW cl, NEW an,
         Waits(x, y), ~Late(x), Wake(x, o, g, cl, an)
  PROVE  Wake(y, o, g, cl, an)
<1>1. /\ x.send = "cur" /\ y.send = "ping" /\ y.st = x.st /\ y.ready = x.ready
      /\ y.target = x.target
      /\ y.recv = x.recv /\ y.sync = x.sync
      /\ y.syncVer = x.syncVer /\ y.sentVer = x.sentVer /\ y.sentOnce = x.sentOnce /\ ~y.pushDue
      /\ (x.sync # 0 /\ (y.dirty <=> x.dirty \/ x.pushDue)) \/ (x.sync = 0 /\ ~x.pushDue)
  <2>1. (x.sync # 0 /\ (y.dirty <=> x.dirty \/ x.pushDue)) \/ (x.sync = 0 /\ ~x.pushDue)
    BY DEF Waits
  <2>2. /\ x.send = "cur" /\ y.send = "ping" /\ y.st = x.st /\ y.ready = x.ready
        /\ y.target = x.target
        /\ y.recv = x.recv /\ y.sync = x.sync
        /\ y.syncVer = x.syncVer /\ y.sentVer = x.sentVer /\ y.sentOnce = x.sentOnce
    BY DEF Waits, Same, Fields
  <2>3. ~y.pushDue
    BY DEF Waits
  <2> QED
    BY <2>1, <2>2, <2>3
<1>2. CASE Spoiled(x, o, g, cl)
  BY <1>1, <1>2, SpoiledStays DEF Wake
<1>3. ~(Opening(x) /\ Unbound(x, g, an))
  BY <1>1 DEF Unbound
<1>4. CASE ~Opening(x) /\ Idle(x, an) /\ Pending(x, an)
  <2>1. ~Opening(y)
    BY <1>1, <1>4 DEF Opening
  <2>2. Idle(y, an)
    BY <1>1, <1>4 DEF Idle, UpTo
  <2>3. Pending(y, an)
    BY <1>1, <1>4 DEF Pending
  <2> QED
    BY <1>1, <2>1, <2>2, <2>3 DEF Pushing, Nudged, Wake
<1> QED
  BY <1>2, <1>3, <1>4 DEF Wake

(* So does taking the due push.                                            *)
LEMMA BeginsWake ==
  ASSUME NEW x \in Sessions, NEW y \in Sessions, NEW o, NEW u, NEW g, NEW cl, NEW an,
         Begins(x, y, u), Opening(x) => cl = "HELLO", Wake(x, o, g, cl, an)
  PROVE  Wake(y, u, g, cl, an)
<1>1. /\ x.send = "cur" /\ y.send = "push" /\ x.sync = 0 /\ y.sync = x.sync /\ ~y.pushDue
      /\ y.recv = x.recv /\ y.sentVer = x.sentVer /\ (y.sentOnce => x.sentOnce)
      /\ u.from = x.sentVer /\ (u.once <=> y.sentOnce)
  BY DEF Begins, Same, Fields
<1>2. CASE Spoiled(x, o, g, cl)
  BY <1>1, <1>2, SpoiledStays DEF Wake
<1>3. CASE Opening(x) /\ Unbound(x, g, an)
  BY <1>1, <1>3 DEF Unbound, Spoiled, Wake
<1>4. CASE ~Opening(x)
  <2>1. ~Opening(y)
    BY <1>1, <1>4 DEF Opening
  <2> QED
    BY <1>1, <2>1 DEF Idle, Pending, Pushing, Nudged, Wake
<1> QED
  BY <1>2, <1>3, <1>4 DEF Wake

(* So does finding that nothing changed.                                   *)
LEMMA AgreesWake ==
  ASSUME NEW x \in Sessions, NEW y \in Sessions, NEW o, NEW u, NEW g, NEW cl, NEW an \in Nat,
         NEW ve \in Nat,
         an <= ve, Agrees(x, y, o, ve), Free(x), Wake(x, o, g, cl, an)
  PROVE  Wake(y, u, g, cl, an)
<1>1. /\ x.send = "push" /\ y.send = "ping" /\ o.once /\ o.from = ve /\ y.sync = x.sync
      /\ x.sync = 0
      /\ y.recv = x.recv /\ y.sentVer = x.sentVer /\ y.sentOnce = x.sentOnce
      /\ y.pushDue = x.pushDue /\ y.token = x.token
  BY DEF Agrees, Same, Fields, Free
<1>2. CASE Spoiled(x, o, g, cl)
  BY <1>1, <1>2 DEF Wake, Spoiled
<1>3. ~(Opening(x) /\ Unbound(x, g, an))
  BY <1>1 DEF Unbound
<1>4. CASE ~Opening(x) /\ Pushing(x, o, an) /\ Nudged(x)
  <2>1. ~Opening(y)
    BY <1>1, <1>4 DEF Opening
  <2>2. x.sentOnce /\ x.sentVer = ve
    BY <1>1, <1>4 DEF Pushing
  <2>3. Idle(y, an)
    BY <1>1, <2>2 DEF Idle, UpTo
  <2>4. Nudged(y)
    BY <1>1, <1>4 DEF Nudged
  <2> QED
    BY <1>1, <2>1, <2>3, <2>4 DEF Pending, Pushing, Wake
<1> QED
  BY <1>2, <1>3, <1>4 DEF Wake

(* So does building the push, which is of the current version.             *)
LEMMA FetchesWake ==
  ASSUME NEW x \in Sessions, NEW y \in Sessions, NEW o, NEW u, NEW g, NEW cl, NEW an \in Nat,
         u.version >= an, Fetches(x, y), Free(x), Wake(x, o, g, cl, an)
  PROVE  Wake(y, u, g, cl, an)
<1>1. /\ x.send = "push" /\ y.send = "mark" /\ y.sync = x.sync /\ x.sync = 0
      /\ y.recv = x.recv /\ y.pushDue = x.pushDue /\ y.token = x.token
  BY DEF Fetches, Same, Fields, Free
<1>2. CASE Spoiled(x, o, g, cl)
  BY <1>1, <1>2 DEF Wake, Spoiled
<1>3. ~(Opening(x) /\ Unbound(x, g, an))
  BY <1>1 DEF Unbound
<1>4. CASE ~Opening(x) /\ Nudged(x)
  <2>1. ~Opening(y) /\ Nudged(y)
    BY <1>1, <1>4 DEF Opening, Nudged
  <2> QED
    BY <1>1, <2>1 DEF Idle, Pending, Pushing, Wake
<1> QED
  BY <1>2, <1>3, <1>4 DEF Wake

(* So does noting the version as sent, before or after its answer.         *)
LEMMA SettlesWake ==
  ASSUME NEW x \in Sessions, NEW y \in Sessions, NEW o, NEW u, NEW g, NEW cl, NEW an,
         Settles(x, y, o), Wake(x, o, g, cl, an)
  PROVE  Wake(y, u, g, cl, an)
<1>1. /\ x.send = "sent" /\ y.send = "ping" /\ y.sync = x.sync /\ y.sentVer = o.version
      /\ y.sentOnce
      /\ y.recv = x.recv /\ y.pushDue = x.pushDue /\ y.token = x.token /\ y.dirty = x.dirty
      /\ y.syncVer = x.syncVer
  BY DEF Settles, Same, Fields
<1>2. CASE Spoiled(x, o, g, cl)
  BY <1>1, <1>2, SpoiledStays DEF Wake
<1>3. ~(Opening(x) /\ Unbound(x, g, an))
  BY <1>1 DEF Unbound
<1>4. CASE ~Opening(x) /\ Pushing(x, o, an) /\ Nudged(x)
  <2>1. ~Opening(y) /\ Nudged(y)
    BY <1>1, <1>4 DEF Opening, Nudged
  <2>2. Idle(y, an)
    BY <1>1, <1>4 DEF Idle, UpTo, Pushing
  <2>3. Pending(y, an)
    BY <1>1, <1>4 DEF Pending, Pushing
  <2> QED
    BY <1>1, <2>1, <2>2, <2>3 DEF Pushing, Wake
<1> QED
  BY <1>2, <1>3, <1>4 DEF Wake

(* Equal in all that Wake looks at, except token and the loop.             *)
Alike(x, y) ==
  /\ y.recv = x.recv /\ y.st = x.st /\ y.ready = x.ready /\ y.target = x.target /\ y.sync = x.sync
  /\ y.syncVer = x.syncVer /\ y.sentVer = x.sentVer /\ y.sentOnce = x.sentOnce
  /\ y.pushDue = x.pushDue /\ y.dirty = x.dirty

(* So do PING and BYE.                                                     *)
LEMMA PassesWake ==
  ASSUME NEW x \in Sessions, NEW y \in Sessions, NEW o, NEW g, NEW f, NEW cl, NEW an,
         Alike(x, y), x.send \in {"ping", "bye"}, y.send \in {"bye", "wait"}, y.token = x.token,
         g # <<>> => f # <<>> /\ Head(f) = Head(g), Wake(x, o, g, cl, an)
  PROVE  Wake(y, o, f, cl, an)
<1>2. CASE Spoiled(x, o, g, cl)
  BY <1>2, SpoiledStays DEF Wake
<1>3. ~(Opening(x) /\ Unbound(x, g, an))
  BY DEF Unbound
<1>4. CASE ~Opening(x) /\ Idle(x, an) /\ Pending(x, an) /\ Nudged(x)
  <2>1. ~Opening(y) /\ Nudged(y)
    BY <1>4 DEF Opening, Nudged, Alike
  <2>2. Idle(y, an) /\ Pending(y, an)
    BY <1>4 DEF Idle, Pending, UpTo, Alike
  <2> QED
    BY <2>1, <2>2 DEF Pushing, Wake
<1> QED
  BY <1>2, <1>3, <1>4 DEF Wake

(* So does READY.                                                          *)
LEMMA GreetsWake ==
  ASSUME NEW x \in Sessions, NEW y \in Sessions, NEW o, NEW g, NEW f, NEW cl, NEW an,
         Greets(x, y), Unready(x), g # <<>> => f # <<>> /\ Head(f) = Head(g), Wake(x, o, g, cl, an)
  PROVE  Wake(y, o, f, cl, an)
<1>1. /\ x.send = "ready" /\ y.send = "readied"
      /\ y.recv = x.recv /\ y.st = x.st /\ y.target = x.target /\ y.sync = x.sync
      /\ y.syncVer = x.syncVer /\ y.sentVer = x.sentVer /\ y.sentOnce = x.sentOnce
      /\ y.pushDue = x.pushDue /\ y.dirty = x.dirty
  BY DEF Greets, Same, Fields
<1>2. CASE Spoiled(x, o, g, cl)
  BY <1>1, <1>2, SpoiledStays DEF Wake
<1>3. ~Opening(x) /\ ~Opening(y)
  BY <1>1 DEF Unready, Opening
<1>4. CASE Idle(x, an) /\ Pending(x, an)
  <2>2. Idle(y, an) /\ Pending(y, an)
    BY <1>1, <1>4 DEF Idle, Pending, UpTo
  <2> QED
    BY <1>1, <1>3, <2>2 DEF Pushing, Nudged, Wake
<1> QED
  BY <1>2, <1>3, <1>4 DEF Wake

(* So does marking the push: what became due since it was built is dirty   *)
(* now.                                                                    *)
LEMMA MarksWake ==
  ASSUME NEW x \in Sessions, NEW y \in Sessions, NEW o, NEW g, NEW cl, NEW an,
         Marks(x, y, o), Wake(x, o, g, cl, an)
  PROVE  Wake(y, o, g, cl, an)
<1>1. /\ x.send = "mark" /\ y.send = "emit" /\ y.sync # 0 /\ y.syncVer = o.version /\ ~y.pushDue
      /\ (y.dirty <=> x.dirty \/ x.pushDue) /\ y.recv = x.recv
  BY DEF Marks, Same, Fields, Sessions
<1>2. CASE Spoiled(x, o, g, cl)
  BY <1>1, <1>2 DEF Wake, Spoiled
<1>3. ~(Opening(x) /\ Unbound(x, g, an))
  BY <1>1 DEF Unbound
<1>4. CASE ~Opening(x) /\ Pushing(x, o, an)
  <2>1. ~Opening(y)
    BY <1>1, <1>4 DEF Opening
  <2> QED
    BY <1>1, <1>4, <2>1 DEF Idle, Pending, Pushing, Nudged, Wake
<1> QED
  BY <1>2, <1>3, <1>4 DEF Wake

(* So does the send of the push.                                           *)
LEMMA EmitsWake ==
  ASSUME NEW x \in Sessions, NEW y \in Sessions, NEW o, NEW g, NEW f, NEW cl, NEW an,
         Emits(x, y), g # <<>> => f # <<>> /\ Head(f) = Head(g),
         g = <<>> => f # <<>> /\ Head(f).kind \in PushKinds, Wake(x, o, g, cl, an)
  PROVE  Wake(y, o, f, cl, an)
<1>1. /\ x.send = "emit" /\ y.send = "sent" /\ y.sync = x.sync /\ y.syncVer = x.syncVer
      /\ y.pushDue = x.pushDue /\ y.dirty = x.dirty /\ y.recv = x.recv /\ y.token = x.token
  BY DEF Emits, Same, Fields
<1>2. CASE Spoiled(x, o, g, cl)
  BY <1>2 DEF Wake, Spoiled
<1>3. ~(Opening(x) /\ Unbound(x, g, an))
  BY <1>1 DEF Unbound
<1>4. CASE ~Opening(x) /\ Pushing(x, o, an) /\ Nudged(x)
  <2>1. ~Opening(y)
    BY <1>1, <1>4 DEF Opening
  <2> QED
    BY <1>1, <1>4, <2>1 DEF Idle, Pending, Pushing, Nudged, Wake
<1> QED
  BY <1>2, <1>3, <1>4 DEF Wake

(* So does a step that leaves the marks alone and takes no token.          *)
LEMMA LikeWakes ==
  ASSUME NEW x \in Sessions, NEW y \in Sessions, NEW o, NEW g, NEW cl, NEW an,
         Same(x, y, {"recv", "token", "pingDue", "ping", "due", "shut"}),
         Opening(x) => y.recv = x.recv /\ y.token = x.token, ~Opening(x) => ~Opening(y),
         x.token => y.token,
         Wake(x, o, g, cl, an)
  PROVE  Wake(y, o, g, cl, an)
<1>1. /\ y.send = x.send /\ y.st = x.st /\ y.ready = x.ready /\ y.target = x.target
      /\ y.sync = x.sync
      /\ y.syncVer = x.syncVer /\ y.sentVer = x.sentVer /\ y.sentOnce = x.sentOnce
      /\ y.pushDue = x.pushDue /\ y.dirty = x.dirty
  BY DEF Same, Fields
<1>2. CASE Spoiled(x, o, g, cl)
  BY <1>1, <1>2 DEF Wake, Spoiled
<1>3. CASE ~Opening(x) /\ Idle(x, an) /\ Pending(x, an) /\ Pushing(x, o, an) /\ Nudged(x)
  BY <1>1, <1>3 DEF Idle, UpTo, Pending, Pushing, Nudged, Wake
<1>4. CASE Opening(x) /\ Unbound(x, g, an) /\ Nudged(x)
  <2>1. Opening(y) /\ y.recv = x.recv /\ y.token = x.token
    BY <1>4 DEF Opening
  <2> QED
    BY <1>1, <1>4, <2>1 DEF Unbound, Nudged, Wake
<1> QED
  BY <1>2, <1>3, <1>4 DEF Wake

(* So does a valid hello: the target is at least what was announced.       *)
LEMMA HearsWake ==
  ASSUME NEW x \in Sessions, NEW y \in Sessions, NEW o, NEW g, NEW cl, NEW an, NEW ve,
         Hears(x, y, ve), ve >= an, Wake(x, o, g, cl, an)
  PROVE  Wake(y, o, g, cl, an)
<1>1. /\ x.recv = "hello" /\ y.recv = "bind" /\ y.target = ve
      /\ y.send = x.send /\ y.st = x.st /\ y.sync = x.sync
      /\ y.sentOnce = x.sentOnce /\ y.pushDue = x.pushDue /\ y.token = x.token
  BY DEF Hears, Same, Fields
<1>2. Opening(x) /\ Opening(y)
  BY <1>1 DEF Opening
<1>3. CASE Spoiled(x, o, g, cl)
  BY <1>1, <1>3 DEF Wake, Spoiled
<1>4. CASE Unbound(x, g, an) /\ Nudged(x)
  BY <1>1, <1>2, <1>4 DEF Unbound, Nudged, Wake
<1> QED
  BY <1>2, <1>3, <1>4 DEF Wake

(* So does the binding.                                                    *)
LEMMA BindsWake ==
  ASSUME NEW x \in Sessions, NEW y \in Sessions, NEW o, NEW g, NEW cl, NEW an, NEW m, NEW e,
         Binds(x, y, m, e), Wake(x, o, g, cl, an)
  PROVE  Wake(y, o, g, cl, an)
<1>1. /\ x.recv = "bind" /\ y.recv = "replace" /\ y.ready /\ y.target = x.target
      /\ y.send = x.send /\ y.st = x.st /\ y.sync = x.sync
      /\ y.pushDue = x.pushDue /\ y.token = x.token
  BY DEF Binds, Same, Fields
<1>2. Opening(x) /\ ~Opening(y)
  BY <1>1 DEF Opening
<1>3. CASE Spoiled(x, o, g, cl)
  BY <1>1, <1>3 DEF Wake, Spoiled
<1>4. CASE Unbound(x, g, an) /\ Nudged(x)
  <2>1. Idle(y, an)
    BY <1>1, <1>4 DEF Unbound, Idle
  <2>2. Pending(y, an) /\ Pushing(y, o, an) /\ Nudged(y)
    BY <1>1, <1>4 DEF Unbound, Pending, Pushing, Nudged
  <2> QED
    BY <1>2, <2>1, <2>2 DEF Wake
<1> QED
  BY <1>2, <1>3, <1>4 DEF Wake

(* So does an ACK: what is dirty becomes due, and the loop is woken.       *)
LEMMA AcksWake ==
  ASSUME NEW x \in Sessions, NEW y \in Sessions, NEW o, NEW g, NEW cl, NEW an, NEW m, NEW e,
         Acks(x, y, m, e), x.recv = "loop", Free(x), Wake(x, o, g, cl, an)
  PROVE  Wake(y, o, g, cl, an)
<1>1. /\ x.sync # 0 /\ y.sync = 0 /\ y.recv = x.recv /\ y.send = x.send
      /\ y.sentVer = x.sentVer /\ y.sentOnce = x.sentOnce /\ (y.pushDue <=> x.pushDue \/ x.dirty)
      /\ y.token
  BY DEF Acks, Same, Fields
<1>2. ~Opening(x) /\ ~Opening(y) /\ x.send \notin {"push", "mark"}
  BY <1>1 DEF Opening, Free
<1>3. CASE Spoiled(x, o, g, cl)
  BY <1>1, <1>3 DEF Wake, Spoiled
<1>4. CASE Idle(x, an) /\ Pending(x, an) /\ Pushing(x, o, an) /\ Nudged(x)
  <2>1. Idle(y, an)
    BY <1>1, <1>2, <1>4 DEF Idle, Pending, UpTo
  <2>2. Pushing(y, o, an)
    BY <1>1, <1>2, <1>4 DEF Pushing
  <2> QED
    BY <1>1, <1>2, <2>1, <2>2 DEF Pending, Nudged, Wake
<1> QED
  BY <1>2, <1>3, <1>4 DEF Wake

(* So does SNAP_REQ: a push is due, and the loop is woken.                 *)
LEMMA AsksWake ==
  ASSUME NEW x \in Sessions, NEW y \in Sessions, NEW o, NEW g, NEW cl, NEW an, NEW m,
         Asks(x, y, m), x.recv = "loop", Wake(x, o, g, cl, an)
  PROVE  Wake(y, o, g, cl, an)
<1>1. /\ y.sync = 0 /\ y.recv = x.recv /\ y.send = x.send
      /\ y.sentVer = x.sentVer /\ y.sentOnce = x.sentOnce /\ y.pushDue /\ y.token
  BY DEF Asks, Same, Fields
<1>2. ~Opening(x) /\ ~Opening(y)
  BY <1>1 DEF Opening
<1>3. CASE Spoiled(x, o, g, cl)
  BY <1>1, <1>3 DEF Wake, Spoiled
<1>4. CASE Pushing(x, o, an)
  BY <1>1, <1>2, <1>4 DEF Idle, Pending, Pushing, Nudged, Wake
<1> QED
  BY <1>2, <1>3, <1>4 DEF Wake

(* The broadcaster restores Wake for the version it announces.             *)
LEMMA RousesWake ==
  ASSUME NEW x \in Sessions, NEW y \in Sessions, NEW o, NEW g, NEW cl, NEW an, NEW ve,
         Same(x, y, {"pushDue", "dirty", "token"}), y.pushDue, y.token, Wake(x, o, g, cl, an)
  PROVE  Wake(y, o, g, cl, ve)
<1>1. /\ y.recv = x.recv /\ y.send = x.send /\ y.st = x.st /\ y.sync = x.sync
      /\ y.syncVer = x.syncVer /\ y.sentVer = x.sentVer /\ y.sentOnce = x.sentOnce
  BY DEF Same, Fields
<1>2. Opening(y) <=> Opening(x)
  BY <1>1 DEF Opening
<1>3. CASE Spoiled(x, o, g, cl)
  BY <1>1, <1>3 DEF Wake, Spoiled
<1>4. CASE Opening(x) /\ Unbound(x, g, an)
  BY <1>1, <1>2, <1>4 DEF Unbound, Nudged, Wake
<1>5. CASE ~Opening(x) /\ Pending(x, an) /\ Pushing(x, o, an)
  <2>1. Pending(y, ve)
    BY <1>1, <1>5 DEF Pending
  <2>2. Pushing(y, o, ve)
    BY <1>1, <1>5 DEF Pushing
  <2> QED
    BY <1>1, <1>2, <1>5, <2>1, <2>2 DEF Idle, Nudged, Wake
<1> QED
  BY <1>3, <1>4, <1>5 DEF Wake

(* An error to report has woken the loop that reports it, and only the     *)
(* daemon's stop drains.                                                   *)
Alert(x, d) ==
  /\ x.err => x.token \/ x.send = "done"
  /\ x.st = "DRAIN" \/ None \in x.due => d
(* Session x may still serve: it has no error to report, nobody is about   *)
(* to close its socket, and its receiving loop runs.                       *)
Lively(x) == ~Late(x) /\ ~x.err /\ x.shut = {} /\ x.recv \notin {"fail", "done"}
(* All that of connection p, while both its ends are open and nothing      *)
(* stops it.                                                               *)
WakeView(p) ==
  /\ Alert(sess[p], draining)
  /\ Wired(p) /\ Lively(sess[p]) /\ ~draining =>
       Wake(sess[p], out[p], toGw[p], client, announced)
(* The inductive invariant behind NoLostWake.                              *)
WakeSound == \A p \in Conns : WakeView(p)

(* What is known of connection p from the other invariants.                *)
Told(p) == AckView(p) /\ FlightView(p) /\ Guarded(sess[p], hubOpen[p])

(* What the sending loop keeps of Alert, and when it leaves a session that *)
(* WakeView is about. A session whose CLOSING it overwrites is not one.    *)
LEMMA SendAlert ==
  ASSUME BaseInv, NEW p \in Conns, Told(p), WakeView(p), Steady, SendKinds(p)
  PROVE  /\ Alert(sess'[p], draining') /\ draining' = draining
         /\ Wired(p)' /\ Lively(sess'[p]) /\ ~draining =>
              ~Quits(p) /\ ~Late(sess[p]) /\ Wake(sess[p], out[p], toGw[p], client, announced)
<1>0. PICK x \in Sessions, y \in Sessions : x = sess[p] /\ y = sess'[p]
  BY TypedIs DEF SendKinds, Typed
<1>1. draining' = draining /\ Alert(x, draining) /\ (x.send # "done" => x.st # "CLOSED")
  BY <1>0, Awake DEF Steady, WakeView
<1>2. CASE Quits(p)
  <2>1. Stops(x, y) /\ ~Wired(p)'
    BY <1>0, <1>2 DEF Quits, Wired
  <2>2. CASE y = ClosedSession
    BY <1>0, <1>1, <2>1, <2>2 DEF ClosedSession, NewSession, Alert
  <2>3. CASE y # ClosedSession
    <3>1. y.err = x.err /\ y.due = x.due /\ y.st \in {x.st, "CLOSING"} /\ (y.token \/ y.send = "done")
      BY <2>1, <2>3 DEF Stops, Same, Fields
    <3> QED
      BY <1>0, <1>1, <2>1, <3>1 DEF Alert
  <2> QED
    BY <2>2, <2>3
<1>3. CASE ~Quits(p)
  <2>1. /\ x.send # "done" /\ y.err = x.err /\ y.st \in {x.st, "OPEN", "SYNC"}
        /\ y.recv = x.recv /\ y.due = x.due /\ y.shut = x.shut
        /\ Wakes(x, y) \/ y.token = x.token
    <3>1. CASE Wakes(x, y) \/ Decides(x, y) \/ Waits(x, y) \/ Begins(x, y, out'[p])
      BY <3>1 DEF Wakes, Decides, Waits, Begins, Same, Fields
    <3>2. CASE Agrees(x, y, out[p], ver) \/ Fetches(x, y) \/ Settles(x, y, out[p]) \/ Passes(x, y)
      BY <3>2 DEF Agrees, Fetches, Settles, Passes, Same, Fields
    <3>3. CASE Greets(x, y) \/ Marks(x, y, out[p]) \/ Emits(x, y) \/ Pings(x, y)
      BY <3>3 DEF Greets, Marks, Emits, Pings, Same, Fields
    <3> QED
      BY <1>0, <1>3, <3>1, <3>2, <3>3 DEF SendKinds
  <2>2. hubOpen'[p] = hubOpen[p] /\ gwOpen'[p] = gwOpen[p]
    BY <1>3 DEF SendKinds, Silent, Says
  <2>3. Alert(y, draining)
    BY <1>1, <2>1 DEF Alert, Wakes
  <2>4. ASSUME Wired(p)', Lively(y), ~draining
        PROVE  ~Late(x) /\ Wake(x, out[p], toGw[p], client, announced)
    <3>1. Wired(p) /\ ~x.err /\ x.shut = {} /\ x.recv \notin {"fail", "done"}
      BY <2>1, <2>2, <2>4 DEF Wired, Lively
    <3>2. x.st # "DRAIN" /\ x.st # "CLOSING" /\ x.st # "CLOSED"
      BY <1>0, <1>1, <2>1, <2>4, <3>1 DEF Alert, Told, Guarded, Doomed, Wired
    <3> QED
      BY <1>0, <2>4, <3>1, <3>2 DEF Late, Lively, WakeView
  <2> QED
    BY <1>0, <1>1, <1>3, <2>3, <2>4
<1> QED
  BY <1>2, <1>3

(* What the receiving loop does without an end of the session in sight.    *)
Listens(x, y, m, ve, e) ==
  \/ Hears(x, y, ve) \/ Binds(x, y, m.body, e) \/ Nudges(x, y) \/ Serves(x, y)
  \/ x.recv = "loop" /\ (Acks(x, y, m, e) \/ Asks(x, y, m) \/ Pongs(x, y, m))

(* The same of the receiving loop.                                         *)
LEMMA RecvAlert ==
  ASSUME BaseInv, NEW p \in Conns, Told(p), WakeView(p), Steady, RecvKinds(p)
  PROVE  /\ Alert(sess'[p], draining') /\ draining' = draining
         /\ Wired(p)' /\ Lively(sess'[p]) /\ ~draining =>
              /\ Listens(sess[p], sess'[p], Head(toHub[p]), ver, epoch) /\ ~Late(sess[p])
              /\ toGw'[p] = toGw[p]
              /\ Wake(sess[p], out[p], toGw[p], client, announced)
<1>0. PICK x \in Sessions, y \in Sessions : x = sess[p] /\ y = sess'[p] /\ x.st # "CLOSED"
  BY TypedIs DEF RecvKinds, Typed
<1>m. PICK m : m = Head(toHub[p])
  OBVIOUS
<1>1. draining' = draining /\ Alert(x, draining)
  BY <1>0 DEF Steady, WakeView
<1>2. CASE Quits(p)
  <2>1. Stops(x, y) /\ ~Wired(p)'
    BY <1>0, <1>2 DEF Quits, Wired
  <2>2. CASE y = ClosedSession
    BY <1>0, <1>1, <2>1, <2>2 DEF ClosedSession, NewSession, Alert
  <2>3. CASE y # ClosedSession
    <3>1. y.err = x.err /\ y.due = x.due /\ y.st \in {x.st, "CLOSING"} /\ (y.token \/ y.send = "done")
      BY <2>1, <2>3 DEF Stops, Same, Fields
    <3> QED
      BY <1>0, <1>1, <2>1, <3>1 DEF Alert
  <2> QED
    BY <2>2, <2>3
<1>3. CASE Leaves(x, y)
  <2>1. CASE y = ClosedSession
    BY <1>0, <1>1, <2>1 DEF ClosedSession, NewSession, Alert, Late, Lively
  <2>2. CASE y # ClosedSession
    <3>1. /\ y.st = "CLOSING" /\ y.err = x.err /\ y.token = x.token /\ y.send = x.send
          /\ y.due = x.due
      BY <1>3, <2>2 DEF Leaves, Same, Fields
    <3> QED
      BY <1>0, <1>1, <3>1 DEF Alert, Late, Lively
  <2> QED
    BY <2>1, <2>2
<1>4. CASE Refuses(x, y) \/ Falters(x, y)
  <2>1. /\ y.st = "CLOSING" /\ y.due = x.due
        /\ y.err => y.token \/ (x.err /\ y.token = x.token /\ y.send = x.send)
    BY <1>4 DEF Refuses, Falters, Same, Fields
  <2> QED
    BY <1>0, <1>1, <2>1 DEF Alert, Late, Lively
<1>5. CASE Listens(x, y, m, ver, epoch) /\ (Silent(p) \/ Takes(p))
  <2>1. /\ y.err = x.err /\ y.st \in {x.st, "OPEN"} /\ y.send = x.send /\ (x.token => y.token)
        /\ y.due = x.due /\ y.shut = x.shut /\ x.recv \notin {"fail", "done"}
    <3>1. CASE Hears(x, y, ver) \/ Binds(x, y, m.body, epoch) \/ Nudges(x, y) \/ Serves(x, y)
      BY <3>1 DEF Hears, Binds, Nudges, Serves, Same, Fields
    <3>2. CASE x.recv = "loop" /\ (Acks(x, y, m, epoch) \/ Asks(x, y, m) \/ Pongs(x, y, m))
      BY <3>2 DEF Acks, Asks, Pongs, Same, Fields
    <3> QED
      BY <1>5, <3>1, <3>2 DEF Listens
  <2>2. hubOpen'[p] = hubOpen[p] /\ gwOpen'[p] = gwOpen[p] /\ toGw'[p] = toGw[p]
    BY <1>5 DEF Silent, Takes
  <2>3. Alert(y, draining)
    BY <1>1, <2>1 DEF Alert
  <2>4. ASSUME Wired(p)', Lively(y), ~draining
        PROVE  ~Late(x) /\ Wake(x, out[p], toGw[p], client, announced)
    <3>1. Wired(p) /\ ~x.err /\ x.shut = {}
      BY <2>1, <2>2, <2>4 DEF Wired, Lively
    <3>2. x.st # "DRAIN" /\ x.st # "CLOSING"
      BY <1>0, <1>1, <2>1, <2>4, <3>1 DEF Alert, Told, Guarded, Doomed, Wired
    <3> QED
      BY <1>0, <2>1, <2>4, <3>1, <3>2 DEF Late, Lively, WakeView
  <2> QED
    BY <1>0, <1>m, <1>1, <1>5, <2>2, <2>3, <2>4
<1>6. \/ Quits(p) \/ Leaves(x, y) \/ Refuses(x, y) \/ Falters(x, y)
      \/ Listens(x, y, m, ver, epoch) /\ (Silent(p) \/ Takes(p))
  BY <1>0, <1>m DEF RecvKinds, Listens
<1> QED
  BY <1>2, <1>3, <1>4, <1>5, <1>6

(* The first message stays the first.                                      *)
LEMMA AppendHeads ==
  ASSUME NEW g \in Seq(GwMsgs), NEW m \in GwMsgs, NEW f, f = Append(g, m)
  PROVE  /\ g # <<>> => f # <<>> /\ Head(f) = Head(g)
         /\ g = <<>> => f # <<>> /\ Head(f) = m
BY AppendIs

(* The sending loop keeps WakeView.                                        *)
LEMMA SendWakes ==
  ASSUME BaseInv, NEW p \in Conns, Told(p), WakeView(p), Steady, SendKinds(p)
  PROVE  WakeView(p)'
<1>1. /\ Alert(sess'[p], draining') /\ draining' = draining
      /\ Wired(p)' /\ Lively(sess'[p]) /\ ~draining =>
           ~Quits(p) /\ ~Late(sess[p]) /\ Wake(sess[p], out[p], toGw[p], client, announced)
  BY SendAlert
<1>2. SUFFICES ASSUME ~Quits(p), ~Late(sess[p]), Wake(sess[p], out[p], toGw[p], client, announced), Wired(p)'
               PROVE  Wake(sess'[p], out'[p], toGw'[p], client, announced)
  BY <1>1 DEF WakeView, Steady
<1>3. PICK x \in Sessions, y \in Sessions : x = sess[p] /\ y = sess'[p]
  BY TypedIs DEF SendKinds, Typed
<1>4. PICK g \in Seq(GwMsgs) : g = toGw[p]
  BY TypedIs DEF Typed
<1>5. PICK o, u, f : o = out[p] /\ u = out'[p] /\ f = toGw'[p]
  OBVIOUS
<1>6. PICK cl, an : cl = client /\ an = announced
  OBVIOUS
<1>7. Wake(x, o, g, cl, an) /\ ~Late(x)
  BY <1>2, <1>3, <1>4, <1>5, <1>6
<1>8. an \in Nat /\ ver \in Nat /\ an <= ver /\ epoch \in Nat
  <2>1. HubTyped
    BY DEF BaseInv
  <2>2. announced \in 0..ver /\ ver \in Nat /\ epoch \in Nat
    BY <2>1, TypedIs DEF HubTyped
  <2> QED
    BY <1>6, <2>2
<1>9. Unready(x) /\ Free(x) /\ (Opening(x) => cl = "HELLO") /\ x.nextSeq \in Nat
  <2>1. gwOpen[p]
    BY <1>2 DEF Wired, SendKinds, Silent, Says
  <2> QED
    BY <1>3, <1>6, <2>1 DEF Told, AckView, FlightView, Greeting, Sessions
<1>10. SUFFICES Wake(y, u, f, cl, an)
  BY <1>3, <1>5, <1>6
<1>11. CASE Silent(p) /\ Wakes(x, y) /\ u = o
  BY <1>4, <1>5, <1>7, <1>9, <1>11, WakesWake DEF Silent
<1>12. CASE Silent(p) /\ Decides(x, y) /\ u = o
  BY <1>4, <1>5, <1>7, <1>8, <1>9, <1>12, DecidesWake DEF Silent
<1>13. CASE Silent(p) /\ Waits(x, y) /\ u = o
  BY <1>4, <1>5, <1>7, <1>13, WaitsWake DEF Silent
<1>14. CASE Silent(p) /\ Begins(x, y, u)
  <2>1. f = g
    BY <1>4, <1>5, <1>14 DEF Silent
  <2> QED
    BY <1>7, <1>9, <1>14, <2>1, BeginsWake
<1>15. CASE Silent(p) /\ Agrees(x, y, o, ver)
  <2>1. f = g
    BY <1>4, <1>5, <1>15 DEF Silent
  <2> QED
    BY <1>7, <1>8, <1>9, <1>15, <2>1, AgreesWake
<1>16. CASE Silent(p) /\ Fetches(x, y) /\ u = NextPush(o.from, o.once)
  <2>1. f = g /\ x.send = "push"
    BY <1>4, <1>5, <1>16 DEF Silent, Fetches
  <2>2. Planned(x, o, epoch, ver, hist)
    BY <1>3, <1>5, TypedIs DEF LinkSound
  <2>3. o \in Plans /\ o.from <= ver
    BY <2>1, <2>2 DEF Planned
  <2>4. o.from \in Nat
    BY <2>3 DEF Plans
  <2>5. PICK a, b : a = o.from /\ b = o.once
    OBVIOUS
  <2>6. NextPush(a, b).version = ver
    BY <2>3, <2>4, <2>5, NextPushIs
  <2>7. u.version >= an
    BY <1>8, <1>16, <2>5, <2>6
  <2> QED
    BY <1>7, <1>8, <1>9, <1>16, <2>1, <2>7, FetchesWake
<1>17. CASE Silent(p) /\ Settles(x, y, o)
  <2>1. f = g
    BY <1>4, <1>5, <1>17 DEF Silent
  <2> QED
    BY <1>7, <1>17, <2>1, SettlesWake
<1>18. CASE Silent(p) /\ Passes(x, y) /\ u = o
  <2>1. f = g
    BY <1>4, <1>5, <1>18 DEF Silent
  <2>2. Alike(x, y) /\ x.send \in {"ping", "bye"} /\ y.send \in {"bye", "wait"} /\ y.token = x.token
    BY <1>18 DEF Passes, Same, Fields, Alike
  <2> QED
    BY <1>7, <1>18, <2>1, <2>2, PassesWake
<1>19. CASE Greets(x, y) /\ u = o /\ Says(p, Msg("READY", 1, [epoch |-> epoch, version |-> sess[p].target]))
  <2>1. PICK b : b = [epoch |-> epoch, version |-> x.target]
    OBVIOUS
  <2>2. b \in Stamps
    BY <1>8, <2>1 DEF Stamps, Sessions
  <2>3. PICK m : m = Msg("READY", 1, b)
    OBVIOUS
  <2>4. m \in GwMsgs
    BY <2>2, <2>3 DEF Msg, GwMsgs
  <2>5. f = Append(g, m)
    BY <1>3, <1>4, <1>5, <1>19, <2>1, <2>3 DEF Says
  <2>6. g # <<>> => f # <<>> /\ Head(f) = Head(g)
    BY <2>4, <2>5, AppendHeads
  <2> QED
    BY <1>7, <1>9, <1>19, <2>6, GreetsWake
<1>20. CASE Emits(x, y) /\ u = o /\ Says(p, Msg(out[p].kind, sess[p].nextSeq - 1, out[p]))
  <2>1. o \in Snaps \cup Deltas
    <3>1. Planned(x, o, epoch, ver, hist)
      BY <1>3, <1>5, TypedIs DEF LinkSound
    <3> QED
      BY <1>20, <3>1 DEF Emits, Planned, SoundAt
  <2>2. o.kind \in PushKinds
    BY <2>1 DEF Snaps, Deltas, PushKinds
  <2>n. PICK n \in Nat : n = x.nextSeq - 1
    BY <1>3 DEF Sessions
  <2>3. PICK m : m = Msg(o.kind, n, o)
    OBVIOUS
  <2>4. m \in GwMsgs /\ m.kind \in PushKinds
    BY <2>1, <2>2, <2>3 DEF Msg, GwMsgs
  <2>5. f = Append(g, m)
    BY <1>3, <1>4, <1>5, <1>20, <2>n, <2>3 DEF Says
  <2>6. /\ g # <<>> => f # <<>> /\ Head(f) = Head(g)
        /\ g = <<>> => f # <<>> /\ Head(f).kind \in PushKinds
    BY <2>4, <2>5, AppendHeads
  <2> QED
    BY <1>7, <1>20, <2>6, EmitsWake
<1>22. CASE Silent(p) /\ Marks(x, y, o) /\ u = o
  BY <1>4, <1>5, <1>7, <1>22, MarksWake DEF Silent
<1>21. CASE Pings(x, y) /\ u = o /\ Says(p, Msg("PING", sess[p].nextSeq, None))
  <2>1. PICK m : m = Msg("PING", x.nextSeq, None)
    OBVIOUS
  <2>2. m \in GwMsgs
    BY <1>9, <2>1 DEF Msg, GwMsgs
  <2>3. f = Append(g, m)
    BY <1>3, <1>4, <1>5, <1>21, <2>1 DEF Says
  <2>4. g # <<>> => f # <<>> /\ Head(f) = Head(g)
    BY <2>2, <2>3, AppendHeads
  <2>5. Alike(x, y) /\ x.send = "ping" /\ y.send = "bye" /\ y.token = x.token
    BY <1>21 DEF Pings, Same, Fields, Alike
  <2> QED
    BY <1>7, <1>21, <2>4, <2>5, PassesWake
<1> QED
  <2>1. SendKinds(p)
    OBVIOUS
  <2> QED
    BY <1>2, <1>3, <1>5, <1>11, <1>12, <1>13, <1>14, <1>15, <1>16, <1>17, <1>18, <1>19, <1>20,
       <1>21, <1>22, <2>1
       DEF SendKinds

(* So does the receiving loop.                                             *)
LEMMA RecvWakes ==
  ASSUME BaseInv, NEW p \in Conns, Told(p), WakeView(p), Steady, RecvKinds(p)
  PROVE  WakeView(p)'
<1>1. /\ Alert(sess'[p], draining') /\ draining' = draining
      /\ Wired(p)' /\ Lively(sess'[p]) /\ ~draining =>
           /\ Listens(sess[p], sess'[p], Head(toHub[p]), ver, epoch) /\ ~Late(sess[p])
           /\ toGw'[p] = toGw[p]
           /\ Wake(sess[p], out[p], toGw[p], client, announced)
  BY RecvAlert
<1>2. SUFFICES ASSUME Listens(sess[p], sess'[p], Head(toHub[p]), ver, epoch), toGw'[p] = toGw[p],
                      Wake(sess[p], out[p], toGw[p], client, announced)
               PROVE  Wake(sess'[p], out'[p], toGw'[p], client, announced)
  BY <1>1 DEF WakeView, Steady
<1>3. PICK x \in Sessions, y \in Sessions : x = sess[p] /\ y = sess'[p]
  BY TypedIs DEF RecvKinds, Typed
<1>4. PICK o, g, cl, an, m :
        o = out[p] /\ g = toGw[p] /\ cl = client /\ an = announced /\ m = Head(toHub[p])
  OBVIOUS
<1>5. Wake(x, o, g, cl, an) /\ Listens(x, y, m, ver, epoch)
  BY <1>2, <1>3, <1>4
<1>6. out'[p] = o /\ toGw'[p] = g
  BY <1>2, <1>4 DEF RecvKinds
<1>7. an \in Nat /\ ver \in Nat /\ ver >= an
  <2>1. HubTyped
    BY DEF BaseInv
  <2>2. announced \in 0..ver /\ ver \in Nat
    BY <2>1, TypedIs DEF HubTyped
  <2> QED
    BY <1>4, <2>2
<1>8. Free(x)
  BY <1>3 DEF Told, FlightView
<1>9. SUFFICES Wake(y, o, g, cl, an)
  BY <1>3, <1>4, <1>6
<1>11. CASE Hears(x, y, ver)
  BY <1>5, <1>7, <1>11, HearsWake
<1>12. CASE Binds(x, y, m.body, epoch)
  BY <1>5, <1>12, BindsWake
<1>13. CASE x.recv = "loop" /\ Acks(x, y, m, epoch)
  BY <1>5, <1>8, <1>13, AcksWake
<1>14. CASE x.recv = "loop" /\ Asks(x, y, m)
  BY <1>5, <1>14, AsksWake
<1>15. CASE (x.recv = "loop" /\ Pongs(x, y, m)) \/ Nudges(x, y) \/ Serves(x, y)
  <2>1. /\ Same(x, y, {"recv", "token", "pingDue", "ping", "due", "shut"})
        /\ y.recv = "loop" /\ x.recv \in {"loop", "replacing"} /\ (x.token => y.token)
    BY <1>15 DEF Pongs, Nudges, Serves, Same, Fields
  <2>2. ~Opening(x) /\ ~Opening(y)
    BY <2>1 DEF Opening
  <2> QED
    BY <1>5, <2>1, <2>2, LikeWakes
<1> QED
  BY <1>5, <1>11, <1>12, <1>13, <1>14, <1>15 DEF Listens

(* So does the client: at a spoiled link it hangs up.                      *)
LEMMA ClientWakes ==
  ASSUME BaseInv, NEW p \in Conns, Told(p), WakeView(p), Client(p)
  PROVE  WakeView(p)'
<1>1. sess'[p] = sess[p] /\ out'[p] = out[p] /\ hubOpen'[p] = hubOpen[p] /\ draining' = draining
      /\ announced' = announced
  BY DEF Client, HubStill
<1>2. CASE GwHung(p)
  BY <1>1, <1>2 DEF GwHung, WakeView, Wired
<1>3. CASE ~GwHung(p)
  <2>1. PICK x, o, g, f, an : x = sess[p] /\ o = out[p] /\ g = toGw[p] /\ f = toGw'[p] /\ an = announced
    OBVIOUS
  <2>2. /\ gwOpen'[p] = gwOpen[p] /\ g # <<>>
        /\ \/ client = "HELLO" /\ Head(g).kind = "READY" /\ client' # "HELLO"
           \/ client # "HELLO" /\ client' # "HELLO"
    BY <1>3, <2>1 DEF Client, GwGreeted, GwApplies, GwBalks, GwPongs, GwReceives, GwSyncs
  <2>3. ASSUME gwOpen[p], Wake(x, o, g, client, an)
        PROVE  Wake(x, o, f, client', an)
    <3>1. ~Spoiled(x, o, g, client)
      BY <2>2 DEF Spoiled, PushKinds
    <3>2. ~(Opening(x) /\ Unbound(x, g, an))
      BY <2>2 DEF Unbound
    <3> QED
      BY <2>3, <3>1, <3>2 DEF Wake
  <2> QED
    BY <1>1, <2>1, <2>2, <2>3 DEF WakeView, Wired
<1> QED
  BY <1>2, <1>3

(* So do the daemon, the broadcaster and another session.                  *)
LEMMA HubWakes ==
  ASSUME BaseInv, NEW p \in Conns, Told(p), WakeView(p), Halts(p) \/ Hurries(p) \/ Replaced(p)
  PROVE  WakeView(p)'
<1>1. PICK x \in Sessions, y \in Sessions : x = sess[p] /\ y = sess'[p]
  BY TypedIs DEF Halts, Halted, Hurries, Roused, Replaced, Typed
<1>2. PICK o, g, cl, an : o = out[p] /\ g = toGw[p] /\ cl = client /\ an = announced
  OBVIOUS
<1>3. out'[p] = o /\ toGw'[p] = g /\ client' = cl /\ gwOpen'[p] = gwOpen[p]
  BY <1>2 DEF Halts, Still, Halted, Hurries, Roused, Replaced, Silent, LinkKept
<1>4. Alert(x, draining) /\ (Wired(p) /\ Lively(x) /\ ~draining => Wake(x, o, g, cl, an))
  BY <1>1, <1>2 DEF WakeView
<1>5. SUFFICES /\ Alert(y, draining')
               /\ Wired(p)' /\ Lively(y) /\ ~draining' => Wake(y, o, g, cl, announced')
  BY <1>1, <1>3 DEF WakeView
<1>6. CASE Halts(p)
  <2>1. announced' = an /\ (draining => draining') /\ (hubOpen'[p] => hubOpen[p])
    BY <1>2, <1>6 DEF Halts, Still, Halted
  <2>2. CASE y = x
    BY <1>3, <1>4, <2>1, <2>2 DEF Alert, Wired
  <2>3. CASE x.st # "CLOSED" /\ Same(x, y, {"st", "token", "due", "shut"})
    <3>1. y.err = x.err /\ y.send = x.send /\ y.recv = x.recv
      BY <2>3 DEF Same, Fields
    <3>2. CASE hubOpen'[p] = hubOpen[p] /\ Listed(x, y, draining')
      <4>1. /\ Same(x, y, {"recv", "token", "pingDue", "ping", "due", "shut"})
            /\ y.token = x.token /\ y.st = x.st /\ y.shut = x.shut
        BY <2>3, <3>2 DEF Listed, Same, Fields
      <4>2. Alert(y, draining')
        BY <1>4, <2>1, <3>1, <3>2, <4>1 DEF Alert, Listed
      <4>3. Opening(x) <=> Opening(y)
        BY <3>1 DEF Opening
      <4>4. ASSUME Wake(x, o, g, cl, an)
            PROVE  Wake(y, o, g, cl, an)
        BY <3>1, <4>1, <4>3, <4>4, LikeWakes
      <4> QED
        BY <1>3, <1>4, <2>1, <3>1, <3>2, <4>1, <4>2, <4>4 DEF Wired, Lively, Late
    <3>3. CASE Yields(x, y)
      <4>1. PICK c \in x.due :
              /\ y.due = x.due \ {c} /\ y.token
              /\ (c = None /\ y.st = "DRAIN") \/ y.st = "CLOSING"
        BY <3>3 DEF Yields
      <4> QED
        BY <1>4, <2>1, <3>1, <4>1 DEF Alert, Lively, Late
    <3>4. CASE Forced(x, y)
      BY <1>4, <2>1, <3>1, <3>4 DEF Forced, Alert, Lively, Late
    <3>5. CASE ~hubOpen'[p] /\ Closed(x, y)
      BY <1>4, <2>1, <3>1, <3>5 DEF Closed, Alert, Wired
    <3> QED
      BY <1>1, <1>6, <2>2, <3>2, <3>3, <3>4, <3>5 DEF Halts, Halted
  <2> QED
    BY <1>1, <1>6, <2>2, <2>3 DEF Halts, Halted
<1>7. CASE Hurries(p)
  <2>1. draining' = draining /\ hubOpen'[p] = hubOpen[p]
    BY <1>7 DEF Hurries, Roused, Silent
  <2>2. CASE Late(x) /\ y = x
    BY <1>4, <2>1, <2>2 DEF Alert, Lively
  <2>3. CASE y.pushDue /\ y.token /\ Same(x, y, {"pushDue", "dirty", "token"})
    <3>1. /\ y.st = x.st /\ y.err = x.err /\ y.send = x.send /\ y.due = x.due /\ y.shut = x.shut
          /\ y.recv = x.recv
      BY <2>3 DEF Same, Fields
    <3>2. Alert(y, draining')
      BY <1>4, <2>1, <2>3, <3>1 DEF Alert
    <3>3. Wired(p)' /\ Lively(y) /\ ~draining' => Wake(x, o, g, cl, an)
      BY <1>3, <1>4, <2>1, <3>1 DEF Wired, Late, Lively
    <3> QED
      BY <2>3, <3>2, <3>3, RousesWake
  <2> QED
    BY <1>1, <1>7, <2>2, <2>3 DEF Hurries, Roused
<1>8. CASE Replaced(p)
  <2>1. /\ draining' = draining /\ hubOpen'[p] = hubOpen[p] /\ announced' = an /\ Replaces(x, y)
    BY <1>1, <1>2, <1>8 DEF Replaced, Silent, Still
  <2>2. /\ x.recv = "replace" /\ y.recv = "replacing" /\ y.token = x.token /\ y.st = x.st
        /\ y.err = x.err /\ y.send = x.send /\ y.due = x.due /\ y.shut = x.shut
        /\ Same(x, y, {"recv", "token", "pingDue", "ping", "due", "shut"})
    BY <2>1 DEF Replaces, Same, Fields
  <2>3. ~Opening(x) /\ ~Opening(y)
    BY <2>2 DEF Opening
  <2>4. Alert(y, draining')
    BY <1>4, <2>1, <2>2 DEF Alert
  <2>5. Wired(p)' /\ Lively(y) /\ ~draining' => Wake(x, o, g, cl, an)
    BY <1>3, <1>4, <2>1, <2>2 DEF Wired, Late, Lively
  <2> QED
    BY <2>1, <2>2, <2>3, <2>4, <2>5, LikeWakes
<1> QED
  BY <1>6, <1>7, <1>8

(* So does every step.                                                     *)
LEMMA WakeStays ==
  ASSUME BaseInv, SyncNext, NEW p \in Conns, Told(p), WakeView(p)
  PROVE  WakeView(p)'
<1>1. CASE Idles(p) \/ Drifts(p)
  <2>1. Quiet(p) /\ draining' = draining /\ announced' = announced /\ client' = client
    BY <1>1 DEF Idles, Drifts, Steady, LinkKept
  <2> QED
    BY <2>1 DEF Quiet, WakeView, Wired
<1>2. CASE Reboot(p)
  <2>1. sess'[p] = ClosedSession
    BY <1>2 DEF Reboot, Rebooted
  <2>2. ~Lively(ClosedSession) /\ Alert(ClosedSession, draining')
    BY DEF ClosedSession, NewSession, Lively, Late, Alert
  <2> QED
    BY <2>1, <2>2 DEF WakeView
<1>3. CASE Apart(p)
  BY <1>3 DEF Apart, WakeView, Wired
<1>4. CASE Dialled(p)
  <2>1. PICK y : y = NewSession("HELLO", "wait")
    OBVIOUS
  <2>2. /\ y.recv = "hello" /\ y.send = "wait" /\ y.st = "HELLO" /\ y.sync = 0 /\ ~y.sentOnce
        /\ ~y.token
        /\ ~y.pushDue /\ ~y.err /\ y.due = {}
    BY <2>1 DEF NewSession
  <2>3. sess'[p] = y /\ toGw'[p] = <<>>
    BY <1>4, <2>1 DEF Dialled
  <2>4. Wake(y, out'[p], <<>>, client', announced') /\ Alert(y, draining')
    BY <2>2 DEF Wake, Opening, Unbound, Nudged, Alert
  <2> QED
    BY <2>3, <2>4 DEF WakeView
<1> QED
  BY <1>1, <1>2, <1>3, <1>4, SendWakes, RecvWakes, ClientWakes, HubWakes, Views DEF View

----------------------------------------------------------------------------
(* The inductive invariant behind SessionSound.                            *)
SyncInv == BaseInv /\ AckSound /\ FlightSound /\ ServeSound /\ WakeSound

(* It holds at the start.                                                  *)
LEMMA SyncStarts ==
  ASSUME SyncInit
  PROVE  SyncInv
<1>1. /\ \A p \in Conns : sess[p] = ClosedSession /\ gwOpen[p] = FALSE /\ hubOpen[p] = FALSE
      /\ draining = FALSE
  BY DEF SyncInit
<1>2. PICK x : x = ClosedSession
  OBVIOUS
<1>3. x.send = "done" /\ x.recv = "done" /\ x.st = "CLOSED" /\ ~x.err /\ x.due = {}
  BY <1>2 DEF ClosedSession, NewSession
<1>4. \A p \in Conns : sess[p] = x /\ ~gwOpen[p] /\ ~hubOpen[p]
  BY <1>1, <1>2
<1>5. FlightSound
  BY <1>3, <1>4 DEF FlightSound, FlightView, Free
<1>6. ServeSound
  BY <1>3, <1>4 DEF ServeSound, Guarded, Past
<1>7. WakeSound
  BY <1>3, <1>4 DEF WakeSound, WakeView, Alert, Late, Lively
<1> QED
  BY <1>5, <1>6, <1>7, AckStarts, BaseStarts DEF SyncInv

(* It is kept where nothing changes.                                       *)
LEMMA SyncRests ==
  ASSUME AckSound, FlightSound, ServeSound, WakeSound, UNCHANGED vars
  PROVE  AckSound' /\ FlightSound' /\ ServeSound' /\ WakeSound'
<1>1. /\ sess' = sess /\ out' = out /\ toGw' = toGw /\ toHub' = toHub /\ gwOpen' = gwOpen
      /\ hubOpen' = hubOpen /\ client' = client /\ linkEpoch' = linkEpoch /\ gEpoch' = gEpoch
      /\ gVer' = gVer /\ epoch' = epoch /\ announced' = announced /\ draining' = draining
  BY DEF vars, hubSide, hubVars, wires, clientVars, guardVars
<1>2. AckSound' /\ FlightSound'
  BY <1>1 DEF AckSound, AckView, FlightSound, FlightView
<1>3. ServeSound' /\ WakeSound'
  BY <1>1 DEF ServeSound, WakeSound, WakeView, Wired
<1> QED
  BY <1>2, <1>3

(* It is kept by every step.                                               *)
LEMMA SyncStays ==
  ASSUME SyncInv, SyncNext
  PROVE  SyncInv'
<1>1. BaseInv /\ AckSound /\ FlightSound /\ ServeSound /\ WakeSound
  BY DEF SyncInv
<1>2. BaseInv'
  BY <1>1, BaseStays
<1>3. AckSound'
  BY <1>1, AckStays DEF AckSound
<1>4. FlightSound'
  BY <1>1, FlightStays DEF FlightSound
<1>5. ServeSound'
  BY <1>1, ServeStays
<1>6. \A p \in Conns : Told(p) /\ WakeView(p)
  BY <1>1 DEF Told, AckSound, FlightSound, ServeSound, WakeSound
<1>7. WakeSound'
  BY <1>1, <1>6, WakeStays DEF WakeSound
<1> QED
  BY <1>2, <1>3, <1>4, <1>5, <1>7 DEF SyncInv

(* It says that no wake is lost: a sleeping session has no token, so       *)
(* nothing is due, and with no push in flight only UpTo is left.           *)
LEMMA NoneLost ==
  ASSUME SyncInv
  PROVE  NoLostWake
<1>1. SUFFICES ASSUME NEW s \in Conns, Asleep(s), Wired(s), sess[s].shut = {}, announced = ver,
                      ~draining
               PROVE  sess[s].sentOnce /\ sess[s].sentVer = ver
  BY DEF NoLostWake
<1>2. PICK x \in Sessions : x = sess[s]
  BY DEF SyncInv, BaseInv, HubEnds
<1>3. PICK g \in Seq(GwMsgs) : g = toGw[s]
  BY DEF SyncInv, BaseInv, HubEnds
<1>4. /\ x.st = "OPEN" /\ x.send = "wait" /\ ~x.token /\ x.sync = 0
      /\ x.recv = "loop" /\ x.shut = {}
  BY <1>1, <1>2 DEF Asleep
<1>5. WakeView(s) /\ FlightView(s) /\ LinkSound(s)
  BY DEF SyncInv, BaseInv, WakeSound, FlightSound
<1>6. Lively(x)
  BY <1>2, <1>4, <1>5 DEF WakeView, Alert, Late, Lively
<1>7. Wake(x, out[s], g, client, ver)
  BY <1>1, <1>2, <1>3, <1>5, <1>6 DEF WakeView
<1>8. Lacks(g, PushKinds)
  BY <1>1, <1>2, <1>3, <1>4, <1>5 DEF FlightView, Flight, Wired
<1>9. ~Spoiled(x, out[s], g, client)
  BY <1>4, <1>8, QueueTail DEF Spoiled
<1>10. ~Opening(x) /\ Idle(x, ver) /\ Nudged(x)
  BY <1>4, <1>7, <1>9 DEF Wake, Unbound
<1>11. UpTo(x, ver)
  BY <1>4, <1>10 DEF Idle, Nudged
<1>12. x.sentVer <= ver /\ x.sentVer \in Nat /\ ver \in Nat
  BY <1>2, <1>5, HubAssumption DEF LinkSound, Within, Sessions, SyncInv, BaseInv, HubTyped
<1> QED
  BY <1>2, <1>11, <1>12 DEF UpTo

(* It says that one push is in flight.                                     *)
LEMMA OneFlies ==
  ASSUME SyncInv
  PROVE  OnePushInFlight
<1>1. SUFFICES ASSUME NEW s \in Conns, gwOpen[s], sess[s].st # "CLOSED"
               PROVE  /\ \A n, m \in Pushes(s) : n = m
                      /\ sess[s].sync = 0 => Pushes(s) = {}
  BY DEF OnePushInFlight
<1>2. PICK g : g = toGw[s]
  OBVIOUS
<1>3. Single(g, PushKinds) /\ (sess[s].sync = 0 => Lacks(g, PushKinds))
  BY <1>1, <1>2 DEF SyncInv, FlightSound, FlightView, Flight
<1>4. Pushes(s) = {n \in 1..Len(g) : g[n].kind \in PushKinds}
  BY <1>2 DEF Pushes, PushKinds
<1> QED
  BY <1>3, <1>4 DEF Single, Lacks

(* It says that one session serves.                                        *)
LEMMA OneServes ==
  ASSUME SyncInv
  PROVE  OneServing
<1>1. \A s \in Conns : Serving(s) => sess[s].recv = "loop" /\ ~Doomed(sess[s], hubOpen[s])
  BY DEF Serving, Doomed
<1>2. ASSUME NEW s \in Conns, NEW p \in Conns, sess[s].recv = "loop"
      PROVE  s \notin sess[p].due
  BY <1>2 DEF SyncInv, ServeSound
<1> QED
  BY <1>1, <1>2 DEF OneServing, SyncInv, ServeSound, Past

(* It says that every variable has its type.                               *)
LEMMA SyncTyped ==
  ASSUME SyncInv
  PROVE  SyncTypeOK
<1>1. HubTyped /\ HubEnds /\ GwEnds
  BY DEF SyncInv, BaseInv
<1>2. /\ HubTypeOK /\ announced \in Nat
  BY <1>1, HubAssumption, SyncAssumption DEF HubTyped, HubTypeOK, RuleSets
<1>3. Sessions \subseteq
        [st : DOMAIN Rank,
         send : {"wait", "ready", "readied", "cur", "push", "mark", "emit", "sent", "ping", "bye",
                 "done"},
         recv : {"hello", "bind", "replace", "replacing", "loop", "fail", "done"},
         token : BOOLEAN, ready : BOOLEAN,
         target : Nat, known : BOOLEAN, sync : Nat, syncVer : Nat, timed : BOOLEAN, sentVer : Nat,
         sentOnce : BOOLEAN, pushDue : BOOLEAN, dirty : BOOLEAN, forceFull : BOOLEAN,
         pingDue : BOOLEAN, ping : Nat, pings : Nat, nextSeq : Nat, err : BOOLEAN, acked : Nat,
         due : SUBSET (Conns \cup {None}), shut : SUBSET (Conns \cup {None})]
  BY Ranks DEF Sessions, SendPcs, RecvPcs, Stoppers
<1> QED
  BY <1>1, <1>2, <1>3 DEF HubEnds, GwEnds, SyncTypeOK, RuleSets

(* For every instance: the two loops of ipban/session.cpp and the sessions *)
(* of a gateway agree. No change that the broadcaster announces is lost    *)
(* between them, one push is in flight at a time, and one session serves   *)
(* the gateway.                                                            *)
THEOREM SessionsAreSound == SyncSpec => []SessionSound
<1>1. SyncInv /\ [SyncNext]_vars => SyncInv'
  <2>1. ASSUME SyncInv, BaseInv', UNCHANGED vars
        PROVE  SyncInv'
    BY <2>1, SyncRests DEF SyncInv
  <2>2. ASSUME SyncInv, UNCHANGED vars
        PROVE  BaseInv'
    BY <2>2, BaseRests DEF SyncInv
  <2> QED
    BY <2>1, <2>2, SyncStays
<1>2. SyncInv => SessionSound
  BY NoneLost, OneFlies, OneServes, SyncTyped DEF SessionSound
<1> QED
  BY <1>1, <1>2, SyncStarts, PTL DEF SyncSpec
=============================================================================
