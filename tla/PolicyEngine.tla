---------------------------- MODULE PolicyEngine ----------------------------
(***************************************************************************)
(* The hub's policy engine (ipban/engine.cpp) with its rule store, expiry  *)
(* heap, change log and SQLite write-behind queue. Several threads call it;*)
(* each call takes m_mtx once for the in-memory change and then runs       *)
(* flushPersistence, whose steps (the m_flushing flag, the batch copy, one *)
(* transaction per operation, the release and the re-check) interleave with*)
(* the other calls. The process may crash between any two steps and is     *)
(* restarted from the database.                                            *)
(***************************************************************************)
EXTENDS Integers, Sequences, FiniteSets

CONSTANTS Callers,    \* threads (coroutines) inside the engine
          Ids,        \* rule ids ("src:ip")
          SrcOf,      \* the source an id is about
          Acts,       \* actions an administrator asks for
          Reasons,    \* reason texts
          Reports,    \* deduplication keys of risk reports
          Anon,       \* the empty report key: never deduplicated
          NoRule, None,
          Ttls,       \* durations asked for, 0 is permanent
          MinTtls,    \* values of persistMinTtlMs a start may be configured with
          TimeMax,    \* kMaxTime: the largest expiry time
          CoolMs,     \* kRiskCoolMs
          SeenMax,    \* kRiskSeenMax
          LogCap,     \* capacity of the change log
          Batch,      \* kBatch
          MaxNow, MaxVer, MaxFail, MaxCrash   \* bounds on what is explored

ASSUME EngineAssumption ==
    /\ SrcOf \in [Ids -> {"WAF", "RATE", "BIZ", "ADMIN"}]
    /\ Acts \subseteq {"ALLOW", "DENY"}
    /\ Anon \notin Reports
    /\ None \notin Callers
    /\ Ttls \subseteq Nat /\ MinTtls \subseteq Nat /\ MinTtls # {}
    /\ TimeMax \in Nat \ {0} /\ CoolMs \in Nat /\ SeenMax \in Nat
    /\ LogCap \in Nat \ {0} /\ Batch \in Nat \ {0}
    /\ MaxNow \in Nat /\ MaxVer \in Nat /\ MaxFail \in Nat /\ MaxCrash \in Nat
    /\ MaxNow <= TimeMax

AdminIds == {i \in Ids : SrcOf[i] = "ADMIN"}
RiskIds == Ids \ AdminIds
Rules == [action : Acts \cup {"DENY"}, reason : Reasons \cup {None}, expireAtMs : 0 .. TimeMax,
          version : 1 .. MaxVer]

ASSUME NoRuleAssumption == NoRule \notin Rules

VARIABLES
    up,          \* the process runs
    now,         \* GetCurrentMs
    epoch, ver, store, log,      \* m_epoch, m_ver, m_store, m_log
    heap,        \* m_expiry: a set of nodes
    seen,        \* m_seen: report key -> time, -1 when absent
    seenOrder,   \* m_seenOrder
    persisted,   \* m_persisted
    minTtl,      \* m_persistMinTtlMs
    pending,     \* m_pending
    flushing,    \* m_flushing
    healthy,     \* m_persistHealthy
    mtx,         \* holder of m_mtx across steps (tickExpiry), or None
    due,         \* tickExpiry: nodes popped and not yet handled
    at,          \* per caller: the clock its call has read, before m_mtx
    pc, cont,    \* per caller: where it is; what follows its flush
    batch, done, \* per caller: flushPersistence's batch and count
    edit,        \* per caller: the admin edit it will report on
    announced,   \* version up to which onChange was fired
    dbRules, dbTomb, lastVer,    \* the tables rules, tombstones and meta
    promise,     \* per id: what the last durable edit left, or None (ghost)
    fails, crashes               \* counters that bound the exploration

memVars == <<epoch, ver, store, log, heap, seen, seenOrder, persisted, minTtl>>
flushVars == <<pending, flushing, healthy, batch, done>>
dbVars == <<dbRules, dbTomb, lastVer>>
sweepVars == <<mtx, due, at>>
vars == <<up, now, memVars, flushVars, sweepVars, pc, cont, edit, announced,
          dbVars, promise, fails, crashes>>

Node == [expireAtMs : 1 .. TimeMax, id : Ids, version : 1 .. MaxVer]
PersistOp == [id : Ids, version : Nat, rule : Rules \cup {NoRule}]
Edit == [id : Ids, rule : Rules \cup {NoRule}]
PCs == {"idle", "flush", "take", "write", "release", "recheck", "retry",
        "call", "sweep", "pop", "fire"}
Conts == {"sweep", "fire", "return"}
Max2(a, b) == IF a >= b THEN a ELSE b

Hub == INSTANCE RuleHub WITH rules <- store

-----------------------------------------------------------------------------
(* Judge: the priority table, arbitration and the lifetime of a rule.      *)

rulePriority(src, action) ==
    CASE src = "ADMIN" -> IF action = "DENY" THEN 900 ELSE 800
      [] src = "WAF"   -> 600
      [] src = "BIZ"   -> 500
      [] src = "RATE"  -> 400

Forever == TimeMax + 1
ExpiryOf(r) == IF r.expireAtMs = 0 THEN Forever ELSE r.expireAtMs

shouldReplace(i, existing, cand) ==
    LET old == rulePriority(SrcOf[i], existing.action)
        new == rulePriority(SrcOf[i], cand.action)
    IN  new > old \/ (new = old /\ ExpiryOf(cand) > ExpiryOf(existing))

(* ruleFromRisk: a suggested ban that overflows the clock is clamped.      *)
ruleFromRisk(banMs, t) ==
    [action |-> "DENY", reason |-> None, version |-> ver + 1,
     expireAtMs |-> IF banMs = 0 THEN 0
                    ELSE IF banMs > TimeMax - t THEN TimeMax ELSE t + banMs]

(* t is the rule's createdAtMs, the clock its call has read.               *)
shouldPersist(i, r, t) ==
    \/ i \in AdminIds
    \/ r.expireAtMs = 0
    \/ r.expireAtMs > t /\ r.expireAtMs - t >= minTtl

-----------------------------------------------------------------------------
(* SqliteDb: every call is one transaction that commits or leaves no trace.*)

SaveTomb(i, r) == [dbTomb EXCEPT ![i] = IF @ < r.version THEN 0 ELSE @]
SaveRules(i, r) ==
    [dbRules EXCEPT ![i] =
        IF dbTomb[i] >= r.version THEN @
        ELSE IF @ = NoRule THEN r
        ELSE IF r.version > @.version THEN r ELSE @]
DelTomb(i, v) == [dbTomb EXCEPT ![i] = Max2(@, v)]
DelRules(i, v) ==
    [dbRules EXCEPT ![i] =
        IF @ = NoRule THEN @ ELSE IF @.version <= v THEN NoRule ELSE @]

DbSave(op) == /\ dbTomb' = SaveTomb(op.id, op.rule)
              /\ dbRules' = SaveRules(op.id, op.rule)
              /\ lastVer' = Max2(lastVer, op.version)
DbDel(op) == /\ dbTomb' = DelTomb(op.id, op.version)
             /\ dbRules' = DelRules(op.id, op.version)
             /\ lastVer' = Max2(lastVer, op.version)
DbApply(op) == IF op.rule = NoRule THEN DbDel(op) ELSE DbSave(op)

-----------------------------------------------------------------------------
(* The parts of an edit made under m_mtx.                                  *)

(* Mutant: the change is not logged.                                       *)
recordUnlogged(i, r) == ver' = ver + 1 /\ UNCHANGED log

record(i, r) ==
    /\ ver' = ver + 1
    /\ log' = Hub!LogAppend(log, [version |-> ver + 1, id |-> i, rule |-> r])

expiryPush(i, r) ==
    heap' = IF r.expireAtMs = 0 THEN heap
            ELSE heap \cup {[expireAtMs |-> r.expireAtMs, id |-> i,
                             version |-> r.version]}

queueRule(i, r, t) ==
    LET want == shouldPersist(i, r, t)
    IN  IF ~want /\ i \notin persisted
        THEN UNCHANGED <<persisted, pending>>
        ELSE /\ persisted' = IF want THEN persisted \cup {i} ELSE persisted \ {i}
             /\ pending' = Append(pending,
                   [id |-> i, version |-> r.version,
                    rule |-> IF want THEN r ELSE NoRule])

queueDel(i, v) ==
    IF i \notin persisted
    THEN UNCHANGED <<persisted, pending>>
    ELSE /\ persisted' = persisted \ {i}
         /\ pending' = Append(pending, [id |-> i, version |-> v, rule |-> NoRule])

PutRule(i, r, t) == /\ record(i, r)
                    /\ store' = [store EXCEPT ![i] = r]
                    /\ expiryPush(i, r)
                    /\ queueRule(i, r, t)
                    /\ promise' = [promise EXCEPT ![i] = None]

EraseRule(i) == /\ record(i, NoRule)
                /\ store' = [store EXCEPT ![i] = NoRule]
                /\ queueDel(i, ver + 1)
                /\ promise' = [promise EXCEPT ![i] = None]
                /\ UNCHANGED heap

(* onRisk and setAdmin read the clock first and then wait for m_mtx: calls *)
(* that read later may pass them.                                          *)
ReadClock(c) ==
    /\ up /\ pc[c] = "idle" /\ ver < MaxVer
    /\ pc' = [pc EXCEPT ![c] = "call"]
    /\ at' = [at EXCEPT ![c] = now]
    /\ UNCHANGED <<up, now, memVars, flushVars, mtx, due, cont, edit, announced,
                   dbVars, promise, fails, crashes>>

Calls(c) == up /\ pc[c] = "call" /\ mtx = None

StartFlush(c, next) == /\ pc' = [pc EXCEPT ![c] = "flush"]
                       /\ cont' = [cont EXCEPT ![c] = next]
                       /\ at' = [at EXCEPT ![c] = 0]
Returns(c) == /\ pc' = [pc EXCEPT ![c] = "idle"]
              /\ at' = [at EXCEPT ![c] = 0]

(* seenLocked, with the clock t of the call. A fresh report is remembered  *)
(* even when arbitration then rejects it; expired records, and the oldest  *)
(* past the limit, are dropped. A record newer than t counts as neither    *)
(* cooling nor expired: the report sets it back and queues a second node.  *)
Cooling(k, t) == k # Anon /\ seen[k] >= 0 /\ t >= seen[k] /\ t - seen[k] < CoolMs

Expired(n, t) == t >= n[2] /\ t - n[2] >= CoolMs

(* Mutant: the limit is enforced one entry early.                          *)
ForgetUpTo(k, t, n) ==
    LET all   == [seen EXCEPT ![k] = t]
        order == Append(seenOrder, <<k, t>>)
    IN  /\ seen' = [j \in Reports |->
              IF \E m \in 1 .. n : order[m] = <<j, all[j]>> THEN -1 ELSE all[j]]
        /\ seenOrder' = SubSeq(order, n + 1, Len(order))
RememberTight(k, t) ==
    ForgetUpTo(k, t, IF Len(seenOrder) + 1 >= SeenMax THEN 1 ELSE 0)

Remember(k, t) ==
    LET all   == [seen EXCEPT ![k] = t]
        order == Append(seenOrder, <<k, t>>)
        Left(n) == [j \in Reports |->
                      IF \E m \in 1 .. n : order[m] = <<j, all[j]>> THEN -1 ELSE all[j]]
        Size(f) == Cardinality({j \in Reports : f[j] >= 0})
        Enough(n) == IF n = Len(order) THEN TRUE
                     ELSE ~Expired(order[n + 1], t) /\ Size(Left(n)) <= SeenMax
    IN  \E n \in 0 .. Len(order) :
           /\ Enough(n)
           /\ \A m \in 0 .. n - 1 : ~Enough(m)
           /\ seen' = Left(n)
           /\ seenOrder' = SubSeq(order, n + 1, Len(order))

-----------------------------------------------------------------------------
(* The operations.                                                         *)

(* onRisk: a duplicate is dropped; a fresh report is remembered and, if    *)
(* arbitration lets it, becomes the rule.                                  *)
Accepts(i, r) == IF store[i] = NoRule THEN TRUE ELSE shouldReplace(i, store[i], r)

(* The ways a call returns from the critical section or before it with     *)
(* nothing changed: a duplicate, a report without a key that arbitration   *)
(* rejects, a refused expiry. (No edit is explored past the bound MaxVer.) *)
CallReturns(c) ==
    /\ Calls(c)
    /\ \/ \E k \in Reports : Cooling(k, at[c])
       \/ \E i \in RiskIds, banMs \in Ttls : ~Accepts(i, ruleFromRisk(banMs, at[c]))
       \/ \E ttlMs \in Ttls : ttlMs # 0 /\ ttlMs > TimeMax - at[c]
       \/ ver >= MaxVer
    /\ Returns(c)
    /\ UNCHANGED <<up, now, memVars, flushVars, mtx, due, cont, edit, announced,
                   dbVars, promise, fails, crashes>>

OnRiskReject(c, i, k, banMs) ==
    /\ Calls(c) /\ k # Anon /\ ~Cooling(k, at[c])
    /\ ~Accepts(i, ruleFromRisk(banMs, at[c]))
    /\ Remember(k, at[c])
    /\ Returns(c)
    /\ UNCHANGED <<up, now, epoch, ver, store, log, heap, persisted, minTtl,
                   flushVars, mtx, due, cont, edit, announced, dbVars,
                   promise, fails, crashes>>

OnRisk(c, i, k, banMs) ==
    LET r == ruleFromRisk(banMs, at[c])
    IN  /\ Calls(c) /\ ver < MaxVer /\ ~Cooling(k, at[c])
        /\ Accepts(i, r)
        /\ IF k = Anon THEN UNCHANGED <<seen, seenOrder>> ELSE Remember(k, at[c])
        /\ PutRule(i, r, at[c])
        /\ StartFlush(c, "fire")
        /\ edit' = [edit EXCEPT ![c] = None]
        /\ UNCHANGED <<up, now, epoch, minTtl, flushing, healthy, batch, done,
                       mtx, due, announced, dbVars, fails, crashes>>

(* setAdmin: an expiry past the clock's range is refused, an identical     *)
(* rule is left alone; both cases still answer, the second after a flush.  *)
AdminRule(action, ttlMs, reason, t) ==
    [action |-> action, reason |-> reason, version |-> ver + 1,
     expireAtMs |-> IF ttlMs = 0 THEN 0 ELSE t + ttlMs]

SameRule(a, b) == a.action = b.action /\ a.expireAtMs = b.expireAtMs
                  /\ a.reason = b.reason

SetAdmin(c, i, action, ttlMs, reason) ==
    LET r == AdminRule(action, ttlMs, reason, at[c])
    IN  /\ Calls(c)
        /\ ttlMs = 0 \/ ttlMs <= TimeMax - at[c]
        /\ IF store[i] # NoRule /\ SameRule(store[i], r)
           THEN /\ edit' = [edit EXCEPT ![c] = [id |-> i, rule |-> store[i]]]
                /\ StartFlush(c, "return")
                /\ UNCHANGED <<ver, store, log, heap, persisted, pending, promise>>
           ELSE /\ ver < MaxVer
                /\ PutRule(i, r, at[c])
                /\ edit' = [edit EXCEPT ![c] = [id |-> i, rule |-> r]]
                /\ StartFlush(c, "fire")
        /\ UNCHANGED <<up, now, epoch, seen, seenOrder, minTtl, flushing, healthy,
                       batch, done, mtx, due, announced, dbVars, fails, crashes>>

(* remove: any id may be named, present or not; it reads no clock.         *)
Remove(c, i) ==
    /\ up /\ pc[c] = "idle" /\ mtx = None
    /\ IF store[i] = NoRule
       THEN /\ StartFlush(c, "return")
            /\ UNCHANGED <<ver, store, log, heap, persisted, pending, promise>>
       ELSE /\ ver < MaxVer
            /\ EraseRule(i)
            /\ StartFlush(c, "fire")
    /\ edit' = [edit EXCEPT ![c] = [id |-> i, rule |-> NoRule]]
    /\ UNCHANGED <<up, now, epoch, seen, seenOrder, minTtl, flushing, healthy,
                   batch, done, mtx, due, announced, dbVars, fails, crashes>>

(* tickExpiry: flush, read the clock, pop the due nodes and handle them one*)
(* by one with m_mtx held, flush again, fire once if anything changed.     *)
TickExpiry(c) ==
    /\ up /\ pc[c] = "idle"
    /\ StartFlush(c, "sweep")
    /\ edit' = [edit EXCEPT ![c] = None]
    /\ UNCHANGED <<up, now, memVars, flushVars, mtx, due, announced, dbVars,
                   promise, fails, crashes>>

SweepRead(c) ==
    /\ up /\ pc[c] = "sweep"
    /\ pc' = [pc EXCEPT ![c] = "pop"]
    /\ at' = [at EXCEPT ![c] = now]
    /\ UNCHANGED <<up, now, memVars, flushVars, mtx, due, cont, edit, announced,
                   dbVars, promise, fails, crashes>>

SweepBegin(c) ==
    /\ up /\ pc[c] = "pop" /\ mtx = None
    /\ due' = {n \in heap : n.expireAtMs <= at[c]}
    /\ heap' = heap \ due'
    /\ mtx' = c
    /\ cont' = [cont EXCEPT ![c] = "return"]
    /\ UNCHANGED <<up, now, epoch, ver, store, log, seen, seenOrder, persisted,
                   minTtl, flushVars, at, pc, edit, announced, dbVars, promise,
                   fails, crashes>>

(* Mutants: a node stands for its id alone; a rule is due one tick late.   *)
ReapsById(n, t) == store[n.id] # NoRule
ReapsLate(n, t) == /\ store[n.id] # NoRule /\ store[n.id].version = n.version
                   /\ store[n.id].expireAtMs # 0 /\ t > store[n.id].expireAtMs

Reaps(n, t) == /\ store[n.id] # NoRule
               /\ store[n.id].version = n.version
               /\ store[n.id].expireAtMs # 0 /\ t >= store[n.id].expireAtMs

SweepNode(c) ==
    /\ up /\ pc[c] = "pop" /\ mtx = c
    /\ \E n \in due :
         /\ \A m \in due : n.expireAtMs <= m.expireAtMs
         /\ due' = due \ {n}
         /\ IF Reaps(n, at[c])
            THEN /\ EraseRule(n.id)
                 /\ cont' = [cont EXCEPT ![c] = "fire"]
            ELSE UNCHANGED <<ver, store, log, heap, persisted, pending, promise, cont>>
    /\ UNCHANGED <<up, now, epoch, seen, seenOrder, minTtl, flushing, healthy,
                   batch, done, mtx, at, pc, edit, announced, dbVars, fails, crashes>>

SweepEnd(c) ==
    /\ up /\ pc[c] = "pop" /\ mtx = c /\ due = {}
    /\ mtx' = None /\ at' = [at EXCEPT ![c] = 0]
    /\ pc' = [pc EXCEPT ![c] = "flush"]
    /\ UNCHANGED <<up, now, memVars, flushVars, due, cont, edit, announced,
                   dbVars, promise, fails, crashes>>

-----------------------------------------------------------------------------
(* flushPersistence, one action per atomic step.                           *)

FlushReturns(c) ==
    /\ pc' = [pc EXCEPT ![c] = IF cont[c] = "return" THEN "idle" ELSE cont[c]]
    /\ edit' = [edit EXCEPT ![c] = None]

(* Mutants: the loser of the flag answers durable; it forgets to fire.     *)
FlushEnterDurable(c) ==
    /\ up /\ pc[c] \in {"flush", "retry"}
    /\ IF flushing
       THEN /\ FlushReturns(c) /\ UNCHANGED flushing
            /\ promise' = IF edit[c] # None /\ edit[c].rule = store[edit[c].id]
                          THEN [promise EXCEPT ![edit[c].id] = edit[c].rule] ELSE promise
       ELSE /\ flushing' = TRUE /\ pc' = [pc EXCEPT ![c] = "take"]
            /\ UNCHANGED <<edit, promise>>
    /\ UNCHANGED <<up, now, memVars, pending, healthy, batch, done, sweepVars,
                   cont, announced, dbVars, fails, crashes>>
FlushEnterSilent(c) ==
    /\ up /\ pc[c] \in {"flush", "retry"}
    /\ flushing' = TRUE
    /\ pc' = [pc EXCEPT ![c] = IF flushing THEN "idle" ELSE "take"]
    /\ UNCHANGED <<up, now, memVars, pending, healthy, batch, done, sweepVars,
                   cont, edit, announced, dbVars, promise, fails, crashes>>

(* The compare-exchange on m_flushing, on entry and after the re-check. A  *)
(* caller that loses it answers persist_failed.                            *)
FlushEnter(c) ==
    /\ up /\ pc[c] \in {"flush", "retry"}
    /\ IF flushing
       THEN FlushReturns(c) /\ UNCHANGED flushing
       ELSE flushing' = TRUE /\ pc' = [pc EXCEPT ![c] = "take"] /\ UNCHANGED edit
    /\ UNCHANGED <<up, now, memVars, pending, healthy, batch, done, sweepVars,
                   cont, announced, dbVars, promise, fails, crashes>>

FlushTake(c) ==
    /\ up /\ pc[c] = "take"
    /\ IF pending = << >>
       THEN pc' = [pc EXCEPT ![c] = "release"] /\ UNCHANGED batch
       ELSE /\ batch' = [batch EXCEPT ![c] =
                  SubSeq(pending, 1, IF Len(pending) < Batch THEN Len(pending) ELSE Batch)]
            /\ pc' = [pc EXCEPT ![c] = "write"]
    /\ UNCHANGED <<up, now, memVars, pending, flushing, healthy, done, sweepVars,
                   cont, edit, announced, dbVars, promise, fails, crashes>>

(* One transaction of the batch, run by the pool thread.                   *)
FlushWrite(c) ==
    /\ up /\ pc[c] = "write" /\ done[c] < Len(batch[c])
    /\ DbApply(batch[c][done[c] + 1])
    /\ done' = [done EXCEPT ![c] = @ + 1]
    /\ UNCHANGED <<up, now, memVars, pending, flushing, healthy, batch, sweepVars,
                   pc, cont, edit, announced, promise, fails, crashes>>

(* The whole batch went through: drop it from the queue and look again.    *)
FlushDone(c) ==
    /\ up /\ pc[c] = "write" /\ done[c] = Len(batch[c])
    /\ pending' = SubSeq(pending, done[c] + 1, Len(pending))
    /\ batch' = [batch EXCEPT ![c] = << >>]
    /\ done' = [done EXCEPT ![c] = 0]
    /\ pc' = [pc EXCEPT ![c] = "take"]
    /\ UNCHANGED <<up, now, memVars, flushing, healthy, sweepVars, cont, edit,
                    announced, dbVars, promise, fails, crashes>>

(* Mutants: the whole batch is dropped; the flag stays up.                 *)
FlushFailDrops(c) ==
    /\ up /\ pc[c] = "write" /\ done[c] < Len(batch[c]) /\ fails < MaxFail
    /\ pending' = SubSeq(pending, Len(batch[c]) + 1, Len(pending))
    /\ batch' = [batch EXCEPT ![c] = << >>] /\ done' = [done EXCEPT ![c] = 0]
    /\ healthy' = FALSE /\ flushing' = FALSE
    /\ fails' = fails + 1
    /\ FlushReturns(c)
    /\ UNCHANGED <<up, now, memVars, sweepVars, cont, announced, dbVars, promise, crashes>>
FlushFailStuck(c) ==
    /\ up /\ pc[c] = "write" /\ done[c] < Len(batch[c]) /\ fails < MaxFail
    /\ pending' = SubSeq(pending, done[c] + 1, Len(pending))
    /\ batch' = [batch EXCEPT ![c] = << >>] /\ done' = [done EXCEPT ![c] = 0]
    /\ healthy' = FALSE /\ fails' = fails + 1
    /\ FlushReturns(c)
    /\ UNCHANGED <<up, now, memVars, flushing, sweepVars, cont, announced, dbVars,
                   promise, crashes>>

(* A transaction fails (done operations are dropped, the rest stays queued)*)
(* or throws out of offload (nothing is dropped, whatever was applied).    *)
FlushFail(c) ==
    /\ up /\ pc[c] = "write" /\ done[c] < Len(batch[c]) /\ fails < MaxFail
    /\ \E n \in {0, done[c]} : pending' = SubSeq(pending, n + 1, Len(pending))
    /\ batch' = [batch EXCEPT ![c] = << >>]
    /\ done' = [done EXCEPT ![c] = 0]
    /\ healthy' = FALSE /\ flushing' = FALSE
    /\ fails' = fails + 1
    /\ FlushReturns(c)
    /\ UNCHANGED <<up, now, memVars, sweepVars, cont, announced, dbVars, promise,
                   crashes>>

FlushRelease(c) ==
    /\ up /\ pc[c] = "release"
    /\ flushing' = FALSE
    /\ pc' = [pc EXCEPT ![c] = "recheck"]
    /\ UNCHANGED <<up, now, memVars, pending, healthy, batch, done, sweepVars,
                   cont, edit, announced, dbVars, promise, fails, crashes>>

(* Mutant: no second look at the queue.                                    *)
FlushRecheckBlind(c) ==
    /\ up /\ pc[c] = "recheck"
    /\ healthy' = TRUE
    /\ FlushReturns(c)
    /\ UNCHANGED <<up, now, memVars, pending, flushing, batch, done, sweepVars,
                   cont, announced, dbVars, promise, fails, crashes>>

(* An operation queued while the flag was still up found it taken and left:*)
(* the releasing caller must look again. If the queue is empty it answers  *)
(* durable, which is a promise about the edited id until the next edit.    *)
FlushRecheck(c) ==
    /\ up /\ pc[c] = "recheck"
    /\ IF pending = << >>
       THEN /\ healthy' = TRUE
            /\ FlushReturns(c)
            /\ promise' = IF edit[c] # None /\ edit[c].rule = store[edit[c].id]
                          THEN [promise EXCEPT ![edit[c].id] = edit[c].rule]
                          ELSE promise
       ELSE pc' = [pc EXCEPT ![c] = "retry"] /\ UNCHANGED <<healthy, promise, edit>>
    /\ UNCHANGED <<up, now, memVars, pending, flushing, batch, done, sweepVars,
                   cont, announced, dbVars, fails, crashes>>

(* fire: the broadcaster wakes every session, which reads the version then.*)
Fire(c) ==
    /\ up /\ pc[c] = "fire"
    /\ announced' = ver
    /\ pc' = [pc EXCEPT ![c] = "idle"]
    /\ cont' = [cont EXCEPT ![c] = "return"]
    /\ UNCHANGED <<up, now, memVars, flushVars, sweepVars, edit, dbVars,
                   promise, fails, crashes>>

-----------------------------------------------------------------------------
(* The environment: time, crashes, and a start (constructor and restore).  *)

Clock == /\ now < MaxNow
         /\ now' = now + 1
         /\ UNCHANGED <<up, memVars, flushVars, sweepVars, pc, cont, edit,
                        announced, dbVars, promise, fails, crashes>>

(* Everything in memory is lost; the rules subscribers last saw stand until*)
(* the next start replaces them.                                           *)
Crash == /\ up /\ crashes < MaxCrash
         /\ up' = FALSE
         /\ crashes' = crashes + 1
         /\ heap' = {} /\ persisted' = {}
         /\ seen' = [k \in Reports |-> -1] /\ seenOrder' = << >>
         /\ pending' = << >> /\ flushing' = FALSE /\ healthy' = TRUE
         /\ batch' = [c \in Callers |-> << >>] /\ done' = [c \in Callers |-> 0]
         /\ mtx' = None /\ due' = {} /\ at' = [c \in Callers |-> 0]
         /\ pc' = [c \in Callers |-> "idle"]
         /\ cont' = [c \in Callers |-> "return"]
         /\ edit' = [c \in Callers |-> None]
         /\ UNCHANGED <<now, epoch, ver, store, log, minTtl, announced, dbVars,
                        promise, fails>>

Loaded == [i \in Ids |->
             IF dbRules[i] = NoRule THEN NoRule
             ELSE IF dbRules[i].expireAtMs # 0 /\ dbRules[i].expireAtMs <= now
             THEN NoRule ELSE dbRules[i]]

(* Mutant: loaded rules are not put back into the expiry heap.             *)
RestoreUntimed ==
    /\ ~up
    /\ up' = TRUE
    /\ epoch' = epoch + 1
    /\ dbRules' = Loaded /\ store' = Loaded
    /\ ver' = lastVer /\ announced' = lastVer
    /\ log' = << >> /\ heap' = {}
    /\ persisted' = {i \in Ids : Loaded[i] # NoRule}
    /\ minTtl' \in MinTtls
    /\ UNCHANGED <<now, seen, seenOrder, flushVars, sweepVars, pc, cont, edit,
                   dbTomb, lastVer, promise, fails, crashes>>

Restore ==
    /\ ~up
    /\ up' = TRUE
    /\ epoch' = epoch + 1
    /\ dbRules' = Loaded
    /\ store' = Loaded
    /\ ver' = lastVer
    /\ announced' = lastVer
    /\ log' = << >>
    /\ heap' = {[expireAtMs |-> Loaded[i].expireAtMs, id |-> i,
                 version |-> Loaded[i].version] :
                  i \in {j \in Ids : Loaded[j] # NoRule /\ Loaded[j].expireAtMs # 0}}
    /\ persisted' = {i \in Ids : Loaded[i] # NoRule}
    /\ minTtl' \in MinTtls
    /\ UNCHANGED <<now, seen, seenOrder, flushVars, sweepVars, pc, cont, edit,
                   dbTomb, lastVer, promise, fails, crashes>>

Init ==
    /\ up = TRUE /\ now = 0
    /\ epoch = 1 /\ ver = 0 /\ store = [i \in Ids |-> NoRule] /\ log = << >>
    /\ heap = {} /\ seen = [k \in Reports |-> -1] /\ seenOrder = << >>
    /\ persisted = {} /\ minTtl \in MinTtls
    /\ pending = << >> /\ flushing = FALSE /\ healthy = TRUE
    /\ batch = [c \in Callers |-> << >>] /\ done = [c \in Callers |-> 0]
    /\ mtx = None /\ due = {} /\ at = [c \in Callers |-> 0]
    /\ pc = [c \in Callers |-> "idle"]
    /\ cont = [c \in Callers |-> "return"]
    /\ edit = [c \in Callers |-> None]
    /\ announced = 0
    /\ dbRules = [i \in Ids |-> NoRule] /\ dbTomb = [i \in Ids |-> 0] /\ lastVer = 0
    /\ promise = [i \in Ids |-> None]
    /\ fails = 0 /\ crashes = 0

FlushStep(c) == \/ FlushEnter(c) \/ FlushTake(c) \/ FlushWrite(c) \/ FlushDone(c)
                \/ FlushRelease(c) \/ FlushRecheck(c) \/ Fire(c)
SweepStep(c) == SweepRead(c) \/ SweepBegin(c) \/ SweepNode(c) \/ SweepEnd(c)
EditCall(c) ==
    \/ \E i \in RiskIds, k \in Reports \cup {Anon}, t \in Ttls :
          OnRisk(c, i, k, t) \/ OnRiskReject(c, i, k, t)
    \/ \E i \in AdminIds, a \in Acts, t \in Ttls, w \in Reasons : SetAdmin(c, i, a, t, w)
    \/ CallReturns(c)

Next == \/ \E c \in Callers : \/ ReadClock(c) \/ EditCall(c) \/ \E i \in Ids : Remove(c, i)
                              \/ TickExpiry(c) \/ SweepStep(c)
                              \/ FlushStep(c) \/ FlushFail(c)
        \/ Clock \/ Crash \/ Restore

Spec == Init /\ [][Next]_vars

-----------------------------------------------------------------------------
(* Properties.                                                             *)

(* Every variable has its type.                                            *)
TypeOK ==
    /\ up \in BOOLEAN /\ now \in 0 .. MaxNow
    /\ epoch \in Nat /\ ver \in Nat
    /\ store \in [Ids -> Rules \cup {NoRule}]
    /\ log \in Seq([version : Nat, id : Ids, rule : Rules \cup {NoRule}])
    /\ heap \subseteq Node /\ due \subseteq Node /\ at \in [Callers -> 0 .. MaxNow]
    /\ seen \in [Reports -> -1 .. MaxNow]
    /\ seenOrder \in Seq(Reports \X (0 .. MaxNow))
    /\ persisted \subseteq Ids /\ minTtl \in MinTtls
    /\ pending \in Seq(PersistOp)
    /\ flushing \in BOOLEAN /\ healthy \in BOOLEAN
    /\ mtx \in Callers \cup {None}
    /\ pc \in [Callers -> PCs] /\ cont \in [Callers -> Conts]
    /\ batch \in [Callers -> Seq(PersistOp)] /\ done \in [Callers -> Nat]
    /\ edit \in [Callers -> Edit \cup {None}]
    /\ announced \in Nat
    /\ dbRules \in [Ids -> Rules \cup {NoRule}]
    /\ dbTomb \in [Ids -> Nat] /\ lastVer \in Nat
    /\ promise \in [Ids -> Rules \cup {NoRule, None}]
    /\ fails \in Nat /\ crashes \in Nat

(* The queue and the database together always hold what memory wants kept: *)
(* the last operation on an id that has not reached the database yet, or   *)
(* else the row itself, is the rule the engine means to survive a restart. *)
(* Failed and half-applied batches, replays and the version guard included.*)
Want(i) == IF i \in persisted THEN store[i] ELSE NoRule
Unapplied(i) == {n \in 1 .. Len(pending) :
                   pending[n].id = i /\ pending[n].version > lastVer}
DbCatchesUp ==
    up => \A i \in Ids :
            /\ Unapplied(i) = {} => dbRules[i] = Want(i)
            /\ \A n \in Unapplied(i) :
                 (\A m \in Unapplied(i) : m <= n) => pending[n].rule = Want(i)

(* An edit that was answered durable outlives any crash: until somebody    *)
(* edits that id again, the database and the running engine both hold      *)
(* exactly its outcome (a rule that has expired meanwhile may be gone).    *)
Lapsed(r) == r # NoRule /\ r.expireAtMs # 0 /\ r.expireAtMs <= now
Holds(x, i) == x = promise[i] \/ (x = NoRule /\ Lapsed(promise[i]))
DurableEditSurvives ==
    \A i \in Ids : promise[i] # None =>
        Holds(dbRules[i], i) /\ (up => Holds(store[i], i))

(* No operation is forgotten in the queue: when something is queued, either*)
(* a caller is on its way to write it or the engine reports itself         *)
(* unhealthy (the release / re-check dance of flushPersistence).           *)
QueueIsWatched ==
    up /\ pending # << >> =>
        ~healthy \/ \E c \in Callers : pc[c] \notin {"idle", "call", "fire"}

(* When no call is past its critical section, every version was announced  *)
(* to the broadcaster, also when the database failed or another caller held*)
(* the flush flag.                                                         *)
ChangesAnnounced ==
    up /\ (\A c \in Callers : pc[c] \in {"idle", "call"}) => announced = ver

(* Every rule with an expiry time is in the heap under its current version *)
(* (or among the nodes a running sweep has popped), so that it cannot be   *)
(* forgotten after a renewal or a restart.                                 *)
TimedRulesTracked ==
    up => \A i \in Ids :
            store[i] # NoRule /\ store[i].expireAtMs # 0 =>
               [expireAtMs |-> store[i].expireAtMs, id |-> i,
                version |-> store[i].version] \in heap \cup due

(* A sweep removes only rules whose own expiry time has passed: a stale    *)
(* heap node never removes the renewed rule.                               *)
SweepRemovesOnlyDue ==
    [][\A i \in Ids :
         mtx # None /\ store[i] # NoRule /\ store'[i] = NoRule /\ up'
         => Lapsed(store[i])]_vars

(* The memory of reports is bounded and leaks nothing: every key in m_seen *)
(* has its node in m_seenOrder, through which it will be dropped.          *)
SeenBounded ==
    LET keys == {k \in Reports : seen[k] >= 0}
    IN  /\ Cardinality(keys) <= SeenMax
        /\ \A k \in keys : \E n \in 1 .. Len(seenOrder) : seenOrder[n] = <<k, seen[k]>>

(* A key whose cooldown still runs is forgotten only to make room when the *)
(* limit is reached. At worst a report that read its clock earlier and was *)
(* overtaken on the way to m_mtx sets the key back to the time it read; a  *)
(* stale node of such a key never takes the key along. The memory of       *)
(* reports is bounded all the time.                                        *)
Overtaken(k) == {t \in {at[c] : c \in Callers} : t < seen[k]}
CoolingRemembered ==
    /\ []SeenBounded
    /\ [][\A k \in Reports :
            /\ Cooling(k, now) /\ up'
            /\ Cardinality({j \in Reports : seen[j] >= 0}) < SeenMax
            => seen'[k] \in {seen[k]} \cup Overtaken(k)]_vars

(* The engine keeps the promises of RuleHub to its subscribers.            *)
ImplementsHub == Hub!HubSpec

(* The timer's tick comes back every expiryTickMs whatever the other       *)
(* callers do, and takes any free caller: hence strong fairness. Calls go  *)
(* on and return, and a process that died is started again.                *)
Fairness == /\ \A c \in Callers : /\ WF_vars(EditCall(c))
                                  /\ WF_vars(FlushStep(c))
                                  /\ WF_vars(SweepStep(c))
            /\ SF_vars(\E c \in Callers : TickExpiry(c))
            /\ WF_vars(Restore) /\ WF_vars(Clock)

FairSpec == Spec /\ Fairness

(* Once the database stops failing, whatever is queued gets written.       *)
QueueDrains == (up /\ pending # << >>) ~> (pending = << >>)

(* A rule whose time has come is removed.                                  *)
DueRulesLeave ==
    \A i \in Ids : (store[i] # NoRule /\ Lapsed(store[i])) ~> (store[i] = NoRule \/ ~Lapsed(store[i]))
=============================================================================
