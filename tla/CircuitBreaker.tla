--------------------------- MODULE CircuitBreaker ---------------------------
(***************************************************************************)
(* The circuit breaker of an endpoint (ronduan.cpp), as operators on its    *)
(* state: one record per breaker. Every operation of the class runs under   *)
(* its mutex, so each is one operator. Time is counted in buckets of the    *)
(* window (width 1); the counts of moves, a metric, are left out.           *)
(***************************************************************************)
EXTENDS Integers, FiniteSets, FiniteSetsExt

CONSTANTS
    Threshold,      \* failureThreshold: failures in a row that open
    MinRequests,    \* results in the window before rates count
    FailureRate,    \* in per cent, 0: off
    SlowRate,       \* in per cent, 0: off
    Buckets,        \* size of the ring of buckets
    Keep,           \* buckets that windowMs covers; more than Buckets after rounding
    OpenMs,         \* openTimeoutMs
    MaxOpenMs,      \* maxOpenTimeoutMs
    HalfOpenMax,    \* halfOpenMaxRequests
    HalfOpenOk      \* halfOpenSuccesses

(* What the constructor enforces on the configuration.                     *)
ASSUME BreakerAssumption ==
    /\ Threshold \in Nat \ {0} /\ MinRequests \in Nat \ {0}
    /\ FailureRate \in 0 .. 100 /\ SlowRate \in 0 .. 100
    /\ Buckets \in Nat \ {0} /\ Keep \in Nat \ {0}
    /\ OpenMs \in Nat \ {0} /\ MaxOpenMs \in Nat /\ OpenMs <= MaxOpenMs
    /\ HalfOpenMax \in Nat \ {0} /\ HalfOpenOk \in 1 .. HalfOpenMax

States == {"CLOSED", "OPEN", "HALF_OPEN"}
Marks == {"OK", "FAIL", "SKIP"}
Ret == [mark : Marks, slow : BOOLEAN]
Count == [requests : Nat, failures : Nat, slows : Nat]
Bucket == [tick : Nat, cnt : Count]
Breaker == [state : States, consec : Nat, pending : Nat, ok : Nat, openMs : Nat,
            openAt : Nat, turn : Nat, buckets : [0 .. Buckets - 1 -> Bucket]]

Zero == [requests |-> 0, failures |-> 0, slows |-> 0]
NoBuckets == [k \in 0 .. Buckets - 1 |-> [tick |-> 0, cnt |-> Zero]]

NewBreaker == [state |-> "CLOSED", consec |-> 0, pending |-> 0, ok |-> 0,
               openMs |-> OpenMs, openAt |-> 0, turn |-> 1, buckets |-> NoBuckets]

(* Every change of state starts a new turn.                                *)
move(b, to) == IF b.state = to THEN b ELSE [b EXCEPT !.state = to, !.turn = @ + 1]

\* Mutant: the pause is doubled without a limit.
toOpenUnlimited(b, again, now) ==
    [move(b, "OPEN") EXCEPT !.openMs = IF again THEN 2 * b.openMs ELSE OpenMs,
                            !.openAt = now, !.pending = 0, !.ok = 0]

(* A failed probe doubles the pause, up to the maximum.                    *)
toOpen(b, again, now) ==
    [move(b, "OPEN") EXCEPT !.openMs = IF again THEN Min({2 * b.openMs, MaxOpenMs}) ELSE OpenMs,
                            !.openAt = now, !.pending = 0, !.ok = 0]

toClosed(b) ==
    [move(b, "CLOSED") EXCEPT !.consec = 0, !.pending = 0, !.ok = 0,
                              !.openMs = OpenMs, !.buckets = NoBuckets]

toHalfOpen(b) == [move(b, "HALF_OPEN") EXCEPT !.pending = 0, !.ok = 0]

Elapsed(b, now) == now - b.openAt >= b.openMs

(* The cheap look without effect that selects candidates.                  *)
canTry(b, now) ==
    \/ b.state = "CLOSED"
    \/ b.state = "HALF_OPEN" /\ b.pending < HalfOpenMax
    \/ b.state = "OPEN" /\ Elapsed(b, now)

(* isAllowed: whether the request is let through, and the breaker after it. *)
Woken(b, now) == IF b.state = "OPEN" /\ Elapsed(b, now) THEN toHalfOpen(b) ELSE b
Allows(b, now) ==
    LET w == Woken(b, now)
    IN  \/ w.state = "CLOSED"
        \/ w.state = "HALF_OPEN" /\ w.pending < HalfOpenMax
isAllowed(b, now) ==
    LET w == Woken(b, now)
    IN  IF Allows(b, now) /\ w.state = "HALF_OPEN" THEN [w EXCEPT !.pending = @ + 1] ELSE w

-----------------------------------------------------------------------------
(* The window: a ring of buckets, each of one tick.                        *)
Plus(c, ret) == [requests |-> c.requests + 1,
                 failures |-> c.failures + (IF ret.mark = "FAIL" THEN 1 ELSE 0),
                 slows |-> c.slows + (IF ret.slow THEN 1 ELSE 0)]

\* Mutant: the bucket of an earlier round is counted on.
addBucketOld(b, ret, now) ==
    [b EXCEPT !.buckets[now % Buckets] = [tick |-> now, cnt |-> Plus(@.cnt, ret)]]

addBucket(b, ret, now) ==
    [b EXCEPT !.buckets[now % Buckets] =
        [tick |-> now, cnt |-> Plus(IF @.tick = now THEN @.cnt ELSE Zero, ret)]]

InWindow(t, now) == t # 0 /\ t <= now /\ now - t < Keep
SumOver(S, f) == [c \in {"requests", "failures", "slows"} |->
                    MapThenSumSet(LAMBDA k : f[k][c], S)]
snapLocked(b, now) ==
    SumOver({k \in 0 .. Buckets - 1 : InWindow(b.buckets[k].tick, now)},
            [k \in 0 .. Buckets - 1 |-> b.buckets[k].cnt])

RateOpen(c) ==
    /\ c.requests >= MinRequests
    /\ \/ FailureRate > 0 /\ (c.failures * 100) \div c.requests >= FailureRate
       \/ SlowRate > 0 /\ (c.slows * 100) \div c.requests >= SlowRate

\* Mutant: a probe without verdict keeps its slot.
recordHalfOpenKeep(b, ret, now) ==
    LET d == [b EXCEPT !.pending = IF @ > 0 THEN @ - 1 ELSE 0]
    IN  CASE ret.mark = "SKIP" -> b
          [] ret.mark = "FAIL" -> toOpen(d, TRUE, now)
          [] ret.mark = "OK"   -> IF d.ok + 1 >= HalfOpenOk THEN toClosed(d)
                                                            ELSE [d EXCEPT !.ok = @ + 1]

recordHalfOpen(b, ret, now) ==
    LET d == [b EXCEPT !.pending = IF @ > 0 THEN @ - 1 ELSE 0]
    IN  CASE ret.mark = "SKIP" -> d
          [] ret.mark = "FAIL" -> toOpen(d, TRUE, now)
          [] ret.mark = "OK"   -> IF d.ok + 1 >= HalfOpenOk THEN toClosed(d)
                                                            ELSE [d EXCEPT !.ok = @ + 1]

recordClosed(b, ret, now) ==
    LET d == addBucket([b EXCEPT !.consec = IF ret.mark = "FAIL" THEN @ + 1 ELSE 0], ret, now)
    IN  IF d.consec >= Threshold \/ RateOpen(snapLocked(d, now)) THEN toOpen(d, FALSE, now)
                                                                 ELSE d

\* Mutant: a result counts whenever it comes.
recordLate(b, ret, turn, now) ==
    CASE b.state = "OPEN" -> b
      [] b.state = "HALF_OPEN" -> recordHalfOpen(b, ret, now)
      [] b.state = "CLOSED" -> IF ret.mark = "SKIP" THEN b ELSE recordClosed(b, ret, now)

(* A result counts in the turn in which the request was let through.       *)
record(b, ret, turn, now) ==
    IF turn # 0 /\ turn # b.turn THEN b
    ELSE CASE b.state = "OPEN" -> b
           [] b.state = "HALF_OPEN" -> recordHalfOpen(b, ret, now)
           [] b.state = "CLOSED" -> IF ret.mark = "SKIP" THEN b ELSE recordClosed(b, ret, now)
=============================================================================
