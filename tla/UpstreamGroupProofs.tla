------------------------ MODULE UpstreamGroupProofs -------------------------
(***************************************************************************)
(* Proofs about UpstreamGroup, for any number of requests, endpoints and    *)
(* connections: the counts of admission are exact (CountsExact), probes use *)
(* new connections (ProbeIsFresh), a connection has one owner and is clean  *)
(* when it is pooled (PoolSound), a closed breaker is reset, the ring of    *)
(* its window holds what was counted and the snapshot adds that up          *)
(* (BreakerSound), and every breaker implements its promise (KeepsPromise). *)
(*                                                                          *)
(* The argument has three layers. The operators of the breaker: what each   *)
(* does to the fields that matter. The steps of a request: each is          *)
(* described once (Does) by what it does to the hold, to the breaker and to *)
(* the connection. The invariants: each is shown for these kinds of step    *)
(* and not for every action. What makes them inductive are Places (what a   *)
(* request has in hand at each program point), Turns (no request is ahead   *)
(* of its breaker) and SentFresh (a request was sent to the pool in a turn  *)
(* that is not a half-open one). The ring has an invariant of its own,      *)
(* RingInv, on top. The snapshot is a sum over a finite set: that its       *)
(* recursive definition has a solution and that summands can be taken in    *)
(* any order is shown by induction over the size of the set (Numbers).      *)
(***************************************************************************)
EXTENDS UpstreamGroup, FiniteSetTheorems, NaturalsInduction, WellFoundedInduction, TLAPS

(* The operators of the breaker.                                           *)

(* The smaller of two numbers.                                             *)
LEMMA MinOfTwo ==
  ASSUME NEW a \in Int, NEW b \in Int
  PROVE  Min({a, b}) = IF a <= b THEN a ELSE b
  <1> DEFINE m == IF a <= b THEN a ELSE b
  <1>1. m \in {a, b} /\ \A y \in {a, b} : m <= y
    OBVIOUS
  <1>2. ASSUME NEW x \in {a, b}, \A y \in {a, b} : x <= y PROVE x = m
    BY <1>2
  <1> HIDE DEF m
  <1>3. Min({a, b}) = m
    BY <1>1, <1>2 DEF Min
  <1> QED
    BY <1>3 DEF m

(* move: a change of state starts a new turn and touches nothing else.     *)
LEMMA MoveFields ==
  ASSUME NEW b \in Breaker, NEW to \in States, b.state # to
  PROVE  /\ move(b, to) \in Breaker
         /\ move(b, to).state = to /\ move(b, to).turn = b.turn + 1
         /\ move(b, to).consec = b.consec /\ move(b, to).openMs = b.openMs
  <1>1. b.turn + 1 \in Nat
    BY DEF Breaker
  <1> QED
    BY <1>1 DEF move, Breaker

(* The breaker that the constructor makes is one.                          *)
LEMMA NewBreakerType == NewBreaker \in Breaker
  <1>1. NoBuckets \in [0 .. Buckets - 1 -> Bucket]
    BY DEF NoBuckets, Bucket, Count, Zero
  <1> QED
    BY <1>1, BreakerAssumption DEF NewBreaker, Breaker, States

(* The pause after a failed probe.                                         *)
Doubled(b) == IF 2 * b.openMs <= MaxOpenMs THEN 2 * b.openMs ELSE MaxOpenMs

(* toOpen: the pause starts now, and is the first one or the doubled one.  *)
LEMMA ToOpenFields ==
  ASSUME NEW b \in Breaker, NEW again \in BOOLEAN, NEW t \in Nat, b.state # "OPEN"
  PROVE  LET c == toOpen(b, again, t)
         IN  /\ c \in Breaker
             /\ c.state = "OPEN" /\ c.turn = b.turn + 1 /\ c.openAt = t
             /\ c.pending = 0 /\ c.ok = 0
             /\ c.openMs = IF again THEN Doubled(b) ELSE OpenMs
  <1> DEFINE m == move(b, "OPEN")
             p == IF again THEN Doubled(b) ELSE OpenMs
  <1>1. 2 * b.openMs \in Nat /\ MaxOpenMs \in Nat /\ OpenMs \in Nat
    BY BreakerAssumption DEF Breaker
  <1>2. Min({2 * b.openMs, MaxOpenMs}) = Doubled(b)
    BY <1>1, MinOfTwo DEF Doubled
  <1>3. m \in Breaker /\ m.state = "OPEN" /\ m.turn = b.turn + 1
    BY MoveFields DEF States
  <1>4. p \in Nat
    BY <1>1 DEF Doubled
  <1>5. toOpen(b, again, t) = [m EXCEPT !.openMs = p, !.openAt = t, !.pending = 0, !.ok = 0]
    BY <1>2 DEF toOpen
  <1> HIDE DEF m, p
  <1>6. ASSUME NEW c, c = [m EXCEPT !.openMs = p, !.openAt = t, !.pending = 0, !.ok = 0]
        PROVE  /\ c \in Breaker /\ c.state = m.state /\ c.turn = m.turn /\ c.openMs = p
               /\ c.openAt = t /\ c.pending = 0 /\ c.ok = 0
    BY <1>3, <1>4, <1>6 DEF Breaker
  <1>7. LET c == toOpen(b, again, t)
        IN  /\ c \in Breaker /\ c.state = m.state /\ c.turn = m.turn /\ c.openMs = p
            /\ c.openAt = t /\ c.pending = 0 /\ c.ok = 0
    BY <1>5, <1>6
  <1> QED
    BY <1>3, <1>7 DEF p

(* toClosed: all counts start again, and the next pause is the first one.  *)
LEMMA ToClosedFields ==
  ASSUME NEW b \in Breaker, b.state # "CLOSED"
  PROVE  LET c == toClosed(b)
         IN  /\ c \in Breaker
             /\ c.state = "CLOSED" /\ c.turn = b.turn + 1 /\ c.consec = 0
             /\ c.pending = 0 /\ c.ok = 0 /\ c.openMs = OpenMs
  <1>1. NoBuckets \in [0 .. Buckets - 1 -> Bucket]
    BY DEF NoBuckets, Bucket, Count, Zero
  <1>2. "CLOSED" \in States
    BY DEF States
  <1> DEFINE m == move(b, "CLOSED")
  <1>3. m \in Breaker /\ m.state = "CLOSED" /\ m.turn = b.turn + 1
    BY <1>2, MoveFields
  <1> HIDE DEF m
  <1>4. toClosed(b) = [m EXCEPT !.consec = 0, !.pending = 0, !.ok = 0, !.openMs = OpenMs,
                                !.buckets = NoBuckets]
    BY DEF toClosed, m
  <1>5. ASSUME NEW n \in Breaker, NEW c,
               c = [n EXCEPT !.consec = 0, !.pending = 0, !.ok = 0, !.openMs = OpenMs,
                             !.buckets = NoBuckets]
        PROVE  /\ c \in Breaker /\ c.state = n.state /\ c.turn = n.turn /\ c.openMs = OpenMs
               /\ c.pending = 0 /\ c.ok = 0 /\ c.consec = 0
    BY <1>1, <1>5, BreakerAssumption DEF Breaker
  <1> QED
    BY <1>3, <1>4, <1>5

(* toHalfOpen: no probe is out yet; the pause is remembered.               *)
LEMMA ToHalfOpenFields ==
  ASSUME NEW b \in Breaker, b.state # "HALF_OPEN"
  PROVE  LET c == toHalfOpen(b)
         IN  /\ c \in Breaker
             /\ c.state = "HALF_OPEN" /\ c.turn = b.turn + 1
             /\ c.pending = 0 /\ c.ok = 0 /\ c.openMs = b.openMs
  <1>1. "HALF_OPEN" \in States
    BY DEF States
  <1> DEFINE m == move(b, "HALF_OPEN")
  <1>2. m \in Breaker /\ m.state = "HALF_OPEN" /\ m.turn = b.turn + 1 /\ m.openMs = b.openMs
    BY <1>1, MoveFields
  <1> HIDE DEF m
  <1>3. toHalfOpen(b) = [m EXCEPT !.pending = 0, !.ok = 0]
    BY DEF toHalfOpen, m
  <1>4. ASSUME NEW n \in Breaker, NEW c, c = [n EXCEPT !.pending = 0, !.ok = 0]
        PROVE  /\ c \in Breaker /\ c.state = n.state /\ c.turn = n.turn /\ c.openMs = n.openMs
               /\ c.pending = 0 /\ c.ok = 0
    BY <1>4 DEF Breaker
  <1> QED
    BY <1>2, <1>3, <1>4

(* What isAllowed answers and does, by the state of the breaker.           *)
LEMMA IsAllowedEffect ==
  ASSUME NEW b \in Breaker, NEW t \in Nat
  PROVE  LET c == isAllowed(b, t)
         IN  /\ c \in Breaker
             /\ b.state = "CLOSED" => c = b /\ Allows(b, t)
             /\ b.state = "HALF_OPEN" =>
                  /\ c.state = b.state /\ c.turn = b.turn /\ c.ok = b.ok /\ c.openMs = b.openMs
                  /\ Allows(b, t) <=> b.pending < HalfOpenMax
                  /\ c.pending = IF Allows(b, t) THEN b.pending + 1 ELSE b.pending
                  /\ ~Allows(b, t) => c = b
             /\ b.state = "OPEN" =>
                  \/ c = b /\ ~Allows(b, t)
                  \/ /\ Elapsed(b, t) /\ Allows(b, t)
                     /\ c.state = "HALF_OPEN" /\ c.turn = b.turn + 1 /\ c.pending = 1
                     /\ c.ok = 0 /\ c.openMs = b.openMs
  <1>1. CASE b.state = "CLOSED"
    BY <1>1 DEF isAllowed, Allows, Woken
  <1>2. CASE b.state = "HALF_OPEN"
    BY <1>2 DEF isAllowed, Allows, Woken, Breaker
  <1>3. CASE b.state = "OPEN" /\ ~Elapsed(b, t)
    BY <1>3 DEF isAllowed, Allows, Woken
  <1>4. CASE b.state = "OPEN" /\ Elapsed(b, t)
    <2> DEFINE w == toHalfOpen(b)
    <2>1. /\ w \in Breaker /\ w.state = "HALF_OPEN" /\ w.turn = b.turn + 1
          /\ w.pending = 0 /\ w.ok = 0 /\ w.openMs = b.openMs
      BY <1>4, ToHalfOpenFields
    <2>2. Woken(b, t) = w
      BY <1>4 DEF Woken
    <2> HIDE DEF w
    <2>3. Allows(b, t) /\ isAllowed(b, t) = [w EXCEPT !.pending = @ + 1]
      BY <2>1, <2>2, BreakerAssumption DEF Allows, isAllowed
    <2> QED
      BY <1>4, <2>1, <2>3 DEF Breaker
  <1> QED
    BY <1>1, <1>2, <1>3, <1>4 DEF Breaker, States

(* addBucket touches the window only.                                      *)
LEMMA AddBucketFields ==
  ASSUME NEW b \in Breaker, NEW ret \in Ret, NEW t \in Nat
  PROVE  LET c == addBucket(b, ret, t)
         IN  /\ c \in Breaker
             /\ c.state = b.state /\ c.turn = b.turn /\ c.consec = b.consec
             /\ c.pending = b.pending /\ c.ok = b.ok /\ c.openMs = b.openMs
  <1> DEFINE k == t % Buckets
             old == b.buckets[k]
             new == [tick |-> t, cnt |-> Plus(IF old.tick = t THEN old.cnt ELSE Zero, ret)]
  <1>1. k \in 0 .. Buckets - 1
    BY BreakerAssumption
  <1>2. old \in Bucket
    BY <1>1 DEF Breaker
  <1>3. new \in Bucket
    BY <1>2 DEF Bucket, Count, Plus, Zero
  <1>4. addBucket(b, ret, t) = [b EXCEPT !.buckets = [b.buckets EXCEPT ![k] = new]]
    BY <1>1 DEF addBucket, Breaker
  <1> HIDE DEF k, new
  <1>5. [b.buckets EXCEPT ![k] = new] \in [0 .. Buckets - 1 -> Bucket]
    BY <1>1, <1>3 DEF Breaker
  <1> QED
    BY <1>4, <1>5 DEF Breaker

(* A result changes nothing outside its turn or while the breaker is open; *)
(* a probe's result gives its slot back or decides; a result in the closed *)
(* state may trip the breaker and leaves fewer failures in a row otherwise.*)
LEMMA HalfOpenEffect ==
  ASSUME NEW b \in Breaker, b.state = "HALF_OPEN", b.pending > 0, NEW ret \in Ret, NEW t \in Nat
  PROVE  LET c == recordHalfOpen(b, ret, t)
         IN  /\ c \in Breaker
             /\ \/ /\ c.state = b.state /\ c.turn = b.turn /\ c.openMs = b.openMs
                   /\ c.pending = b.pending - 1
                \/ /\ c.state = "OPEN" /\ c.turn = b.turn + 1 /\ c.pending = 0 /\ c.openAt = t
                   /\ c.openMs = Doubled(b)
                \/ /\ c.state = "CLOSED" /\ c.turn = b.turn + 1 /\ c.pending = 0
                   /\ c.consec = 0 /\ c.ok = 0 /\ c.openMs = OpenMs
  <1> DEFINE d == [b EXCEPT !.pending = IF @ > 0 THEN @ - 1 ELSE 0]
  <1>1. /\ d \in Breaker /\ d.state = b.state /\ d.turn = b.turn /\ d.openMs = b.openMs
        /\ d.pending = b.pending - 1
    BY DEF Breaker
  <1>2. recordHalfOpen(b, ret, t) =
          CASE ret.mark = "SKIP" -> d
            [] ret.mark = "FAIL" -> toOpen(d, TRUE, t)
            [] ret.mark = "OK"   -> IF d.ok + 1 >= HalfOpenOk THEN toClosed(d)
                                                              ELSE [d EXCEPT !.ok = @ + 1]
    BY DEF recordHalfOpen
  <1> HIDE DEF d
  <1>3. CASE ret.mark = "SKIP"
    BY <1>1, <1>2, <1>3
  <1>4. CASE ret.mark = "FAIL"
    <2>1. recordHalfOpen(b, ret, t) = toOpen(d, TRUE, t)
      BY <1>2, <1>4
    <2>2. LET c == toOpen(d, TRUE, t)
          IN  /\ c \in Breaker /\ c.state = "OPEN" /\ c.turn = d.turn + 1 /\ c.pending = 0
              /\ c.openAt = t /\ c.openMs = Doubled(d)
      BY <1>1, ToOpenFields
    <2>3. Doubled(d) = Doubled(b)
      BY <1>1 DEF Doubled
    <2> QED
      BY <1>1, <2>1, <2>2, <2>3
  <1>5. CASE ret.mark = "OK" /\ d.ok + 1 >= HalfOpenOk
    <2>1. recordHalfOpen(b, ret, t) = toClosed(d)
      BY <1>2, <1>5
    <2> QED
      BY <1>1, <2>1, ToClosedFields
  <1>6. CASE ret.mark = "OK" /\ ~(d.ok + 1 >= HalfOpenOk)
    <2>1. recordHalfOpen(b, ret, t) = [d EXCEPT !.ok = @ + 1]
      BY <1>2, <1>6
    <2>2. ASSUME NEW m \in Breaker, NEW k \in Nat, NEW c, c = [m EXCEPT !.ok = k]
          PROVE  /\ c \in Breaker /\ c.state = m.state /\ c.turn = m.turn
                 /\ c.openMs = m.openMs /\ c.pending = m.pending
      BY <2>2 DEF Breaker
    <2>3. d.ok + 1 \in Nat /\ [d EXCEPT !.ok = @ + 1] = [d EXCEPT !.ok = d.ok + 1]
      BY <1>1 DEF Breaker
    <2> QED
      BY <1>1, <2>1, <2>2, <2>3
  <1> QED
    BY <1>3, <1>4, <1>5, <1>6 DEF Ret, Marks

(* recordClosed: the result is counted, or trips the breaker.              *)
LEMMA ClosedEffect ==
  ASSUME NEW b \in Breaker, b.state = "CLOSED", NEW ret \in Ret, NEW t \in Nat
  PROVE  LET c == recordClosed(b, ret, t)
         IN  /\ c \in Breaker
             /\ \/ /\ c.state = b.state /\ c.turn = b.turn /\ c.openMs = b.openMs
                   /\ c.pending = b.pending /\ c.ok = b.ok /\ c.consec < Threshold
                \/ /\ c.state = "OPEN" /\ c.turn = b.turn + 1 /\ c.pending = 0 /\ c.openAt = t
                   /\ c.openMs = OpenMs
  <1> DEFINE a == [b EXCEPT !.consec = IF ret.mark = "FAIL" THEN @ + 1 ELSE 0]
             d == addBucket(a, ret, t)
  <1>1. /\ a \in Breaker /\ a.state = b.state /\ a.turn = b.turn /\ a.openMs = b.openMs
        /\ a.pending = b.pending /\ a.ok = b.ok
    BY DEF Breaker
  <1> HIDE DEF a
  <1>2. /\ d \in Breaker /\ d.state = b.state /\ d.turn = b.turn /\ d.openMs = b.openMs
        /\ d.pending = b.pending /\ d.ok = b.ok
    BY <1>1, AddBucketFields
  <1>3. \/ recordClosed(b, ret, t) = d /\ ~(d.consec >= Threshold)
        \/ recordClosed(b, ret, t) = toOpen(d, FALSE, t)
    BY DEF recordClosed, a
  <1> HIDE DEF d
  <1>4. CASE recordClosed(b, ret, t) = d /\ ~(d.consec >= Threshold)
    BY <1>2, <1>4, BreakerAssumption DEF Breaker
  <1>5. CASE recordClosed(b, ret, t) = toOpen(d, FALSE, t)
    <2>1. LET c == toOpen(d, FALSE, t)
          IN  /\ c \in Breaker /\ c.state = "OPEN" /\ c.turn = d.turn + 1 /\ c.pending = 0
              /\ c.openAt = t /\ c.openMs = OpenMs
      BY <1>2, ToOpenFields
    <2> QED
      BY <1>2, <1>5, <2>1
  <1> QED
    BY <1>3, <1>4, <1>5

(* record, by the turn of the request and the state of the breaker.        *)
LEMMA RecordEffect ==
  ASSUME NEW b \in Breaker, NEW ret \in Ret, NEW turn \in Nat \ {0}, NEW t \in Nat,
         turn = b.turn /\ b.state = "HALF_OPEN" => b.pending > 0
  PROVE  LET c == record(b, ret, turn, t)
         IN  /\ c \in Breaker
             /\ turn # b.turn \/ b.state = "OPEN" => c = b
             /\ turn = b.turn /\ b.state = "HALF_OPEN" =>
                  \/ /\ c.state = b.state /\ c.turn = b.turn /\ c.openMs = b.openMs
                     /\ c.pending = b.pending - 1
                  \/ /\ c.state = "OPEN" /\ c.turn = b.turn + 1 /\ c.pending = 0 /\ c.openAt = t
                     /\ c.openMs = Doubled(b)
                  \/ /\ c.state = "CLOSED" /\ c.turn = b.turn + 1 /\ c.pending = 0
                     /\ c.consec = 0 /\ c.ok = 0 /\ c.openMs = OpenMs
             /\ turn = b.turn /\ b.state = "CLOSED" =>
                  \/ c = b
                  \/ /\ c.state = b.state /\ c.turn = b.turn /\ c.openMs = b.openMs
                     /\ c.pending = b.pending /\ c.ok = b.ok /\ c.consec < Threshold
                  \/ /\ c.state = "OPEN" /\ c.turn = b.turn + 1 /\ c.pending = 0 /\ c.openAt = t
                     /\ c.openMs = OpenMs
  <1>1. CASE turn # b.turn \/ b.state = "OPEN"
    BY <1>1 DEF record
  <1>2. CASE turn = b.turn /\ b.state = "HALF_OPEN"
    <2>1. record(b, ret, turn, t) = recordHalfOpen(b, ret, t)
      BY <1>2 DEF record
    <2> QED
      BY <1>2, <2>1, HalfOpenEffect
  <1>3. CASE turn = b.turn /\ b.state = "CLOSED" /\ ret.mark = "SKIP"
    BY <1>3 DEF record
  <1>4. CASE turn = b.turn /\ b.state = "CLOSED" /\ ret.mark # "SKIP"
    <2>1. record(b, ret, turn, t) = recordClosed(b, ret, t)
      BY <1>4 DEF record
    <2> QED
      BY <1>4, <2>1, ClosedEffect
  <1> QED
    BY <1>1, <1>2, <1>3, <1>4 DEF Breaker, States

-----------------------------------------------------------------------------
(* Types.                                                                  *)

(* A request that has not been let through by a breaker.                   *)
Looking == {"idle", "scan", "pick", "hold"}
Cleared(q) == q.turn = 0 /\ q.conn = None /\ ~q.reused /\ ~q.counted /\ ~q.keep

(* A request goes on with what it has in hand.                             *)
Kept(p, q) == /\ q.ep = p.ep /\ q.turn = p.turn /\ q.conn = p.conn
              /\ q.reused = p.reused /\ q.counted = p.counted

(* A request at rest has nothing in hand.                                  *)
LEMMA RestingType == Resting \in Request /\ Cleared(Resting) /\ Resting.pc = "idle"
  BY GroupAssumption DEF Resting, Request, Cleared, PCs, Endpoints, Ret, Marks

(* The updates of a request's record that the actions make.                *)
LEMMA SetPc ==
  ASSUME NEW p \in Request, NEW x \in PCs
  PROVE  LET q == [p EXCEPT !.pc = x]
         IN  q \in Request /\ q.pc = x /\ Kept(p, q) /\ q.keep = p.keep
  <1> SUFFICES ASSUME NEW q, q = [p EXCEPT !.pc = x]
               PROVE  q \in Request /\ q.pc = x /\ Kept(p, q) /\ q.keep = p.keep
    OBVIOUS
  <1> QED
    BY DEF Request, Kept

(* A request at rest goes somewhere.                                       *)
LEMMA RestPc ==
  ASSUME NEW x \in PCs
  PROVE  LET q == [Resting EXCEPT !.pc = x]
         IN  q \in Request /\ q.pc = x /\ Cleared(q)
  <1> SUFFICES ASSUME NEW q, q = [Resting EXCEPT !.pc = x]
               PROVE  q \in Request /\ q.pc = x /\ Cleared(q)
    OBVIOUS
  <1> QED
    BY RestingType DEF Request, Cleared

(* A request at rest with its endpoint still to be let go.                 *)
LEMMA RestEp ==
  ASSUME NEW x \in PCs, NEW e \in 0 .. N
  PROVE  LET q == [Resting EXCEPT !.pc = x, !.ep = e]
         IN  q \in Request /\ q.pc = x /\ q.ep = e /\ Cleared(q)
  <1> SUFFICES ASSUME NEW q, q = [Resting EXCEPT !.pc = x, !.ep = e]
               PROVE  q \in Request /\ q.pc = x /\ q.ep = e /\ Cleared(q)
    OBVIOUS
  <1> QED
    BY RestingType DEF Request, Cleared

(* A request at rest with candidates.                                      *)
LEMMA RestCand ==
  ASSUME NEW x \in PCs, NEW c \in SUBSET Endpoints
  PROVE  LET q == [Resting EXCEPT !.pc = x, !.cand = c]
         IN  q \in Request /\ q.pc = x /\ Cleared(q)
  <1> SUFFICES ASSUME NEW q, q = [Resting EXCEPT !.pc = x, !.cand = c]
               PROVE  q \in Request /\ q.pc = x /\ Cleared(q)
    OBVIOUS
  <1> QED
    BY RestingType DEF Request, Cleared

(* A request that has nothing in hand takes an endpoint.                   *)
LEMMA SetEp ==
  ASSUME NEW p \in Request, Cleared(p), NEW x \in PCs, NEW e \in 0 .. N
  PROVE  LET q == [p EXCEPT !.pc = x, !.ep = e]
         IN  q \in Request /\ q.pc = x /\ q.ep = e /\ Cleared(q)
  <1> SUFFICES ASSUME NEW q, q = [p EXCEPT !.pc = x, !.ep = e]
               PROVE  q \in Request /\ q.pc = x /\ q.ep = e /\ Cleared(q)
    OBVIOUS
  <1> QED
    BY DEF Request, Cleared

(* A request that has nothing in hand looks at an endpoint.                *)
LEMMA SetScan ==
  ASSUME NEW p \in Request, Cleared(p), NEW c \in SUBSET Endpoints, NEW e \in 0 .. N
  PROVE  LET q == [p EXCEPT !.ep = e, !.cand = c]
         IN  q \in Request /\ q.pc = p.pc /\ Cleared(q)
  <1> SUFFICES ASSUME NEW q, q = [p EXCEPT !.ep = e, !.cand = c]
               PROVE  q \in Request /\ q.pc = p.pc /\ Cleared(q)
    OBVIOUS
  <1> QED
    BY DEF Request, Cleared

(* Only request r moves.                                                   *)
Moved(r) == /\ req' \in [Requests -> Request]
            /\ \A s \in Requests : s # r => req'[s] = req[s]

(* Goto moves one request.                                                 *)
LEMMA GotoMoves ==
  ASSUME TypeOK, NEW r \in Requests, NEW q \in Request, Goto(r, q)
  PROVE  Moved(r) /\ req'[r] = q
  BY DEF TypeOK, Goto, Moved

-----------------------------------------------------------------------------
(* Where a request may be with what in hand.                               *)
Through == {"ready", "pool", "fresh", "send", "head", "retry", "body", "mark", "back"}
Exchanging == {"send", "head", "retry", "body", "mark", "back"}
Holding == PCs \ Looking

Placed(q) ==
    /\ q.pc \in Through <=> q.turn # 0
    /\ q.pc \in Exchanging <=> q.conn # None
    /\ q.reused => q.pc \in Exchanging
    /\ q.counted => q.pc \in {"body", "mark", "back"}
    /\ q.pc = "back" => q.counted
    /\ q.keep => q.pc \in {"mark", "back"}
    /\ q.pc \notin {"idle", "scan", "pick"} => q.ep \in Endpoints
Places == \A r \in Requests : Placed(req[r])

(* A request that has nothing in hand is where it may be.                  *)
LEMMA ClearedPlaced ==
  ASSUME NEW q \in Request, Cleared(q), q.pc \in {"idle", "scan", "pick"} \/ q.ep \in Endpoints,
         q.pc \in Looking \cup {"admit", "undo", "drop"}
  PROVE  Placed(q)
  BY DEF Placed, Cleared, Looking, Through, Exchanging

(* A request that has not been let through has nothing in hand.            *)
LEMMA LookingCleared ==
  ASSUME NEW q \in Request, Placed(q), q.pc \in Looking \cup {"admit", "undo", "drop"}
  PROVE  Cleared(q)
  BY DEF Placed, Cleared, Looking, Through, Exchanging, Request

-----------------------------------------------------------------------------
(* What a step of a request does, by what it touches: p is the request     *)
(* before the step and q after it.                                         *)

(* The hold on an endpoint is kept, taken or given back.                   *)
HoldKept(p, q) == /\ active' = active
                  /\ p.pc \in Holding <=> q.pc \in Holding
                  /\ q.pc \in Holding => q.ep = p.ep
HoldTaken(p, q) == /\ p.pc \notin Holding /\ q.pc \in Holding /\ q.ep \in Endpoints
                   /\ active' = [active EXCEPT ![q.ep] = @ + 1]
HoldGiven(p, q) == /\ p.pc \in Holding /\ q.pc \notin Holding /\ p.ep \in Endpoints
                   /\ DropHold(p.ep)
HoldStep(p, q) == HoldKept(p, q) \/ HoldTaken(p, q) \/ HoldGiven(p, q)

(* The breaker is left alone, asked, or told the result of a request that  *)
(* it let through and that has not reported yet.                           *)
Untold(p, q) == /\ UNCHANGED <<cb, log>>
                /\ \/ q.ep = p.ep /\ q.turn = p.turn /\ q.counted = p.counted
                   \/ (p.turn = 0 \/ p.counted) /\ q.turn = 0
Asked(p, q) == /\ p.turn = 0 /\ q.ep = p.ep /\ p.ep \in Endpoints
               /\ cb' = [cb EXCEPT ![p.ep] = isAllowed(cb[p.ep], now)] /\ UNCHANGED log
               /\ IF Allows(cb[p.ep], now)
                  THEN q.turn = isAllowed(cb[p.ep], now).turn /\ ~q.counted ELSE q.turn = 0
Told(p, q) == /\ p.turn # 0 /\ ~p.counted /\ p.ep \in Endpoints
              /\ q.turn = 0 \/ (q.turn = p.turn /\ q.ep = p.ep /\ q.counted)
              /\ \E ret \in Ret : Record(p.ep, ret, p.turn)
BreakerStep(p, q) == Untold(p, q) \/ Asked(p, q) \/ Told(p, q)

(* A request that may use the pool was sent there by a breaker that was    *)
(* not half open.                                                          *)
FreshStep(p, q) ==
    q.pc = "pool" \/ q.reused =>
      /\ q.ep = p.ep /\ q.turn = p.turn
      /\ p.pc = "pool" \/ p.reused \/ (cb[p.ep].state # "HALF_OPEN" /\ cb' = cb)

(* The connection in hand stays, is new, comes out of a pool, goes back    *)
(* into one, or is closed.                                                 *)
ConnStays(p, q) == /\ q.conn = p.conn /\ idle' = idle
                   /\ owed' \subseteq owed \cup ({p.conn} \ {None})
                   /\ q.keep => (p.keep /\ owed' = owed) \/ q.conn \notin owed'
ConnNew(p, q) == /\ Unused # {} /\ q.conn = NewConn /\ idle' = idle
                 /\ owed' \subseteq owed /\ p.conn \notin owed' /\ ~q.keep
ConnPooled(p, q) == /\ p.conn = None /\ owed' = owed /\ ~q.keep /\ p.ep \in Endpoints
                    /\ \E n \in DOMAIN idle[p.ep] :
                         /\ idle' = [idle EXCEPT ![p.ep] = Dropped(p.ep, n)]
                         /\ q.conn = idle[p.ep][n].conn
PoolEmptied(p, q) == /\ p.conn = None /\ q.conn = None /\ owed' = owed /\ ~q.keep
                     /\ p.ep \in Endpoints /\ idle' = [idle EXCEPT ![p.ep] = <<>>]
ConnBack(p, q) == /\ p.conn # None /\ p.keep /\ q.conn = None /\ owed' = owed /\ ~q.keep
                  /\ p.ep \in Endpoints
                  /\ idle' = [idle EXCEPT ![p.ep] = Append(@, [conn |-> p.conn, since |-> now])]
ConnClosed(p, q) == /\ q.conn = None /\ idle' = idle /\ ~q.keep
                    /\ owed' \subseteq owed /\ p.conn \notin owed'
PoolStep(p, q) == \/ ConnStays(p, q) \/ ConnNew(p, q) \/ ConnPooled(p, q)
                  \/ PoolEmptied(p, q) \/ ConnBack(p, q) \/ ConnClosed(p, q)

Does(p, q) == /\ Placed(q) /\ HoldStep(p, q) /\ BreakerStep(p, q)
              /\ FreshStep(p, q) /\ PoolStep(p, q)

(* A request that has not been let through goes on without one.            *)
LEMMA LooksOn ==
  ASSUME NEW p \in Request, NEW q \in Request, Placed(p), Cleared(q),
         p.pc \in Looking, q.pc \in Looking,
         q.pc = "hold" => q.ep \in Endpoints, UNCHANGED <<cb, active, idle, owed, log>>
  PROVE  Does(p, q)
  <1>1. Placed(q)
    BY ClearedPlaced DEF Looking
  <1>2. Cleared(p)
    BY LookingCleared
  <1>3. HoldStep(p, q)
    BY DEF HoldStep, HoldKept, Holding
  <1>4. BreakerStep(p, q)
    BY <1>2 DEF BreakerStep, Untold, Cleared
  <1>5. FreshStep(p, q)
    BY DEF FreshStep, Cleared, Looking
  <1>6. PoolStep(p, q)
    BY <1>2 DEF PoolStep, ConnStays, Cleared
  <1> QED
    BY <1>1, <1>3, <1>4, <1>5, <1>6 DEF Does

(* A request goes on with its endpoint, its breaker and its connection.    *)
LEMMA GoesOn ==
  ASSUME NEW p \in Request, NEW q \in Request, Placed(p), Placed(q), Kept(p, q),
         p.pc \in Holding, q.pc \in Holding, q.pc # "pool", UNCHANGED <<cb, active, idle, log>>,
         owed' \subseteq owed \cup ({p.conn} \ {None}),
         q.keep => (p.keep /\ owed' = owed) \/ q.conn \notin owed'
  PROVE  Does(p, q)
  <1>3. HoldStep(p, q)
    BY DEF HoldStep, HoldKept, Kept
  <1>4. BreakerStep(p, q)
    BY DEF BreakerStep, Untold, Kept
  <1>5. FreshStep(p, q)
    BY DEF FreshStep, Kept
  <1>6. PoolStep(p, q)
    BY DEF PoolStep, ConnStays, Kept
  <1> QED
    BY <1>3, <1>4, <1>5, <1>6 DEF Does

(* Start, Scan, GiveUp and Pick touch nothing but the request.             *)
LEMMA LookDoes ==
  ASSUME TypeOK, Places, NEW r \in Requests, Start(r) \/ Scan(r) \/ GiveUp(r) \/ Pick(r)
  PROVE  \E q \in Request : Goto(r, q) /\ Does(req[r], q)
  <1> DEFINE p == req[r]
  <1>1. /\ p \in Request /\ Placed(p) /\ p.ep \in 0 .. N /\ p.cand \in SUBSET Endpoints
        /\ calls \in Nat
    BY DEF TypeOK, Places, Request
  <1>0. "scan" \in PCs /\ "pick" \in PCs /\ "hold" \in PCs /\ 0 \in 0 .. N
    BY GroupAssumption DEF PCs
  <1>c. p \in Request
    BY <1>1
  <1>a. p.pc \in {"idle", "scan", "pick"} /\ UNCHANGED <<cb, active, idle, owed, log>>
    BY DEF Start, Scan, GiveUp, Pick, At
  <1>2. /\ p.pc \in {"idle", "scan", "pick"}
        /\ UNCHANGED <<cb, active, idle, owed, log>>
    BY <1>a
  <1>3. Cleared(p)
    BY <1>1, <1>2, LookingCleared DEF Looking
  <1> SUFFICES \E q \in Request : /\ Goto(r, q) /\ Cleared(q) /\ q.pc \in Looking
                                  /\ q.pc = "hold" => q.ep \in Endpoints
    BY <1>1, <1>2, LooksOn DEF Looking
  <1>4. CASE Start(r)
    <2> DEFINE q == [Resting EXCEPT !.pc = "scan"]
    <2>1. q \in Request /\ Cleared(q) /\ q.pc = "scan"
      BY <1>0, RestPc
    <2>2. Goto(r, q)
      BY <1>4 DEF Start
    <2> QED
      BY <2>1, <2>2 DEF Looking
  <1>5. CASE Scan(r)
    <2>1. CASE p.ep = N
      <3> DEFINE q == [p EXCEPT !.pc = "pick", !.ep = 0]
      <3>1. Goto(r, q)
        BY <1>5, <2>1 DEF Scan
      <3>z. "pick" \in PCs /\ 0 \in 0 .. N
        BY <1>0
      <3>2. q \in Request /\ Cleared(q) /\ q.pc = "pick"
        BY <1>c, <1>3, <3>z, SetEp, Zenon
      <3> QED
        BY <3>1, <3>2 DEF Looking
    <2>2. CASE p.ep # N
      <3> DEFINE e == p.ep + 1
                 c == IF healthy[e] /\ canTry(cb[e], now) THEN p.cand \cup {e} ELSE p.cand
                 q == [p EXCEPT !.ep = e, !.cand = c]
      <3>1. Goto(r, q)
        BY <1>5, <2>2 DEF Scan
      <3>2. e \in 0 .. N /\ e \in Endpoints
        BY <1>1, <2>2, GroupAssumption DEF Endpoints
      <3>3. c \in SUBSET Endpoints
        BY <1>1, <3>2
      <3> HIDE DEF e, c
      <3>4. q \in Request /\ Cleared(q) /\ q.pc = p.pc
        BY <1>1, <1>3, <3>2, <3>3, SetScan
      <3>5. p.pc = "scan"
        BY <1>5 DEF Scan, At
      <3> QED
        BY <3>1, <3>4, <3>5 DEF Looking
    <2> QED
      BY <2>1, <2>2
  <1>6. CASE GiveUp(r)
    BY <1>6, RestingType DEF GiveUp, Looking
  <1>7. CASE Pick(r)
    <2>1. PICK e \in p.cand : Goto(r, IF healthy[e] THEN [p EXCEPT !.pc = "hold", !.ep = e]
                                      ELSE NextCandidate([p EXCEPT !.ep = e]))
      BY <1>7 DEF Pick
    <2>2. e \in Endpoints /\ e \in 0 .. N
      BY <1>1, <2>1, GroupAssumption DEF Endpoints
    <2>3. CASE healthy[e]
      <3> DEFINE q == [p EXCEPT !.pc = "hold", !.ep = e]
      <3>1. "hold" \in PCs /\ e \in 0 .. N
        BY <1>0, <2>2
      <3>2. q \in Request /\ Cleared(q) /\ q.pc = "hold"
        BY <1>c, <1>3, <3>1, SetEp, Zenon
      <3>3. q.ep = e
        BY <1>c DEF Request
      <3>4. Goto(r, q)
        BY <2>1, <2>3
      <3> QED
        BY <2>2, <3>2, <3>3, <3>4 DEF Looking
    <2>4. CASE ~healthy[e]
      <3> DEFINE q == NextCandidate([p EXCEPT !.ep = e])
      <3>1. [p EXCEPT !.ep = e].cand \ {[p EXCEPT !.ep = e].ep} \in SUBSET Endpoints
        BY <1>1 DEF Request
      <3>2. q \in Request /\ Cleared(q) /\ q.pc = "pick"
        BY <1>0, <3>1, RestCand DEF NextCandidate
      <3>3. Goto(r, q)
        BY <2>1, <2>4
      <3> QED
        BY <3>2, <3>3 DEF Looking
    <2> QED
      BY <2>3, <2>4
  <1> QED
    BY <1>4, <1>5, <1>6, <1>7


(* What is known of a request in every state.                              *)
LEMMA InHand ==
  ASSUME TypeOK, Places, NEW r \in Requests
  PROVE  /\ req[r] \in Request /\ Placed(req[r])
         /\ req[r].pc \notin {"idle", "scan", "pick"} => req[r].ep \in Endpoints
  BY DEF TypeOK, Places, Placed

(* The next candidate is looked for with nothing in hand.                  *)
LEMMA NextLook ==
  ASSUME NEW p \in Request
  PROVE  NextCandidate(p) \in Request /\ Cleared(NextCandidate(p)) /\ NextCandidate(p).pc = "pick"
  <1>1. p.cand \ {p.ep} \in SUBSET Endpoints /\ "pick" \in PCs
    BY DEF Request, PCs
  <1> QED
    BY <1>1, RestCand DEF NextCandidate

(* TryHold takes a hold, or goes to the next candidate.                    *)
LEMMA TryHoldDoes ==
  ASSUME TypeOK, Places, NEW r \in Requests, TryHold(r)
  PROVE  \E q \in Request : Goto(r, q) /\ Does(req[r], q)
  <1> DEFINE p == req[r]
             q == [p EXCEPT !.pc = "admit"]
  <1>1. p \in Request /\ Placed(p) /\ p.pc = "hold" /\ p.ep \in Endpoints
    BY InHand DEF TryHold, At
  <1>2. Cleared(p)
    BY <1>1, LookingCleared DEF Looking
  <1>3. UNCHANGED <<cb, idle, owed, log>>
    BY DEF TryHold
  <1>4. CASE MaxInflight = 0 \/ active[p.ep] < MaxInflight
    <2>1. "admit" \in PCs
      BY DEF PCs
    <2>2. q \in Request /\ q.pc = "admit" /\ Kept(p, q) /\ q.keep = p.keep
      BY <1>1, <2>1, SetPc
    <2>3. Goto(r, q) /\ active' = [active EXCEPT ![p.ep] = @ + 1]
      BY <1>4 DEF TryHold
    <2> HIDE DEF p, q
    <2>4. Cleared(q) /\ q.ep = p.ep
      BY <1>2, <2>2 DEF Cleared, Kept
    <2>5. Placed(q)
      BY <1>1, <2>2, <2>4, ClearedPlaced
    <2>6. HoldStep(p, q)
      BY <1>1, <2>2, <2>3, <2>4 DEF HoldStep, HoldTaken, Holding, Looking, PCs
    <2>7. BreakerStep(p, q)
      BY <1>2, <1>3, <2>4 DEF BreakerStep, Untold, Cleared
    <2>8. FreshStep(p, q)
      BY <2>2, <2>4 DEF FreshStep, Cleared
    <2>9. PoolStep(p, q)
      BY <1>2, <1>3, <2>4 DEF PoolStep, ConnStays, Cleared
    <2>10. Does(p, q)
      BY <2>5, <2>6, <2>7, <2>8, <2>9 DEF Does
    <2> QED
      BY <2>2, <2>3, <2>10 DEF p
  <1>5. CASE ~(MaxInflight = 0 \/ active[p.ep] < MaxInflight)
    <2>1. Goto(r, NextCandidate(p)) /\ UNCHANGED active
      BY <1>5 DEF TryHold
    <2>2. /\ NextCandidate(p) \in Request /\ Cleared(NextCandidate(p))
          /\ NextCandidate(p).pc = "pick"
      BY <1>1, NextLook
    <2> DEFINE n == NextCandidate(p)
    <2> HIDE DEF p, n
    <2>3. Does(p, n)
      BY <1>1, <1>3, <2>1, <2>2, LooksOn DEF Looking, n
    <2> QED
      BY <2>1, <2>2, <2>3 DEF p, n
  <1> QED
    BY <1>4, <1>5

(* IsAllowed asks the breaker; who is let through remembers its turn.      *)
LEMMA IsAllowedDoes ==
  ASSUME TypeOK, Places, \A e \in Endpoints : cb[e].turn # 0, NEW r \in Requests, IsAllowed(r)
  PROVE  \E q \in Request : Goto(r, q) /\ Does(req[r], q)
  <1> DEFINE p == req[r]
             b == isAllowed(cb[p.ep], now)
             x == [p EXCEPT !.pc = "ready", !.turn = b.turn]
             y == [p EXCEPT !.pc = "undo"]
  <1>1. p \in Request /\ Placed(p) /\ p.pc = "admit" /\ p.ep \in Endpoints
    BY InHand DEF IsAllowed, At
  <1>2. Cleared(p)
    BY <1>1, LookingCleared
  <1>3. UNCHANGED <<active, idle, owed, log>> /\ cb' = [cb EXCEPT ![p.ep] = b]
    BY DEF IsAllowed
  <1>4. Goto(r, IF Allows(cb[p.ep], now) THEN x ELSE y)
    BY DEF IsAllowed
  <1>5. cb[p.ep] \in Breaker /\ now \in Nat /\ cb[p.ep].turn # 0
    BY <1>1 DEF TypeOK
  <1>6. b.turn \in Nat /\ (Allows(cb[p.ep], now) => b.turn # 0)
    <2>1. b \in Breaker
      BY <1>5, IsAllowedEffect
    <2>2. b.turn = cb[p.ep].turn \/ b.turn = cb[p.ep].turn + 1
      <3>1. CASE cb[p.ep].state = "CLOSED"
        BY <1>5, <3>1, IsAllowedEffect
      <3>2. CASE cb[p.ep].state = "HALF_OPEN"
        BY <1>5, <3>2, IsAllowedEffect
      <3>3. CASE cb[p.ep].state = "OPEN"
        BY <1>5, <3>3, IsAllowedEffect
      <3> QED
        BY <1>5, <3>1, <3>2, <3>3 DEF Breaker, States
    <2>3. cb[p.ep].turn \in Nat /\ b.turn \in Nat
      BY <1>5, <2>1 DEF Breaker
    <2> HIDE DEF b
    <2> QED
      BY <1>5, <2>2, <2>3
  <1>7. "ready" \in PCs /\ "undo" \in PCs
    BY DEF PCs
  <1>8. /\ x \in Request /\ x.pc = "ready" /\ x.turn = b.turn /\ x.ep = p.ep /\ x.conn = p.conn
        /\ x.reused = p.reused /\ x.counted = p.counted /\ x.keep = p.keep
    <2>1. b.turn \in Nat /\ "ready" \in PCs
      BY <1>6, <1>7
    <2>2. p \in Request
      BY <1>1
    <2> HIDE DEF b, p
    <2>3. /\ x \in Request /\ x.pc = "ready" /\ x.ep = p.ep /\ x.conn = p.conn
          /\ x.reused = p.reused /\ x.counted = p.counted /\ x.keep = p.keep
      BY <2>1, <2>2 DEF Request
    <2>4. x.turn = b.turn
      BY <2>2 DEF Request
    <2> QED
      BY <2>3, <2>4
  <1>9. y \in Request /\ y.pc = "undo" /\ Kept(p, y) /\ y.keep = p.keep
    BY <1>1, <1>7, SetPc
  <1> HIDE DEF x, y
  <1>10. CASE Allows(cb[p.ep], now)
    <2>1. Goto(r, x)
      BY <1>4, <1>10
    <2> HIDE DEF p
    <2>2. Placed(x)
      BY <1>1, <1>2, <1>6, <1>8, <1>10 DEF Placed, Cleared, Through, Exchanging
    <2>3. HoldStep(p, x)
      BY <1>1, <1>3, <1>8 DEF HoldStep, HoldKept, Holding, Looking, PCs
    <2>4. BreakerStep(p, x)
      BY <1>1, <1>2, <1>3, <1>8, <1>10 DEF BreakerStep, Asked, Cleared
    <2>5. FreshStep(p, x)
      BY <1>2, <1>8 DEF FreshStep, Cleared
    <2>6. PoolStep(p, x)
      BY <1>2, <1>3, <1>8 DEF PoolStep, ConnStays, Cleared
    <2>7. Does(p, x)
      BY <2>2, <2>3, <2>4, <2>5, <2>6 DEF Does
    <2> QED
      BY <1>8, <2>1, <2>7 DEF p
  <1>11. CASE ~Allows(cb[p.ep], now)
    <2>1. Goto(r, y)
      BY <1>4, <1>11
    <2> HIDE DEF p
    <2>2. Cleared(y)
      BY <1>2, <1>9 DEF Cleared, Kept
    <2>3. Placed(y)
      BY <1>1, <1>9, <2>2, ClearedPlaced DEF Kept
    <2>4. HoldStep(p, y)
      BY <1>1, <1>3, <1>9 DEF HoldStep, HoldKept, Holding, Looking, PCs, Kept
    <2>5. BreakerStep(p, y)
      BY <1>1, <1>2, <1>3, <1>9, <1>11, <2>2 DEF BreakerStep, Asked, Cleared, Kept
    <2>6. FreshStep(p, y)
      BY <1>9, <2>2 DEF FreshStep, Cleared
    <2>7. PoolStep(p, y)
      BY <1>2, <1>3, <2>2 DEF PoolStep, ConnStays, Cleared
    <2>8. Does(p, y)
      BY <2>3, <2>4, <2>5, <2>6, <2>7 DEF Does
    <2> QED
      BY <1>9, <2>1, <2>8 DEF p
  <1> QED
    BY <1>10, <1>11

(* A request that was let through and has not reported.                    *)
LEMMA ReadyFacts ==
  ASSUME NEW p \in Request, Placed(p), p.pc \in {"ready", "pool", "fresh"}
  PROVE  /\ p.turn # 0 /\ p.conn = None /\ ~p.reused /\ ~p.counted /\ ~p.keep
         /\ p.ep \in Endpoints /\ p.pc \in Holding
  BY DEF Placed, Through, Exchanging, Holding, Looking, PCs

(* Expire tells the breaker and keeps the hold.                            *)
LEMMA ExpireDoes ==
  ASSUME TypeOK, Places, NEW r \in Requests, Expire(r)
  PROVE  \E q \in Request : Goto(r, q) /\ Does(req[r], q)
  <1> DEFINE p == req[r]
             q == [Resting EXCEPT !.pc = "drop", !.ep = p.ep]
             v == [mark |-> "SKIP", slow |-> FALSE]
  <1>1. p \in Request /\ Placed(p) /\ p.pc = "ready" /\ p.ep \in Endpoints
    BY InHand DEF Expire, At
  <1>2. Goto(r, q) /\ UNCHANGED <<active, idle, owed>> /\ Record(p.ep, v, p.turn)
    BY DEF Expire
  <1>3. "drop" \in PCs /\ p.ep \in 0 .. N /\ v \in Ret
    BY <1>1, GroupAssumption DEF PCs, Endpoints, Ret, Marks
  <1>4. q \in Request /\ q.pc = "drop" /\ q.ep = p.ep /\ Cleared(q)
    BY <1>3, RestEp
  <1> HIDE DEF p, q, v
  <1>5. p.turn # 0 /\ p.conn = None /\ ~p.counted /\ p.pc \in Holding
    BY <1>1, ReadyFacts
  <1>6. Placed(q)
    BY <1>1, <1>4, ClearedPlaced
  <1>7. HoldStep(p, q)
    BY <1>1, <1>2, <1>4 DEF HoldStep, HoldKept, Holding, Looking, PCs
  <1>8. BreakerStep(p, q)
    <2>1. \E ret \in Ret : Record(p.ep, ret, p.turn)
      BY <1>2, <1>3
    <2>2. q.turn = 0
      BY <1>4 DEF Cleared
    <2> QED
      BY <1>1, <1>5, <2>1, <2>2, Zenon DEF BreakerStep, Told
  <1>9. FreshStep(p, q)
    BY <1>4 DEF FreshStep, Cleared
  <1>10. PoolStep(p, q)
    BY <1>2, <1>4, <1>5 DEF PoolStep, ConnStays, Cleared
  <1>11. Does(p, q)
    BY <1>6, <1>7, <1>8, <1>9, <1>10 DEF Does
  <1> QED
    BY <1>2, <1>4, <1>11 DEF p

(* ReadState sends a request to the pool unless the breaker is half open.  *)
LEMMA ReadStateDoes ==
  ASSUME TypeOK, Places, NEW r \in Requests, ReadState(r)
  PROVE  \E q \in Request : Goto(r, q) /\ Does(req[r], q)
  <1> DEFINE p == req[r]
             x == IF cb[p.ep].state = "HALF_OPEN" THEN "fresh" ELSE "pool"
             q == [p EXCEPT !.pc = x]
  <1>1. p \in Request /\ Placed(p) /\ p.pc = "ready" /\ p.ep \in Endpoints
    BY InHand DEF ReadState, At
  <1>2. Goto(r, q) /\ UNCHANGED <<cb, active, idle, owed, log>>
    BY DEF ReadState
  <1>3. x \in PCs /\ x \in {"fresh", "pool"} /\ (x = "pool" => cb[p.ep].state # "HALF_OPEN")
    BY DEF PCs
  <1> HIDE DEF x
  <1>4. q \in Request /\ q.pc = x /\ Kept(p, q) /\ q.keep = p.keep
    BY <1>1, <1>3, SetPc
  <1> HIDE DEF p, q
  <1>5. /\ p.turn # 0 /\ p.conn = None /\ ~p.counted /\ p.pc \in Holding /\ ~p.reused /\ ~p.keep
    BY <1>1, ReadyFacts
  <1>6. Placed(q)
    BY <1>1, <1>3, <1>4, <1>5 DEF Placed, Kept, Through, Exchanging
  <1>7. HoldStep(p, q)
    BY <1>1, <1>2, <1>3, <1>4 DEF HoldStep, HoldKept, Holding, Looking, PCs, Kept
  <1>8. BreakerStep(p, q)
    BY <1>2, <1>4 DEF BreakerStep, Untold, Kept
  <1>9. FreshStep(p, q)
    BY <1>2, <1>3, <1>4, <1>5 DEF FreshStep, Kept
  <1>10. PoolStep(p, q)
    BY <1>2, <1>4, <1>5 DEF PoolStep, ConnStays, Kept
  <1>11. Does(p, q)
    BY <1>6, <1>7, <1>8, <1>9, <1>10 DEF Does
  <1> QED
    BY <1>2, <1>4, <1>11 DEF p


(* What lies in a pool is a connection.                                    *)
LEMMA EntryConn ==
  ASSUME NEW s \in Seq(Idle), NEW k \in DOMAIN s
  PROVE  s[k].conn \in Conns
  <1>1. s[k] \in Idle
    OBVIOUS
  <1> QED
    BY <1>1 DEF Idle

(* Acquire takes a connection out of the pool, or empties it.              *)
LEMMA AcquireDoes ==
  ASSUME TypeOK, Places, NEW r \in Requests, Acquire(r)
  PROVE  \E q \in Request : Goto(r, q) /\ Does(req[r], q)
  <1> DEFINE p == req[r]
  <1>1. p \in Request /\ Placed(p) /\ p.pc = "pool" /\ p.ep \in Endpoints
    BY InHand DEF Acquire, At
  <1>2. UNCHANGED <<cb, active, owed, log>>
    BY DEF Acquire
  <1>3. /\ p.turn # 0 /\ p.conn = None /\ ~p.counted /\ p.pc \in Holding /\ ~p.reused /\ ~p.keep
    BY <1>1, ReadyFacts
  <1>4. CASE \E n \in DOMAIN idle[p.ep] :
                /\ idle' = [idle EXCEPT ![p.ep] = Dropped(p.ep, n)]
                /\ Goto(r, [p EXCEPT !.pc = "send", !.conn = idle[p.ep][n].conn, !.reused = TRUE])
    <2>1. PICK n \in DOMAIN idle[p.ep] :
                /\ idle' = [idle EXCEPT ![p.ep] = Dropped(p.ep, n)]
                /\ Goto(r, [p EXCEPT !.pc = "send", !.conn = idle[p.ep][n].conn, !.reused = TRUE])
      BY <1>4
    <2> DEFINE c == idle[p.ep][n].conn
               q == [p EXCEPT !.pc = "send", !.conn = c, !.reused = TRUE]
    <2>2. idle[p.ep] \in Seq(Idle)
      BY <1>1 DEF TypeOK
    <2>3. c \in Conns
      BY <2>1, <2>2, EntryConn
    <2>4. c # None
      BY <2>3, GroupAssumption
    <2>5. Goto(r, q)
      BY <2>1
    <2>6. \E k \in DOMAIN idle[p.ep] : /\ idle' = [idle EXCEPT ![p.ep] = Dropped(p.ep, k)]
                                       /\ c = idle[p.ep][k].conn
      BY <2>1
    <2> HIDE DEF p, c
    <2>7. /\ q \in Request /\ q.pc = "send" /\ q.turn = p.turn /\ q.ep = p.ep /\ q.conn = c
          /\ q.reused /\ q.counted = p.counted /\ q.keep = p.keep
      BY <1>1, <2>3 DEF Request, PCs
    <2> HIDE DEF q
    <2>8. Placed(q)
      BY <1>1, <1>3, <2>4, <2>7 DEF Placed, Through, Exchanging
    <2>9. HoldStep(p, q)
      BY <1>1, <1>2, <2>7 DEF HoldStep, HoldKept, Holding, Looking, PCs
    <2>10. BreakerStep(p, q)
      BY <1>2, <2>7 DEF BreakerStep, Untold
    <2>11. FreshStep(p, q)
      BY <1>1, <2>7 DEF FreshStep
    <2>12. ConnPooled(p, q)
      BY <1>1, <1>2, <1>3, <2>6, <2>7 DEF ConnPooled
    <2>13. Does(p, q)
      BY <2>8, <2>9, <2>10, <2>11, <2>12 DEF Does, PoolStep
    <2> QED
      BY <2>5, <2>7, <2>13 DEF p
  <1>5. CASE idle' = [idle EXCEPT ![p.ep] = <<>>] /\ Goto(r, [p EXCEPT !.pc = "fresh"])
    <2> DEFINE q == [p EXCEPT !.pc = "fresh"]
    <2>1. "fresh" \in PCs
      BY DEF PCs
    <2>2. q \in Request /\ q.pc = "fresh" /\ Kept(p, q) /\ q.keep = p.keep
      BY <1>1, <2>1, SetPc
    <2>3. Goto(r, q) /\ idle' = [idle EXCEPT ![p.ep] = <<>>]
      BY <1>5
    <2> HIDE DEF p, q
    <2>4. Placed(q)
      BY <1>1, <1>3, <2>2 DEF Placed, Through, Exchanging, Kept
    <2>5. HoldStep(p, q)
      BY <1>1, <1>2, <2>2 DEF HoldStep, HoldKept, Holding, Looking, PCs, Kept
    <2>6. BreakerStep(p, q)
      BY <1>2, <2>2 DEF BreakerStep, Untold, Kept
    <2>7. FreshStep(p, q)
      BY <1>1, <2>2 DEF FreshStep, Kept
    <2>8. PoolEmptied(p, q)
      BY <1>1, <1>2, <1>3, <2>2, <2>3 DEF PoolEmptied, Kept
    <2>9. Does(p, q)
      BY <2>4, <2>5, <2>6, <2>7, <2>8 DEF Does, PoolStep
    <2> QED
      BY <2>2, <2>3, <2>9 DEF p
  <1> QED
    BY <1>4, <1>5 DEF Acquire

(* A new connection is in no hand and in no pool.                          *)
LEMMA NewConnUnused ==
  ASSUME Unused # {}
  PROVE  NewConn \in Conns /\ NewConn \notin Held /\ NewConn \notin Pooled
  BY DEF NewConn, Unused

(* Connect puts a new connection in hand.                                  *)
LEMMA ConnectDoes ==
  ASSUME TypeOK, Places, NEW r \in Requests, Connect(r)
  PROVE  \E q \in Request : Goto(r, q) /\ Does(req[r], q)
  <1> DEFINE p == req[r]
             q == [p EXCEPT !.pc = "send", !.conn = NewConn]
  <1>1. p \in Request /\ Placed(p) /\ p.pc = "fresh" /\ p.ep \in Endpoints
    BY InHand DEF Connect, At
  <1>2. UNCHANGED <<cb, active, idle, owed, log>> /\ Goto(r, q) /\ Unused # {}
    BY DEF Connect
  <1>3. NewConn \in Conns /\ NewConn # None
    BY <1>2, NewConnUnused, GroupAssumption
  <1>4. None \notin owed
    BY GroupAssumption DEF TypeOK
  <1> HIDE DEF p
  <1>5. /\ q \in Request /\ q.pc = "send" /\ q.turn = p.turn /\ q.ep = p.ep /\ q.conn = NewConn
        /\ q.reused = p.reused /\ q.counted = p.counted /\ q.keep = p.keep
    BY <1>1, <1>3 DEF Request, PCs
  <1>6. /\ p.turn # 0 /\ p.conn = None /\ ~p.counted /\ p.pc \in Holding /\ ~p.reused /\ ~p.keep
    BY <1>1, ReadyFacts
  <1> HIDE DEF q
  <1>7. Placed(q)
    BY <1>1, <1>3, <1>5, <1>6 DEF Placed, Through, Exchanging
  <1>8. HoldStep(p, q)
    BY <1>1, <1>2, <1>5 DEF HoldStep, HoldKept, Holding, Looking, PCs
  <1>9. BreakerStep(p, q)
    BY <1>2, <1>5 DEF BreakerStep, Untold
  <1>10. FreshStep(p, q)
    BY <1>5, <1>6 DEF FreshStep
  <1>11. ConnNew(p, q)
    BY <1>2, <1>4, <1>5, <1>6 DEF ConnNew
  <1>12. Does(p, q)
    BY <1>7, <1>8, <1>9, <1>10, <1>11 DEF Does, PoolStep
  <1> QED
    BY <1>2, <1>5, <1>12 DEF p

(* ConnectFail tells the breaker and keeps the hold.                       *)
LEMMA ConnectFailDoes ==
  ASSUME TypeOK, Places, NEW r \in Requests, ConnectFail(r)
  PROVE  \E q \in Request : Goto(r, q) /\ Does(req[r], q)
  <1> DEFINE p == req[r]
             q == [p EXCEPT !.pc = "undo", !.turn = 0]
  <1>1. p \in Request /\ Placed(p) /\ p.pc = "fresh" /\ p.ep \in Endpoints
    BY InHand DEF ConnectFail, At
  <1>2. UNCHANGED <<active, idle, owed>> /\ Goto(r, q)
    BY DEF ConnectFail
  <1>3. \E ret \in Ret : Record(p.ep, ret, p.turn)
    <2>1. PICK slow \in Slows : Record(p.ep, [mark |-> "FAIL", slow |-> slow], p.turn)
      BY DEF ConnectFail
    <2>2. [mark |-> "FAIL", slow |-> slow] \in Ret
      BY GroupAssumption DEF Ret, Marks
    <2> QED
      BY <2>1, <2>2
  <1> HIDE DEF p
  <1>4. /\ q \in Request /\ q.pc = "undo" /\ q.turn = 0 /\ q.ep = p.ep /\ q.conn = p.conn
        /\ q.reused = p.reused /\ q.counted = p.counted /\ q.keep = p.keep
    BY <1>1 DEF Request, PCs
  <1>5. /\ p.turn # 0 /\ p.conn = None /\ ~p.counted /\ p.pc \in Holding /\ ~p.reused /\ ~p.keep
    BY <1>1, ReadyFacts
  <1> HIDE DEF q
  <1>6. Placed(q)
    BY <1>1, <1>4, <1>5 DEF Placed, Through, Exchanging
  <1>7. HoldStep(p, q)
    BY <1>1, <1>2, <1>4 DEF HoldStep, HoldKept, Holding, Looking, PCs
  <1>8. BreakerStep(p, q)
    BY <1>1, <1>3, <1>4, <1>5, Zenon DEF BreakerStep, Told
  <1>9. FreshStep(p, q)
    BY <1>4, <1>5 DEF FreshStep
  <1>10. PoolStep(p, q)
    BY <1>2, <1>4, <1>5 DEF PoolStep, ConnStays
  <1>11. Does(p, q)
    BY <1>6, <1>7, <1>8, <1>9, <1>10 DEF Does
  <1> QED
    BY <1>2, <1>4, <1>11 DEF p

(* Undo gives the hold back.                                               *)
LEMMA UndoDoes ==
  ASSUME TypeOK, Places, NEW r \in Requests, Undo(r)
  PROVE  \E q \in Request : Goto(r, q) /\ Does(req[r], q)
  <1> DEFINE p == req[r]
             q == NextCandidate(p)
  <1>1. p \in Request /\ Placed(p) /\ p.pc = "undo" /\ p.ep \in Endpoints
    BY InHand DEF Undo, At
  <1>2. UNCHANGED <<cb, idle, owed, log>> /\ Goto(r, q) /\ DropHold(p.ep)
    BY DEF Undo
  <1>3. q \in Request /\ Cleared(q) /\ q.pc = "pick"
    BY <1>1, NextLook
  <1> HIDE DEF p, q
  <1>4. Cleared(p)
    BY <1>1, LookingCleared
  <1>5. Placed(q)
    BY <1>3, ClearedPlaced DEF Looking
  <1>6. HoldStep(p, q)
    BY <1>1, <1>2, <1>3 DEF HoldStep, HoldGiven, Holding, Looking, PCs
  <1>7. BreakerStep(p, q)
    BY <1>2, <1>3, <1>4 DEF BreakerStep, Untold, Cleared
  <1>8. FreshStep(p, q)
    BY <1>3 DEF FreshStep, Cleared
  <1>9. PoolStep(p, q)
    BY <1>2, <1>3, <1>4 DEF PoolStep, ConnStays, Cleared
  <1>10. Does(p, q)
    BY <1>5, <1>6, <1>7, <1>8, <1>9 DEF Does
  <1> QED
    BY <1>2, <1>3, <1>10 DEF p

(* Drop gives the hold back.                                               *)
LEMMA DropDoes ==
  ASSUME TypeOK, Places, NEW r \in Requests, Drop(r)
  PROVE  \E q \in Request : Goto(r, q) /\ Does(req[r], q)
  <1> DEFINE p == req[r]
             q == Resting
  <1>1. p \in Request /\ Placed(p) /\ p.pc = "drop" /\ p.ep \in Endpoints
    BY InHand DEF Drop, At
  <1>2. UNCHANGED <<cb, idle, owed, log>> /\ Goto(r, q) /\ DropHold(p.ep)
    BY DEF Drop
  <1>3. q \in Request /\ Cleared(q) /\ q.pc = "idle"
    BY RestingType
  <1> HIDE DEF p, q
  <1>4. Cleared(p)
    BY <1>1, LookingCleared
  <1>5. Placed(q)
    BY <1>3, ClearedPlaced DEF Looking
  <1>6. HoldStep(p, q)
    BY <1>1, <1>2, <1>3 DEF HoldStep, HoldGiven, Holding, Looking, PCs
  <1>7. BreakerStep(p, q)
    BY <1>2, <1>3, <1>4 DEF BreakerStep, Untold, Cleared
  <1>8. FreshStep(p, q)
    BY <1>3 DEF FreshStep, Cleared
  <1>9. PoolStep(p, q)
    BY <1>2, <1>3, <1>4 DEF PoolStep, ConnStays, Cleared
  <1>10. Does(p, q)
    BY <1>5, <1>6, <1>7, <1>8, <1>9 DEF Does
  <1> QED
    BY <1>2, <1>3, <1>10 DEF p


(* A request with a connection in hand.                                    *)
LEMMA BusyFacts ==
  ASSUME NEW p \in Request, Placed(p), p.pc \in Exchanging
  PROVE  p.turn # 0 /\ p.conn # None /\ p.conn \in Conns /\ p.ep \in Endpoints /\ p.pc \in Holding
  BY DEF Placed, Through, Exchanging, Holding, Looking, PCs, Request

(* The exchange goes on, or ends and leaves the connection to be closed.   *)
LEMMA ExchangeGoesOn ==
  ASSUME TypeOK, Places, NEW r \in Requests,
         Send(r) \/ StaleConn(r) \/ ExchangeFail(r) \/ RequestFail(r) \/ ClientGone(r)
                 \/ BodyFail(r) \/ BodyEnd(r)
  PROVE  \E q \in Request : Goto(r, q) /\ Does(req[r], q)
  <1> DEFINE p == req[r]
  <1>1. p \in Request /\ Placed(p) /\ p.pc \in {"send", "head", "retry", "body"}
    BY InHand DEF Send, StaleConn, ExchangeFail, RequestFail, ClientGone, BodyFail, BodyEnd, At
  <1>2. UNCHANGED <<cb, active, idle, log>>
    BY DEF Send, StaleConn, ExchangeFail, RequestFail, ClientGone, BodyFail, BodyEnd
  <1>3. owed' = owed \/ (owed' = owed \cup {p.conn} /\ Send(r))
                     \/ (owed' = owed \ {p.conn} /\ BodyEnd(r))
    BY DEF Send, StaleConn, ExchangeFail, RequestFail, ClientGone, BodyFail, BodyEnd
  <1>4. p.conn # None /\ p.pc \in Holding /\ ~p.keep
    BY <1>1, BusyFacts DEF Exchanging, Placed
  <1> SUFFICES \E q \in Request : /\ Goto(r, q) /\ Kept(p, q)
                                  /\ \/ q.pc \in {"head", "retry"} /\ ~p.counted /\ ~q.keep
                                     \/ q.pc = "mark" /\ (q.keep => owed' = owed \ {p.conn})
    <2>1. PICK q \in Request : /\ Goto(r, q) /\ Kept(p, q)
                               /\ \/ q.pc \in {"head", "retry"} /\ ~p.counted /\ ~q.keep
                                  \/ q.pc = "mark" /\ (q.keep => owed' = owed \ {p.conn})
      OBVIOUS
    <2> HIDE DEF p
    <2>2. Placed(q)
      BY <1>1, <1>4, <2>1 DEF Placed, Kept, Through, Exchanging
    <2>3. q.pc \in Holding /\ q.pc # "pool"
      BY <2>1 DEF Holding, Looking, PCs
    <2>4. owed' \subseteq owed \cup ({p.conn} \ {None})
      BY <1>3, <1>4
    <2>5. q.keep => q.conn \notin owed'
      BY <2>1 DEF Kept
    <2>6. Does(p, q)
      BY <1>1, <1>2, <1>4, <2>1, <2>2, <2>3, <2>4, <2>5, GoesOn
    <2> QED
      BY <2>1, <2>6 DEF p
  <1>5. "head" \in PCs /\ "retry" \in PCs /\ "mark" \in PCs
    BY DEF PCs
  <1>6. CASE Send(r)
    <2> DEFINE q == [p EXCEPT !.pc = "head"]
    <2>1. q \in Request /\ q.pc = "head" /\ Kept(p, q) /\ q.keep = p.keep
      BY <1>1, <1>5, SetPc
    <2>2. Goto(r, q) /\ p.pc = "send"
      BY <1>6 DEF Send, At
    <2> QED
      BY <1>1, <1>4, <2>1, <2>2 DEF Placed
  <1>7. CASE StaleConn(r)
    <2> DEFINE q == [p EXCEPT !.pc = "retry"]
    <2>1. q \in Request /\ q.pc = "retry" /\ Kept(p, q) /\ q.keep = p.keep
      BY <1>1, <1>5, SetPc
    <2>2. Goto(r, q) /\ p.pc \in {"send", "head"}
      BY <1>7 DEF StaleConn, At
    <2> QED
      BY <1>1, <1>4, <2>1, <2>2 DEF Placed
  <1>8. CASE ExchangeFail(r) \/ RequestFail(r)
    <2>1. PICK m \in Marks, slow \in Slows :
             Goto(r, [p EXCEPT !.pc = "mark", !.ret = [mark |-> m, slow |-> slow], !.keep = FALSE])
      BY <1>8 DEF ExchangeFail, RequestFail, End, Marks
    <2> DEFINE v == [mark |-> m, slow |-> slow]
               q == [p EXCEPT !.pc = "mark", !.ret = v, !.keep = FALSE]
    <2>2. v \in Ret
      BY GroupAssumption DEF Ret
    <2>3. Goto(r, q)
      BY <2>1
    <2> HIDE DEF p, v
    <2>4. q \in Request /\ q.pc = "mark" /\ Kept(p, q) /\ ~q.keep
      BY <1>1, <1>5, <2>2 DEF Request, Kept
    <2> QED
      BY <2>3, <2>4
  <1>9. CASE ClientGone(r) \/ BodyEnd(r)
    <2>1. PICK k \in BOOLEAN : /\ Goto(r, [p EXCEPT !.pc = "mark", !.keep = k])
                               /\ k => owed' = owed \ {p.conn}
      <3>1. CASE ClientGone(r)
        BY <3>1 DEF ClientGone
      <3>2. CASE BodyEnd(r)
        BY <3>2 DEF BodyEnd
      <3> QED
        BY <1>9, <3>1, <3>2
    <2> DEFINE q == [p EXCEPT !.pc = "mark", !.keep = k]
    <2>2. Goto(r, q) /\ (k => owed' = owed \ {p.conn})
      BY <2>1
    <2> HIDE DEF p
    <2>3. q \in Request /\ q.pc = "mark" /\ Kept(p, q) /\ q.keep = k
      BY <1>1, <1>5 DEF Request, Kept
    <2> QED
      BY <2>2, <2>3
  <1>10. CASE BodyFail(r)
    <2> DEFINE m == IF p.counted THEN p.ret.mark ELSE "FAIL"
               v == [p.ret EXCEPT !.mark = m]
               q == [p EXCEPT !.pc = "mark", !.keep = FALSE, !.ret = v]
    <2>1. Goto(r, q)
      BY <1>1, <1>10 DEF BodyFail, Request
    <2>2. v \in Ret
      BY <1>1 DEF Request, Ret, Marks
    <2> HIDE DEF p, v
    <2>3. q \in Request /\ q.pc = "mark" /\ Kept(p, q) /\ ~q.keep
      BY <1>1, <1>5, <2>2 DEF Request, Kept
    <2> QED
      BY <2>1, <2>3
  <1> QED
    BY <1>6, <1>7, <1>8, <1>9, <1>10

(* Retry closes the connection and puts a new one in hand.                 *)
LEMMA RetryDoes ==
  ASSUME TypeOK, Places, NEW r \in Requests, Retry(r)
  PROVE  \E q \in Request : Goto(r, q) /\ Does(req[r], q)
  <1> DEFINE p == req[r]
             q == [p EXCEPT !.pc = "send", !.conn = NewConn, !.reused = FALSE]
  <1>1. p \in Request /\ Placed(p) /\ p.pc = "retry" /\ p.ep \in Endpoints
    BY InHand DEF Retry, At
  <1>2. /\ UNCHANGED <<cb, active, idle, log>> /\ owed' = owed \ {p.conn}
        /\ Goto(r, q) /\ Unused # {}
    BY DEF Retry
  <1>3. NewConn \in Conns /\ NewConn # None
    BY <1>2, NewConnUnused, GroupAssumption
  <1> HIDE DEF p
  <1>4. /\ q \in Request /\ q.pc = "send" /\ q.turn = p.turn /\ q.ep = p.ep /\ q.conn = NewConn
        /\ ~q.reused /\ q.counted = p.counted /\ q.keep = p.keep
    BY <1>1, <1>3 DEF Request, PCs
  <1> HIDE DEF q
  <1>5. Placed(q) /\ ~q.keep
    BY <1>1, <1>3, <1>4 DEF Placed, Through, Exchanging
  <1>6. HoldStep(p, q)
    BY <1>1, <1>2, <1>4 DEF HoldStep, HoldKept, Holding, Looking, PCs
  <1>7. BreakerStep(p, q)
    BY <1>2, <1>4 DEF BreakerStep, Untold
  <1>8. FreshStep(p, q)
    BY <1>4 DEF FreshStep
  <1>9. ConnNew(p, q)
    BY <1>2, <1>4, <1>5 DEF ConnNew
  <1>10. Does(p, q)
    BY <1>5, <1>6, <1>7, <1>8, <1>9 DEF Does, PoolStep
  <1> QED
    BY <1>2, <1>4, <1>10 DEF p

(* A result is reported once: a request that reports has not been counted. *)
LEMMA AnswerDoes ==
  ASSUME TypeOK, Places, NEW r \in Requests, Answer(r)
  PROVE  \E q \in Request : Goto(r, q) /\ Does(req[r], q)
  <1> DEFINE p == req[r]
  <1>1. p \in Request /\ Placed(p) /\ p.pc = "head" /\ p.ep \in Endpoints
    BY InHand DEF Answer, At
  <1>2. UNCHANGED <<active, idle, owed>>
    BY DEF Answer
  <1>3. PICK v \in Ret, f \in BOOLEAN :
          /\ IF f THEN Record(p.ep, v, p.turn) ELSE UNCHANGED <<cb, log>>
          /\ Goto(r, [p EXCEPT !.pc = "body", !.ret = v, !.counted = f])
    <2>1. PICK m \in {"OK", "FAIL"}, slow \in Slows, f \in BOOLEAN :
            LET v == [mark |-> m, slow |-> slow]
            IN  /\ IF f THEN Record(p.ep, v, p.turn) ELSE UNCHANGED <<cb, log>>
                /\ Goto(r, [p EXCEPT !.pc = "body", !.ret = v, !.counted = f])
      BY DEF Answer
    <2>2. [mark |-> m, slow |-> slow] \in Ret
      BY GroupAssumption DEF Ret, Marks
    <2> QED
      BY <2>1, <2>2
  <1> DEFINE q == [p EXCEPT !.pc = "body", !.ret = v, !.counted = f]
  <1>4. Goto(r, q)
    BY <1>3
  <1>5. IF f THEN Record(p.ep, v, p.turn) ELSE UNCHANGED <<cb, log>>
    BY <1>3
  <1> HIDE DEF p
  <1>6. /\ q \in Request /\ q.pc = "body" /\ q.turn = p.turn /\ q.ep = p.ep /\ q.conn = p.conn
        /\ q.reused = p.reused /\ q.counted = f /\ q.keep = p.keep
    BY <1>1 DEF Request, PCs
  <1> HIDE DEF q
  <1>7. p.turn # 0 /\ ~p.counted /\ ~p.keep /\ p.conn # None
    BY <1>1 DEF Placed, Through, Exchanging
  <1>8. Placed(q)
    BY <1>1, <1>6, <1>7 DEF Placed, Through, Exchanging
  <1>9. HoldStep(p, q)
    BY <1>1, <1>2, <1>6 DEF HoldStep, HoldKept, Holding, Looking, PCs
  <1>10. BreakerStep(p, q)
    <2>1. CASE f
      <3>1. \E ret \in Ret : Record(p.ep, ret, p.turn)
        BY <1>5, <2>1
      <3>2. q.turn = p.turn /\ q.ep = p.ep /\ q.counted
        BY <1>6, <2>1
      <3> QED
        BY <1>1, <1>7, <3>1, <3>2, Zenon DEF BreakerStep, Told
    <2>2. CASE ~f
      <3>1. q.counted = FALSE /\ p.counted = FALSE
        BY <1>1, <1>6, <1>7, <2>2 DEF Request
      <3> QED
        BY <1>5, <1>6, <2>2, <3>1 DEF BreakerStep, Untold
    <2> QED
      BY <2>1, <2>2
  <1>11. FreshStep(p, q)
    BY <1>6 DEF FreshStep
  <1>12. PoolStep(p, q)
    BY <1>2, <1>6, <1>7 DEF PoolStep, ConnStays
  <1>13. Does(p, q)
    BY <1>8, <1>9, <1>10, <1>11, <1>12 DEF Does
  <1> QED
    BY <1>4, <1>6, <1>13 DEF p

(* Mark tells the breaker, unless the answer did.                          *)
LEMMA MarkDoes ==
  ASSUME TypeOK, Places, NEW r \in Requests, Mark(r)
  PROVE  \E q \in Request : Goto(r, q) /\ Does(req[r], q)
  <1> DEFINE p == req[r]
             q == [p EXCEPT !.pc = "back", !.counted = TRUE]
  <1>1. p \in Request /\ Placed(p) /\ p.pc = "mark" /\ p.ep \in Endpoints
    BY InHand DEF Mark, At
  <1>2. UNCHANGED <<active, idle, owed>> /\ Goto(r, q)
    BY DEF Mark
  <1>3. IF p.counted THEN UNCHANGED <<cb, log>> ELSE Record(p.ep, p.ret, p.turn)
    BY DEF Mark
  <1> HIDE DEF p
  <1>4. /\ q \in Request /\ q.pc = "back" /\ q.turn = p.turn /\ q.ep = p.ep /\ q.conn = p.conn
        /\ q.reused = p.reused /\ q.counted /\ q.keep = p.keep
    BY <1>1 DEF Request, PCs
  <1> HIDE DEF q
  <1>5. p.turn # 0 /\ p.conn # None /\ p.counted \in BOOLEAN /\ p.ret \in Ret
    BY <1>1 DEF Placed, Through, Exchanging, Request
  <1>6. Placed(q)
    BY <1>1, <1>4, <1>5 DEF Placed, Through, Exchanging
  <1>7. HoldStep(p, q)
    BY <1>1, <1>2, <1>4 DEF HoldStep, HoldKept, Holding, Looking, PCs
  <1>8. BreakerStep(p, q)
    <2>1. CASE ~p.counted
      <3>1. \E ret \in Ret : Record(p.ep, ret, p.turn)
        BY <1>3, <1>5, <2>1
      <3>2. q.turn = p.turn /\ q.ep = p.ep /\ q.counted
        BY <1>4
      <3> QED
        BY <1>1, <1>5, <2>1, <3>1, <3>2, Zenon DEF BreakerStep, Told
    <2>2. CASE p.counted
      BY <1>3, <1>4, <1>5, <2>2 DEF BreakerStep, Untold
    <2> QED
      BY <2>1, <2>2
  <1>9. FreshStep(p, q)
    BY <1>4 DEF FreshStep
  <1>10. PoolStep(p, q)
    BY <1>2, <1>4, <1>5 DEF PoolStep, ConnStays
  <1>11. Does(p, q)
    BY <1>6, <1>7, <1>8, <1>9, <1>10 DEF Does
  <1> QED
    BY <1>2, <1>4, <1>11 DEF p

(* Back puts the connection into the pool, or closes it.                   *)
LEMMA BackDoes ==
  ASSUME TypeOK, Places, NEW r \in Requests, Back(r)
  PROVE  \E q \in Request : Goto(r, q) /\ Does(req[r], q)
  <1> DEFINE p == req[r]
             q == [Resting EXCEPT !.pc = "drop", !.ep = p.ep]
  <1>1. p \in Request /\ Placed(p) /\ p.pc = "back" /\ p.ep \in Endpoints
    BY InHand DEF Back, At
  <1>2. UNCHANGED <<cb, active, log>> /\ Goto(r, q)
    BY DEF Back
  <1>3. \/ /\ p.keep /\ owed' = owed
           /\ idle' = [idle EXCEPT ![p.ep] = Append(@, [conn |-> p.conn, since |-> now])]
        \/ owed' = owed \ {p.conn} /\ idle' = idle
    BY DEF Back
  <1>4. "drop" \in PCs /\ p.ep \in 0 .. N
    BY <1>1, GroupAssumption DEF PCs, Endpoints
  <1>5. q \in Request /\ q.pc = "drop" /\ q.ep = p.ep /\ Cleared(q)
    BY <1>4, RestEp
  <1> HIDE DEF p, q
  <1>6. p.counted /\ p.conn # None
    BY <1>1 DEF Placed, Exchanging
  <1>7. Placed(q)
    BY <1>1, <1>5, ClearedPlaced
  <1>8. HoldStep(p, q)
    BY <1>1, <1>2, <1>5 DEF HoldStep, HoldKept, Holding, Looking, PCs
  <1>9. BreakerStep(p, q)
    BY <1>2, <1>5, <1>6 DEF BreakerStep, Untold, Cleared
  <1>10. FreshStep(p, q)
    BY <1>5 DEF FreshStep, Cleared
  <1>11. PoolStep(p, q)
    BY <1>1, <1>3, <1>5, <1>6 DEF PoolStep, ConnBack, ConnClosed, Cleared
  <1>12. Does(p, q)
    BY <1>7, <1>8, <1>9, <1>10, <1>11 DEF Does
  <1> QED
    BY <1>2, <1>5, <1>12 DEF p

(* Every step of a request.                                                *)
LEMMA StepDoes ==
  ASSUME TypeOK, Places, \A e \in Endpoints : cb[e].turn # 0, NEW r \in Requests,
         Start(r) \/ RequestStep(r)
  PROVE  Moved(r) /\ Does(req[r], req'[r]) /\ calls' \in Nat
  <1>1. \E q \in Request : Goto(r, q) /\ Does(req[r], q)
    BY LookDoes, TryHoldDoes, IsAllowedDoes, ExpireDoes, ReadStateDoes, AcquireDoes, ConnectDoes,
       ConnectFailDoes, UndoDoes, ExchangeGoesOn, RetryDoes, AnswerDoes, MarkDoes, BackDoes,
       DropDoes
       DEF RequestStep, Acquiring, Exchange, Releasing
  <1>2. calls' = calls \/ calls' = calls + 1
    BY DEF RequestStep, Acquiring, Exchange, Releasing, Start, Scan, GiveUp, Pick, TryHold,
           IsAllowed, Expire, ReadState, Acquire, Connect, ConnectFail, Undo, Send, StaleConn,
           Retry, ExchangeFail, RequestFail, Answer, ClientGone, BodyFail, BodyEnd, Mark, Back, Drop
  <1>3. calls' \in Nat
    BY <1>2 DEF TypeOK
  <1> QED
    BY <1>1, <1>3, GotoMoves


-----------------------------------------------------------------------------
(* The breakers: what a step of a request does to the one of endpoint e.   *)

(* A request let through in some turn was let through in one that has been.*)
Turns == /\ \A e \in Endpoints : cb[e].turn # 0
         /\ \A r \in Requests : req[r].turn # 0 => req[r].turn <= cb[req[r].ep].turn

Unmoved(e) == cb'[e] = cb[e] /\ (cb[e].state = "HALF_OPEN" => Out(e)' = Out(e))
Counts(e) == /\ cb[e].state = "CLOSED" /\ cb'[e].state = "CLOSED" /\ cb'[e].turn = cb[e].turn
             /\ cb'[e].openMs = cb[e].openMs /\ cb'[e].pending = cb[e].pending
             /\ cb'[e].ok = cb[e].ok /\ cb'[e].consec < Threshold
Trips(e) == /\ cb[e].state = "CLOSED" /\ cb'[e].state = "OPEN" /\ cb'[e].turn = cb[e].turn + 1
            /\ cb'[e].pending = 0 /\ cb'[e].openAt = now /\ cb'[e].openMs = OpenMs
Wakes(e, r) == /\ cb[e].state = "OPEN" /\ Elapsed(cb[e], now) /\ cb'[e].state = "HALF_OPEN"
               /\ cb'[e].turn = cb[e].turn + 1 /\ cb'[e].pending = 1
               /\ cb'[e].openMs = cb[e].openMs /\ Out(e)' = {r}
Admits(e, r) == /\ cb[e].state = "HALF_OPEN" /\ cb'[e].state = "HALF_OPEN"
                /\ cb'[e].turn = cb[e].turn /\ cb'[e].openMs = cb[e].openMs
                /\ cb[e].pending < HalfOpenMax /\ cb'[e].pending = cb[e].pending + 1
                /\ r \notin Out(e) /\ Out(e)' = Out(e) \cup {r}
Returns(e, r) == /\ cb[e].state = "HALF_OPEN" /\ cb'[e].state = "HALF_OPEN"
                 /\ cb'[e].turn = cb[e].turn /\ cb'[e].openMs = cb[e].openMs
                 /\ cb'[e].pending = cb[e].pending - 1
                 /\ r \in Out(e) /\ Out(e)' = Out(e) \ {r}
Reopens(e, r) == /\ cb[e].state = "HALF_OPEN" /\ r \in Out(e) /\ cb'[e].state = "OPEN"
                 /\ cb'[e].turn = cb[e].turn + 1 /\ cb'[e].pending = 0
                 /\ cb'[e].openAt = now /\ cb'[e].openMs = Doubled(cb[e])
Closes(e, r) == /\ cb[e].state = "HALF_OPEN" /\ r \in Out(e) /\ cb'[e].state = "CLOSED"
                /\ cb'[e].turn = cb[e].turn + 1 /\ cb'[e].pending = 0
                /\ cb'[e].consec = 0 /\ cb'[e].ok = 0 /\ cb'[e].openMs = OpenMs
Turning(e, r) == \/ Unmoved(e) \/ Counts(e) \/ Trips(e) \/ Wakes(e, r) \/ Admits(e, r)
                 \/ Returns(e, r) \/ Reopens(e, r) \/ Closes(e, r)

(* The probes that are out can be counted.                                 *)
LEMMA OutFinite ==
  ASSUME NEW e
  PROVE  IsFiniteSet(Out(e)) /\ Cardinality(Out(e)) \in Nat
  <1>1. Out(e) \subseteq Requests /\ IsFiniteSet(Requests)
    BY GroupAssumption DEF Out
  <1> QED
    BY <1>1, FS_Subset, FS_CardinalityType

(* The probes that are out after request r has moved.                      *)
LEMMA OutSame ==
  ASSUME NEW e \in Endpoints, NEW r \in Requests, Moved(r), cb'[e].turn = cb[e].turn,
         r \in Out(e) <=> r \in Out(e)'
  PROVE  Out(e)' = Out(e)
  <1>1. ASSUME NEW s \in Requests PROVE s \in Out(e) <=> s \in Out(e)'
    <2>1. CASE s = r
      BY <2>1
    <2>2. CASE s # r
      BY <2>2 DEF Out, Moved
    <2> QED
      BY <2>1, <2>2
  <1>2. Out(e) \subseteq Requests /\ Out(e)' \subseteq Requests
    BY DEF Out
  <1> QED
    BY <1>1, <1>2

(* Request r has become a probe.                                           *)
LEMMA OutAdds ==
  ASSUME NEW e \in Endpoints, NEW r \in Requests, Moved(r), cb'[e].turn = cb[e].turn,
         r \in Out(e)'
  PROVE  Out(e)' = Out(e) \cup {r}
  <1>1. ASSUME NEW s \in Requests PROVE s \in Out(e)' <=> s \in Out(e) \cup {r}
    <2>1. CASE s = r
      BY <2>1
    <2>2. CASE s # r
      BY <2>2 DEF Out, Moved
    <2> QED
      BY <2>1, <2>2
  <1>2. Out(e) \subseteq Requests /\ Out(e)' \subseteq Requests
    BY DEF Out
  <1> QED
    BY <1>1, <1>2

(* Request r is not a probe any more.                                      *)
LEMMA OutLoses ==
  ASSUME NEW e \in Endpoints, NEW r \in Requests, Moved(r), cb'[e].turn = cb[e].turn,
         r \notin Out(e)'
  PROVE  Out(e)' = Out(e) \ {r}
  <1>1. ASSUME NEW s \in Requests PROVE s \in Out(e)' <=> s \in Out(e) \ {r}
    <2>1. CASE s = r
      BY <2>1
    <2>2. CASE s # r
      BY <2>2 DEF Out, Moved
    <2> QED
      BY <2>1, <2>2
  <1>2. Out(e) \subseteq Requests /\ Out(e)' \subseteq Requests
    BY DEF Out
  <1> QED
    BY <1>1, <1>2

(* In a new turn request r is the only probe.                              *)
LEMMA OutAlone ==
  ASSUME TypeOK, Turns, NEW e \in Endpoints, NEW r \in Requests, Moved(r),
         cb'[e].turn = cb[e].turn + 1, r \in Out(e)'
  PROVE  Out(e)' = {r}
  <1>1. ASSUME NEW s \in Requests PROVE s \in Out(e)' <=> s = r
    <2>1. CASE s = r
      BY <2>1
    <2>2. CASE s # r
      <3>1. req[s] \in Request /\ cb[e] \in Breaker
        BY DEF TypeOK
      <3>2. req[s].turn \in Nat /\ cb[e].turn \in Nat /\ cb[e].turn # 0
        BY <3>1 DEF Request, Breaker, Turns
      <3>3. req[s].ep = e => req[s].turn # cb[e].turn + 1
        BY <3>2 DEF Turns
      <3>4. req'[s] = req[s]
        BY <2>2 DEF Moved
      <3> QED
        BY <2>2, <3>3, <3>4 DEF Out
    <2> QED
      BY <2>1, <2>2
  <1>2. Out(e)' \subseteq Requests
    BY DEF Out
  <1> QED
    BY <1>1, <1>2

(* A breaker that is left alone stays as it is, and so do its probes.      *)
LEMMA UntoldTurns ==
  ASSUME TypeOK, Turns, NEW e \in Endpoints, NEW r \in Requests, Moved(r), Untold(req[r], req'[r])
  PROVE  Turning(e, r)
  <1>1. cb' = cb /\ cb[e].turn # 0
    BY DEF Untold, Turns
  <1>2. r \in Out(e) <=> r \in Out(e)'
    BY <1>1 DEF Out, Untold
  <1>3. Out(e)' = Out(e)
    BY <1>1, <1>2, OutSame
  <1> QED
    BY <1>1, <1>3 DEF Turning, Unmoved

(* A breaker that is asked stays as it is, admits a probe, or wakes.       *)
LEMMA AskedTurns ==
  ASSUME TypeOK, Turns, NEW e \in Endpoints, NEW r \in Requests, Moved(r), Asked(req[r], req'[r])
  PROVE  Turning(e, r) /\ cb'[e] \in Breaker
  <1> DEFINE p == req[r]
             q == req'[r]
             b == cb[e]
             c == isAllowed(b, now)
  <1>1. b \in Breaker /\ now \in Nat /\ b.turn # 0
    BY DEF TypeOK, Turns
  <1>2. r \notin Out(e)
    BY <1>1 DEF Asked, Out
  <1>3. CASE p.ep # e
    <2>1. cb'[e] = cb[e] /\ q.ep # e
      BY <1>3 DEF Asked, TypeOK
    <2>2. r \notin Out(e)'
      BY <2>1 DEF Out
    <2>3. Out(e)' = Out(e)
      BY <1>2, <2>1, <2>2, OutSame
    <2> QED
      BY <1>1, <2>1, <2>3 DEF Turning, Unmoved
  <1>4. CASE p.ep = e
    <2>1. cb'[e] = c /\ q.ep = e
      BY <1>4 DEF Asked, TypeOK
    <2>2. IF Allows(b, now) THEN q.turn = c.turn /\ ~q.counted ELSE q.turn = 0
      BY <1>4 DEF Asked
    <2>3. c \in Breaker
      BY <1>1, IsAllowedEffect
    <2> HIDE DEF c
    <2>4. Allows(b, now) => r \in Out(e)'
      BY <2>1, <2>2 DEF Out
    <2>5. CASE c = b /\ ~Allows(b, now)
      <3>1. r \notin Out(e)'
        BY <1>1, <2>1, <2>2, <2>5 DEF Out
      <3>2. Out(e)' = Out(e)
        BY <1>2, <2>1, <2>5, <3>1, OutSame
      <3> QED
        BY <2>1, <2>3, <2>5, <3>2 DEF Turning, Unmoved
    <2>6. CASE b.state = "CLOSED"
      <3>1. c = b
        BY <1>1, <2>6, IsAllowedEffect DEF c
      <3> QED
        BY <2>1, <2>3, <2>6, <3>1 DEF Turning, Unmoved
    <2>7. CASE b.state = "HALF_OPEN" /\ Allows(b, now)
      <3>1. /\ c.state = b.state /\ c.turn = b.turn /\ c.openMs = b.openMs
            /\ b.pending < HalfOpenMax /\ c.pending = b.pending + 1
        BY <1>1, <2>7, IsAllowedEffect DEF c
      <3>2. Out(e)' = Out(e) \cup {r}
        BY <2>1, <2>4, <2>7, <3>1, OutAdds
      <3>3. Admits(e, r)
        BY <1>2, <2>1, <2>7, <3>1, <3>2 DEF Admits
      <3> QED
        BY <2>1, <2>3, <3>3 DEF Turning
    <2>8. CASE b.state = "HALF_OPEN" /\ ~Allows(b, now)
      <3>1. c = b
        BY <1>1, <2>8, IsAllowedEffect DEF c
      <3> QED
        BY <2>5, <2>8, <3>1
    <2>9. CASE b.state = "OPEN"
      <3>1. \/ c = b /\ ~Allows(b, now)
            \/ /\ Elapsed(b, now) /\ Allows(b, now)
               /\ c.state = "HALF_OPEN" /\ c.turn = b.turn + 1 /\ c.pending = 1
               /\ c.openMs = b.openMs
        BY <1>1, <2>9, IsAllowedEffect DEF c
      <3>2. CASE /\ Elapsed(b, now) /\ Allows(b, now)
                 /\ c.state = "HALF_OPEN" /\ c.turn = b.turn + 1 /\ c.pending = 1
                 /\ c.openMs = b.openMs
        <4>1. Out(e)' = {r}
          BY <2>1, <2>4, <3>2, OutAlone
        <4>2. Wakes(e, r)
          BY <2>1, <2>9, <3>2, <4>1 DEF Wakes
        <4> QED
          BY <2>1, <2>3, <4>2 DEF Turning
      <3> QED
        BY <2>5, <3>1, <3>2
    <2> QED
      BY <1>1, <2>6, <2>7, <2>8, <2>9 DEF Breaker, States
  <1> QED
    BY <1>3, <1>4


(* A probe of the present turn that reports has a slot to give back.       *)
LEMMA ProbeHasSlot ==
  ASSUME TypeOK, ProbesCounted, NEW e \in Endpoints, NEW r \in Out(e), cb[e].state = "HALF_OPEN"
  PROVE  cb[e].pending > 0
  <1>1. IsFiniteSet(Out(e)) /\ Cardinality(Out(e)) \in Nat
    BY OutFinite
  <1>2. Cardinality(Out(e)) # 0
    BY <1>1, FS_EmptySet
  <1> QED
    BY <1>1, <1>2 DEF ProbesCounted

(* A breaker that is told a result counts it, trips, gives a slot back, or *)
(* settles.                                                                *)
LEMMA ToldTurns ==
  ASSUME TypeOK, Turns, ProbesCounted, NEW e \in Endpoints, NEW r \in Requests, Moved(r),
         Told(req[r], req'[r])
  PROVE  Turning(e, r) /\ cb'[e] \in Breaker
  <1> DEFINE p == req[r]
             q == req'[r]
             b == cb[e]
  <1>0. PICK ret \in Ret : Record(p.ep, ret, p.turn)
    BY DEF Told
  <1> DEFINE c == record(b, ret, p.turn, now)
  <1>1. /\ b \in Breaker /\ now \in Nat /\ b.turn # 0 /\ p \in Request /\ q \in Request
        /\ p.turn # 0 /\ p.turn \in Nat \ {0}
    BY DEF TypeOK, Turns, Request, Moved, Told
  <1>2. cb' = [cb EXCEPT ![p.ep] = record(cb[p.ep], ret, p.turn, now)]
    BY <1>0 DEF Record
  <1>3. CASE p.ep # e
    <2>1. cb'[e] = cb[e]
      BY <1>2, <1>3 DEF TypeOK
    <2>2. r \notin Out(e) /\ r \notin Out(e)'
      BY <1>1, <1>3, <2>1 DEF Out, Told
    <2>3. Out(e)' = Out(e)
      BY <2>1, <2>2, OutSame
    <2> QED
      BY <1>1, <2>1, <2>3 DEF Turning, Unmoved
  <1>4. CASE p.ep = e
    <2>1. cb'[e] = c
      BY <1>2, <1>4 DEF TypeOK
    <2>2. r \in Out(e) <=> p.turn = b.turn
      BY <1>4 DEF Out, Told
    <2>3. p.turn = b.turn /\ b.state = "HALF_OPEN" => b.pending > 0
      BY <2>2, ProbeHasSlot
    <2>4. r \notin Out(e)' \/ cb'[e].turn = 0
      BY <1>4 DEF Out, Told
    <2>5. c \in Breaker
      BY <1>1, <2>3, RecordEffect
    <2>6. CASE p.turn # b.turn \/ b.state = "OPEN"
      <3>1. c = b
        BY <1>1, <2>3, <2>6, RecordEffect
      <3> HIDE DEF c
      <3>2. b.state = "HALF_OPEN" => r \notin Out(e) /\ r \notin Out(e)'
        BY <1>1, <2>1, <2>2, <2>4, <2>6, <3>1
      <3>3. b.state = "HALF_OPEN" => Out(e)' = Out(e)
        BY <2>1, <3>1, <3>2, OutSame
      <3> QED
        BY <2>1, <2>5, <3>1, <3>3 DEF Turning, Unmoved
    <2>7. CASE p.turn = b.turn /\ b.state = "CLOSED"
      <3>1. \/ c = b
            \/ /\ c.state = b.state /\ c.turn = b.turn /\ c.openMs = b.openMs
               /\ c.pending = b.pending /\ c.ok = b.ok /\ c.consec < Threshold
            \/ /\ c.state = "OPEN" /\ c.turn = b.turn + 1 /\ c.pending = 0 /\ c.openAt = now
               /\ c.openMs = OpenMs
        BY <1>1, <2>3, <2>7, RecordEffect
      <3> HIDE DEF c
      <3>2. Unmoved(e) \/ Counts(e) \/ Trips(e)
        BY <2>1, <2>7, <3>1 DEF Unmoved, Counts, Trips
      <3> QED
        BY <2>1, <2>5, <3>2 DEF Turning
    <2>8. CASE p.turn = b.turn /\ b.state = "HALF_OPEN"
      <3>1. \/ /\ c.state = b.state /\ c.turn = b.turn /\ c.openMs = b.openMs
               /\ c.pending = b.pending - 1
            \/ /\ c.state = "OPEN" /\ c.turn = b.turn + 1 /\ c.pending = 0 /\ c.openAt = now
               /\ c.openMs = Doubled(b)
            \/ /\ c.state = "CLOSED" /\ c.turn = b.turn + 1 /\ c.pending = 0
               /\ c.consec = 0 /\ c.ok = 0 /\ c.openMs = OpenMs
        BY <1>1, <2>3, <2>8, RecordEffect
      <3> HIDE DEF c
      <3>2. r \in Out(e)
        BY <2>2, <2>8
      <3>3. CASE /\ c.state = b.state /\ c.turn = b.turn /\ c.openMs = b.openMs
                 /\ c.pending = b.pending - 1
        <4>1. Out(e)' = Out(e) \ {r}
          BY <1>1, <2>1, <2>4, <3>3, OutLoses
        <4>2. Returns(e, r)
          BY <2>1, <2>8, <3>2, <3>3, <4>1 DEF Returns
        <4> QED
          BY <2>1, <2>5, <4>2 DEF Turning
      <3>4. CASE /\ c.state = "OPEN" /\ c.turn = b.turn + 1 /\ c.pending = 0 /\ c.openAt = now
                 /\ c.openMs = Doubled(b)
        BY <2>1, <2>5, <2>8, <3>2, <3>4 DEF Turning, Reopens
      <3>5. CASE /\ c.state = "CLOSED" /\ c.turn = b.turn + 1 /\ c.pending = 0
                 /\ c.consec = 0 /\ c.ok = 0 /\ c.openMs = OpenMs
        BY <2>1, <2>5, <2>8, <3>2, <3>5 DEF Turning, Closes
      <3> QED
        BY <3>1, <3>3, <3>4, <3>5
    <2> QED
      BY <1>1, <2>6, <2>7, <2>8 DEF Breaker, States
  <1> QED
    BY <1>3, <1>4

(* Every step of a request turns every breaker in one of these ways.       *)
LEMMA BreakerTurns ==
  ASSUME TypeOK, Turns, ProbesCounted, NEW r \in Requests, Moved(r),
         BreakerStep(req[r], req'[r])
  PROVE  cb' \in [Endpoints -> Breaker] /\ \A e \in Endpoints : Turning(e, r)
  <1>1. ASSUME NEW e \in Endpoints PROVE Turning(e, r) /\ cb'[e] \in Breaker
    <2>1. cb[e] \in Breaker
      BY DEF TypeOK
    <2>2. CASE Untold(req[r], req'[r])
      <3>1. cb' = cb
        BY <2>2 DEF Untold
      <3> QED
        BY <2>1, <2>2, <3>1, UntoldTurns
    <2> QED
      BY <2>2, AskedTurns, ToldTurns DEF BreakerStep
  <1>2. ASSUME NEW e \in Endpoints, NEW b, cb' = [cb EXCEPT ![e] = b]
        PROVE  cb' = [d \in Endpoints |-> cb'[d]]
    BY <1>2 DEF TypeOK
  <1>3. cb' = [d \in Endpoints |-> cb'[d]]
    <2>1. CASE Untold(req[r], req'[r])
      BY <2>1 DEF Untold, TypeOK
    <2>2. CASE Asked(req[r], req'[r])
      BY <1>2, <2>2 DEF Asked
    <2>3. CASE Told(req[r], req'[r])
      BY <1>2, <2>3 DEF Told, Record
    <2> QED
      BY <2>1, <2>2, <2>3 DEF BreakerStep
  <1> QED
    BY <1>1, <1>3

(* A count plus one result is a count.                                     *)
LEMMA PlusType ==
  ASSUME NEW c \in Count, NEW ret \in Ret
  PROVE  Plus(c, ret) \in Count
  BY DEF Plus, Count

(* The ghost of the window stays a table of counts.                        *)
LEMMA LogType ==
  ASSUME TypeOK, NEW r \in Requests, BreakerStep(req[r], req'[r])
  PROVE  log' \in [Endpoints -> [1 .. MaxNow -> Count]]
  <1> DEFINE p == req[r]
             F == [1 .. MaxNow -> Count]
  <1>0. log \in [Endpoints -> F]
    BY DEF TypeOK
  <1>1. CASE UNCHANGED log
    BY <1>0, <1>1
  <1>2. CASE Told(req[r], req'[r])
    <2>1. PICK ret \in Ret : Record(p.ep, ret, p.turn)
      BY <1>2 DEF Told
    <2>2. p.ep \in Endpoints
      BY <1>2 DEF Told
    <2> DEFINE f == log[p.ep]
               z == [t \in 1 .. MaxNow |-> Zero]
               g == [f EXCEPT ![now] = Plus(f[now], ret)]
    <2>3. f \in F
      BY <1>0, <2>2
    <2>4. z \in F
      BY DEF Zero, Count
    <2>5. g \in F
      <3>1. CASE now \in 1 .. MaxNow
        <4>1. f[now] \in Count
          BY <2>3, <3>1
        <4>2. Plus(f[now], ret) \in Count
          BY <4>1, PlusType
        <4> QED
          BY <2>3, <4>2
      <3>2. CASE now \notin 1 .. MaxNow
        BY <2>3, <3>2
      <3> QED
        BY <3>1, <3>2
    <2> DEFINE b == record(cb[p.ep], ret, p.turn, now)
               h == IF b.state = "CLOSED" /\ cb[p.ep].state = "HALF_OPEN" THEN z
                    ELSE IF cb[p.ep].state = "CLOSED" /\ p.turn = cb[p.ep].turn
                            /\ ret.mark # "SKIP" THEN g ELSE f
    <2>6. log' = [log EXCEPT ![p.ep] = h]
      BY <2>1, Zenon DEF Record
    <2> HIDE DEF f, g, z, b
    <2>7. h \in F
      BY <2>3, <2>4, <2>5
    <2> HIDE DEF h
    <2> QED
      BY <1>0, <2>2, <2>6, <2>7
  <1> QED
    BY <1>1, <1>2 DEF BreakerStep, Untold, Asked


(* The pause of a breaker is never shorter than the first one, nor longer  *)
(* than the limit.                                                         *)
Pauses == \A e \in Endpoints : OpenMs <= cb[e].openMs /\ cb[e].openMs <= MaxOpenMs

(* A request that may use the pool was let through in a turn that is not a *)
(* half-open one.                                                          *)
SentFresh ==
    \A r \in Requests :
      (req[r].pc = "pool" \/ req[r].reused) /\ req[r].turn = cb[req[r].ep].turn
        => cb[req[r].ep].state # "HALF_OPEN"

(* The pending count stays the number of probes that are out.              *)
LEMMA ProbesStay ==
  ASSUME TypeOK, ProbesCounted, NEW r \in Requests, \A e \in Endpoints : Turning(e, r)
  PROVE  ProbesCounted'
  <1> SUFFICES ASSUME NEW e \in Endpoints
               PROVE  cb'[e].pending =
                        IF cb'[e].state = "HALF_OPEN" THEN Cardinality(Out(e)') ELSE 0
    BY DEF ProbesCounted
  <1>1. cb[e].pending = IF cb[e].state = "HALF_OPEN" THEN Cardinality(Out(e)) ELSE 0
    BY DEF ProbesCounted
  <1>2. IsFiniteSet(Out(e)) /\ Cardinality(Out(e)) \in Nat
    BY OutFinite
  <1>3. Turning(e, r)
    OBVIOUS
  <1>4. CASE Unmoved(e)
    BY <1>1, <1>4 DEF Unmoved
  <1>5. CASE Counts(e) \/ Trips(e) \/ Reopens(e, r) \/ Closes(e, r)
    BY <1>1, <1>5 DEF Counts, Trips, Reopens, Closes
  <1>6. CASE Wakes(e, r)
    <2>1. Cardinality({r}) = 1
      BY FS_Singleton
    <2> QED
      BY <1>6, <2>1 DEF Wakes
  <1>7. CASE Admits(e, r)
    <2>1. Cardinality(Out(e) \cup {r}) = Cardinality(Out(e)) + 1
      BY <1>2, <1>7, FS_AddElement DEF Admits
    <2> QED
      BY <1>1, <1>7, <2>1 DEF Admits
  <1>8. CASE Returns(e, r)
    <2>1. Cardinality(Out(e) \ {r}) = Cardinality(Out(e)) - 1
      BY <1>2, <1>8, FS_RemoveElement DEF Returns
    <2> QED
      BY <1>1, <1>8, <2>1 DEF Returns
  <1> QED
    BY <1>3, <1>4, <1>5, <1>6, <1>7, <1>8 DEF Turning

(* Turns only grow, and the state changes with the turn.                   *)
LEMMA TurnGrows ==
  ASSUME TypeOK, NEW e \in Endpoints, NEW r \in Requests, Turning(e, r)
  PROVE  \/ cb'[e].turn = cb[e].turn /\ cb'[e].state = cb[e].state
         \/ cb'[e].turn = cb[e].turn + 1
  BY DEF Turning, Unmoved, Counts, Trips, Wakes, Admits, Returns, Reopens, Closes

(* No request is ahead of its breaker's turn.                              *)
LEMMA TurnsStay ==
  ASSUME TypeOK, Turns, Places, Places', NEW r \in Requests, Moved(r), cb' \in [Endpoints -> Breaker],
         \A e \in Endpoints : Turning(e, r), BreakerStep(req[r], req'[r])
  PROVE  Turns'
  <1>1. ASSUME NEW e \in Endpoints
        PROVE  /\ cb[e].turn \in Nat /\ cb'[e].turn \in Nat /\ cb'[e].turn # 0
               /\ cb[e].turn <= cb'[e].turn
    <2>1. cb[e].turn \in Nat /\ cb[e].turn # 0
      BY DEF TypeOK, Breaker, Turns
    <2>2. cb'[e].turn = cb[e].turn \/ cb'[e].turn = cb[e].turn + 1
      BY TurnGrows
    <2> QED
      BY <2>1, <2>2
  <1>2. ASSUME NEW s \in Requests, req'[s].turn # 0
        PROVE  req'[s].turn <= cb'[req'[s].ep].turn
    <2>1. req'[s].turn \in Nat /\ req'[s].ep \in Endpoints
      BY <1>2 DEF Moved, Request, Places, Placed, Through
    <2>2. CASE req'[s].ep = req[s].ep /\ req'[s].turn = req[s].turn
      <3>1. req[s].turn <= cb[req[s].ep].turn
        BY <1>2, <2>2 DEF Turns
      <3> QED
        BY <1>1, <2>1, <2>2, <3>1
    <2>3. CASE s # r
      BY <2>2, <2>3 DEF Moved
    <2>4. CASE s = r /\ Untold(req[r], req'[r])
      BY <1>2, <2>2, <2>4 DEF Untold
    <2>5. CASE s = r /\ Told(req[r], req'[r])
      BY <1>2, <2>2, <2>5 DEF Told
    <2>6. CASE s = r /\ Asked(req[r], req'[r])
      <3> DEFINE p == req[r]
      <3>1. req'[r].turn = isAllowed(cb[p.ep], now).turn /\ req'[r].ep = p.ep
        BY <1>2, <2>6 DEF Asked
      <3>2. cb'[p.ep] = isAllowed(cb[p.ep], now)
        BY <2>6 DEF Asked, TypeOK
      <3> QED
        BY <1>1, <2>1, <2>6, <3>1, <3>2
    <2> QED
      BY <2>3, <2>4, <2>5, <2>6 DEF BreakerStep
  <1> QED
    BY <1>1, <1>2 DEF Turns

(* The pause stays within its limits.                                      *)
LEMMA PausesStay ==
  ASSUME TypeOK, Pauses, NEW r \in Requests, \A e \in Endpoints : Turning(e, r)
  PROVE  Pauses'
  <1> SUFFICES ASSUME NEW e \in Endpoints
               PROVE  OpenMs <= cb'[e].openMs /\ cb'[e].openMs <= MaxOpenMs
    BY DEF Pauses
  <1>1. /\ OpenMs <= cb[e].openMs /\ cb[e].openMs <= MaxOpenMs /\ cb[e].openMs \in Nat
        /\ OpenMs \in Nat /\ MaxOpenMs \in Nat /\ OpenMs <= MaxOpenMs
    BY BreakerAssumption DEF Pauses, TypeOK, Breaker
  <1>2. cb'[e].openMs \in {cb[e].openMs, OpenMs, Doubled(cb[e])}
    BY DEF Turning, Unmoved, Counts, Trips, Wakes, Admits, Returns, Reopens, Closes
  <1>3. OpenMs <= Doubled(cb[e]) /\ Doubled(cb[e]) <= MaxOpenMs
    BY <1>1 DEF Doubled
  <1> QED
    BY <1>1, <1>2, <1>3

(* A closed breaker stays reset.                                           *)
LEMMA ResetStays ==
  ASSUME TypeOK, ClosedIsReset, NEW r \in Requests, \A e \in Endpoints : Turning(e, r)
  PROVE  ClosedIsReset'
  <1> SUFFICES ASSUME NEW e \in Endpoints, cb'[e].state = "CLOSED"
               PROVE  cb'[e].consec < Threshold /\ cb'[e].openMs = OpenMs /\ cb'[e].ok = 0
    BY DEF ClosedIsReset
  <1>1. cb[e].state = "CLOSED" =>
          cb[e].consec < Threshold /\ cb[e].openMs = OpenMs /\ cb[e].ok = 0
    BY DEF ClosedIsReset
  <1>2. Unmoved(e) \/ Counts(e) \/ Closes(e, r)
    BY DEF Turning, Trips, Wakes, Admits, Returns, Reopens
  <1>3. 0 < Threshold
    BY BreakerAssumption
  <1> QED
    BY <1>1, <1>2, <1>3 DEF Unmoved, Counts, Closes

(* A request sent to the pool belongs to a turn that was never half open.  *)
LEMMA FreshStays ==
  ASSUME TypeOK, Turns, Turns', Places, Places', SentFresh, NEW r \in Requests, Moved(r),
         cb' \in [Endpoints -> Breaker],
         \A e \in Endpoints : Turning(e, r), FreshStep(req[r], req'[r])
  PROVE  SentFresh'
  <1> SUFFICES ASSUME NEW s \in Requests, req'[s].pc = "pool" \/ req'[s].reused,
                      req'[s].turn = cb'[req'[s].ep].turn
               PROVE  cb'[req'[s].ep].state # "HALF_OPEN"
    BY DEF SentFresh
  <1> DEFINE e == req'[s].ep
  <1>1. e \in Endpoints /\ req'[s].turn # 0
    BY DEF Places, Placed, Through, Exchanging
  <1>2. req'[s].ep = req[s].ep /\ req'[s].turn = req[s].turn
    BY DEF Moved, FreshStep
  <1>3. /\ cb[e].turn \in Nat /\ cb'[e].turn \in Nat /\ req[s].turn <= cb[e].turn
        /\ req[s].turn \in Nat
    BY <1>1, <1>2 DEF TypeOK, Breaker, Turns, Request
  <1>4. cb'[e].turn = cb[e].turn /\ cb'[e].state = cb[e].state
    BY <1>1, <1>2, <1>3, TurnGrows
  <1>5. req[s].turn = cb[req[s].ep].turn
    BY <1>2, <1>4
  <1>6. CASE req[s].pc = "pool" \/ req[s].reused
    BY <1>2, <1>4, <1>5, <1>6 DEF SentFresh
  <1>7. CASE ~(req[s].pc = "pool" \/ req[s].reused)
    <2>1. s = r
      BY <1>7 DEF Moved
    <2> QED
      BY <1>2, <1>7, <2>1 DEF FreshStep
  <1> QED
    BY <1>6, <1>7

-----------------------------------------------------------------------------
(* The holds.                                                              *)
Holders(e) == {r \in Requests : req[r].ep = e /\ req[r].pc \in Holding}

HoldsExact == \A e \in Endpoints : active[e] = Cardinality(Holders(e))

(* The two ways to say who holds an endpoint agree.                        *)
LEMMA HoldersCount ==
  ASSUME TypeOK, HoldsExact
  PROVE  HoldsCounted
  <1>1. ASSUME NEW e \in Endpoints
        PROVE  Holders(e) = {r \in Requests : req[r].ep = e
                               /\ req[r].pc \notin {"idle", "scan", "pick", "hold"}}
    <2>1. \A r \in Requests : req[r].pc \in PCs
      BY DEF TypeOK, Request
    <2> QED
      BY <2>1 DEF Holders, Holding, Looking
  <1> QED
    BY <1>1 DEF HoldsCounted, HoldsExact

(* The requests that hold an endpoint can be counted.                      *)
LEMMA HoldersFinite ==
  ASSUME NEW e
  PROVE  IsFiniteSet(Holders(e)) /\ Cardinality(Holders(e)) \in Nat
  <1>1. Holders(e) \subseteq Requests /\ IsFiniteSet(Requests)
    BY GroupAssumption DEF Holders
  <1> QED
    BY <1>1, FS_Subset, FS_CardinalityType

(* activeConns stays the number of requests that hold the endpoint.        *)
LEMMA HoldsStay ==
  ASSUME TypeOK, HoldsExact, NEW r \in Requests, Moved(r), HoldStep(req[r], req'[r])
  PROVE  active' \in [Endpoints -> Nat] /\ HoldsExact'
  <1> DEFINE p == req[r]
             q == req'[r]
  <1>0. active \in [Endpoints -> Nat]
    BY DEF TypeOK
  <1>1. \A e \in Endpoints : active[e] = Cardinality(Holders(e))
    BY DEF HoldsExact
  <1> SUFFICES /\ active' \in [Endpoints -> Nat]
               /\ \A e \in Endpoints : active'[e] = Cardinality(Holders(e)')
    BY DEF HoldsExact
  <1>2. ASSUME NEW e \in Endpoints, NEW s \in Requests, s # r
        PROVE  s \in Holders(e) <=> s \in Holders(e)'
    BY <1>2 DEF Holders, Moved
  <1>3. ASSUME NEW e \in Endpoints, r \in Holders(e) <=> r \in Holders(e)'
        PROVE  Holders(e)' = Holders(e)
    <2>1. Holders(e) \subseteq Requests /\ Holders(e)' \subseteq Requests
      BY DEF Holders
    <2> QED
      BY <1>2, <1>3, <2>1
  <1>4. CASE HoldKept(p, q)
    <2>1. ASSUME NEW e \in Endpoints PROVE Holders(e)' = Holders(e)
      <3>1. r \in Holders(e) <=> r \in Holders(e)'
        BY <1>4 DEF HoldKept, Holders
      <3> QED
        BY <1>3, <3>1
    <2> QED
      BY <1>0, <1>1, <1>4, <2>1 DEF HoldKept
  <1>5. CASE HoldTaken(p, q)
    <2>1. q.ep \in Endpoints /\ active' = [active EXCEPT ![q.ep] = @ + 1]
      BY <1>5 DEF HoldTaken
    <2>2. active' \in [Endpoints -> Nat]
      BY <1>0, <2>1
    <2>3. ASSUME NEW e \in Endpoints PROVE active'[e] = Cardinality(Holders(e)')
      <3>1. CASE e # q.ep
        <4>1. Holders(e)' = Holders(e)
          <5>1. r \notin Holders(e) /\ r \notin Holders(e)'
            BY <1>5, <3>1 DEF Holders, HoldTaken
          <5> QED
            BY <1>3, <5>1
        <4> QED
          BY <1>0, <1>1, <2>1, <3>1, <4>1
      <3>2. CASE e = q.ep
        <4>1. r \notin Holders(e) /\ r \in Holders(e)'
          BY <1>5, <3>2 DEF Holders, HoldTaken
        <4>2. Holders(e)' = Holders(e) \cup {r}
          <5>1. Holders(e) \subseteq Requests /\ Holders(e)' \subseteq Requests
            BY DEF Holders
          <5> QED
            BY <1>2, <4>1, <5>1
        <4>3. Cardinality(Holders(e) \cup {r}) = Cardinality(Holders(e)) + 1
          BY <4>1, HoldersFinite, FS_AddElement
        <4> QED
          BY <1>0, <1>1, <2>1, <3>2, <4>2, <4>3
      <3> QED
        BY <3>1, <3>2
    <2> QED
      BY <2>2, <2>3
  <1>6. CASE HoldGiven(p, q)
    <2>1. p.ep \in Endpoints /\ DropHold(p.ep)
      BY <1>6 DEF HoldGiven
    <2>2. r \in Holders(p.ep)
      BY <1>6 DEF Holders, HoldGiven
    <2>3. active[p.ep] > 0
      <3>1. Cardinality(Holders(p.ep)) # 0 /\ Cardinality(Holders(p.ep)) \in Nat
        BY <2>2, HoldersFinite, FS_EmptySet
      <3> QED
        BY <1>1, <2>1, <3>1
    <2>4. active' = [active EXCEPT ![p.ep] = active[p.ep] - 1]
      BY <2>1, <2>3 DEF DropHold
    <2>5. active' \in [Endpoints -> Nat]
      BY <1>0, <2>1, <2>3, <2>4
    <2>6. ASSUME NEW e \in Endpoints PROVE active'[e] = Cardinality(Holders(e)')
      <3>1. r \notin Holders(e)'
        BY <1>6 DEF Holders, HoldGiven
      <3>2. CASE e # p.ep
        <4>1. Holders(e)' = Holders(e)
          <5>1. r \notin Holders(e)
            BY <3>2 DEF Holders
          <5> QED
            BY <1>3, <3>1, <5>1
        <4> QED
          BY <1>0, <1>1, <2>4, <3>2, <4>1
      <3>3. CASE e = p.ep
        <4>1. Holders(e)' = Holders(e) \ {r}
          <5>1. Holders(e) \subseteq Requests /\ Holders(e)' \subseteq Requests
            BY DEF Holders
          <5> QED
            BY <1>2, <3>1, <5>1
        <4>2. Cardinality(Holders(e) \ {r}) = Cardinality(Holders(e)) - 1
          BY <2>2, <3>3, HoldersFinite, FS_RemoveElement
        <4> QED
          BY <1>0, <1>1, <2>1, <2>4, <3>3, <4>1, <4>2
      <3> QED
        BY <3>2, <3>3
    <2> QED
      BY <2>5, <2>6
  <1> QED
    BY <1>4, <1>5, <1>6 DEF HoldStep


-----------------------------------------------------------------------------
(* The connections.                                                        *)

(* No two requests have a connection in common, none is in a hand and in a *)
(* pool, none is in a pool twice; an answer is owed only on a connection   *)
(* in some hand, and never on one that is to be kept.                      *)
Alone == \A r, s \in Requests : r # s /\ req[r].conn # None => req[r].conn # req[s].conn
Apart == \A r \in Requests, e \in Endpoints : \A n \in DOMAIN idle[e] :
            req[r].conn # idle[e][n].conn
Spread == \A d, e \in Endpoints : \A m \in DOMAIN idle[d], n \in DOMAIN idle[e] :
            idle[d][m].conn = idle[e][n].conn => d = e /\ m = n
OwedHeld == \A c \in owed : \E r \in Requests : req[r].conn = c
KeepsClean == \A r \in Requests : req[r].keep => req[r].conn \notin owed
Owners == Alone /\ Apart /\ Spread /\ OwedHeld /\ KeepsClean

(* The connection stays in the same hand.                                  *)
LEMMA StaysOwned ==
  ASSUME TypeOK, Places, Owners, NEW r \in Requests, Moved(r), ConnStays(req[r], req'[r])
  PROVE  idle' \in [Endpoints -> Seq(Idle)] /\ owed' \in SUBSET Conns /\ Owners'
  <1> DEFINE p == req[r]
  <1>1. \A s \in Requests : req'[s].conn = req[s].conn
    BY DEF Moved, ConnStays
  <1>2. idle' = idle /\ owed' \subseteq owed \cup ({p.conn} \ {None})
    BY DEF ConnStays
  <1>3. idle' \in [Endpoints -> Seq(Idle)] /\ owed' \in SUBSET Conns
    BY <1>2 DEF TypeOK, Request
  <1>4. Alone' /\ Apart' /\ Spread'
    BY <1>1, <1>2 DEF Owners, Alone, Apart, Spread
  <1>5. OwedHeld'
    BY <1>1, <1>2 DEF Owners, OwedHeld
  <1>6. KeepsClean'
    <2> SUFFICES ASSUME NEW s \in Requests, req'[s].keep PROVE req'[s].conn \notin owed'
      BY DEF KeepsClean
    <2>1. CASE s = r
      BY <1>1, <2>1 DEF ConnStays, Owners, KeepsClean
    <2>2. CASE s # r
      <3>1. req[s].keep /\ req[s].conn \notin owed /\ req[s].conn # None
        BY <2>2 DEF Moved, Owners, KeepsClean, Places, Placed, Exchanging
      <3>2. req[s].conn # p.conn
        BY <2>2, <3>1 DEF Owners, Alone
      <3> QED
        BY <1>1, <1>2, <3>1, <3>2
    <2> QED
      BY <2>1, <2>2
  <1> QED
    BY <1>3, <1>4, <1>5, <1>6 DEF Owners

(* The connections of the others stay when request r changes its own.      *)
LEMMA OthersOwn ==
  ASSUME TypeOK, Owners, NEW r \in Requests, Moved(r), owed' \subseteq owed,
         req[r].conn \notin owed', ~req'[r].keep
  PROVE  owed' \in SUBSET Conns /\ OwedHeld' /\ KeepsClean'
  <1>1. owed' \in SUBSET Conns
    BY DEF TypeOK
  <1>2. OwedHeld'
    <2> SUFFICES ASSUME NEW c \in owed' PROVE \E s \in Requests : req'[s].conn = c
      BY DEF OwedHeld
    <2>1. PICK s \in Requests : req[s].conn = c
      BY DEF Owners, OwedHeld
    <2>2. s # r
      BY <2>1
    <2> QED
      BY <2>1, <2>2 DEF Moved
  <1>3. KeepsClean'
    <2> SUFFICES ASSUME NEW s \in Requests, req'[s].keep PROVE req'[s].conn \notin owed'
      BY DEF KeepsClean
    <2> QED
      BY DEF Moved, Owners, KeepsClean
  <1> QED
    BY <1>1, <1>2, <1>3

(* A new connection comes into a hand.                                     *)
LEMMA NewOwned ==
  ASSUME TypeOK, Places, Owners, NEW r \in Requests, Moved(r), ConnNew(req[r], req'[r])
  PROVE  idle' \in [Endpoints -> Seq(Idle)] /\ owed' \in SUBSET Conns /\ Owners'
  <1>1. /\ idle' = idle /\ owed' \subseteq owed /\ req[r].conn \notin owed' /\ ~req'[r].keep
        /\ Unused # {} /\ req'[r].conn = NewConn
    BY DEF ConnNew
  <1>2. owed' \in SUBSET Conns /\ OwedHeld' /\ KeepsClean'
    BY <1>1, OthersOwn
  <1>3. NewConn \in Conns /\ NewConn \notin Held /\ NewConn \notin Pooled /\ NewConn # None
    BY <1>1, NewConnUnused, GroupAssumption
  <1>4. \A s \in Requests : req[s].conn # NewConn
    BY <1>3 DEF Held
  <1>5. \A e \in Endpoints : \A n \in DOMAIN idle[e] : idle[e][n].conn # NewConn
    BY <1>3 DEF Pooled
  <1>6. Alone'
    BY <1>1, <1>4 DEF Owners, Alone, Moved
  <1>7. Apart'
    BY <1>1, <1>5 DEF Owners, Apart, Moved
  <1>8. Spread'
    BY <1>1 DEF Owners, Spread
  <1>9. idle' \in [Endpoints -> Seq(Idle)]
    BY <1>1 DEF TypeOK
  <1> QED
    BY <1>2, <1>6, <1>7, <1>8, <1>9 DEF Owners

(* A request that has no connection any more.                              *)
LEMMA ClosedOwned ==
  ASSUME TypeOK, Places, Owners, NEW r \in Requests, Moved(r), ConnClosed(req[r], req'[r])
  PROVE  idle' \in [Endpoints -> Seq(Idle)] /\ owed' \in SUBSET Conns /\ Owners'
  <1>1. /\ idle' = idle /\ owed' \subseteq owed /\ req[r].conn \notin owed' /\ ~req'[r].keep
        /\ req'[r].conn = None
    BY DEF ConnClosed
  <1>2. owed' \in SUBSET Conns /\ OwedHeld' /\ KeepsClean'
    BY <1>1, OthersOwn
  <1>3. \A e \in Endpoints : \A n \in DOMAIN idle[e] : idle[e][n].conn # None
    <2>1. \A e \in Endpoints : idle[e] \in Seq(Idle)
      BY DEF TypeOK
    <2> QED
      BY <2>1, EntryConn, GroupAssumption
  <1>4. Alone'
    BY <1>1 DEF Owners, Alone, Moved
  <1>5. Apart'
    BY <1>1, <1>3 DEF Owners, Apart, Moved
  <1>6. Spread'
    BY <1>1 DEF Owners, Spread
  <1>7. idle' \in [Endpoints -> Seq(Idle)]
    BY <1>1 DEF TypeOK
  <1> QED
    BY <1>2, <1>4, <1>5, <1>6, <1>7 DEF Owners

(* What acquire leaves in the pool are the entries behind the one it took. *)
LEMMA DroppedSeq ==
  ASSUME NEW s \in Seq(Idle), NEW n \in DOMAIN s
  PROVE  LET d == SubSeq(s, n + 1, Len(s))
         IN  /\ d \in Seq(Idle)
             /\ \A m \in DOMAIN d : m \in Nat /\ m > 0 /\ n + m \in DOMAIN s /\ d[m] = s[n + m]
  <1>1. n \in 1 .. Len(s) /\ Len(s) \in Nat
    OBVIOUS
  <1> QED
    BY <1>1

(* A connection comes out of a pool into a hand.                           *)
LEMMA PooledOwned ==
  ASSUME TypeOK, Places, Owners, NEW r \in Requests, Moved(r), ConnPooled(req[r], req'[r])
  PROVE  idle' \in [Endpoints -> Seq(Idle)] /\ owed' \in SUBSET Conns /\ Owners'
  <1> DEFINE f == req[r].ep
             q == req'[r]
  <1>1. f \in Endpoints /\ owed' = owed /\ ~q.keep /\ req[r].conn = None
    BY DEF ConnPooled
  <1>2. PICK n \in DOMAIN idle[f] : idle' = [idle EXCEPT ![f] = Dropped(f, n)]
                                    /\ q.conn = idle[f][n].conn
    BY DEF ConnPooled
  <1>3. idle \in [Endpoints -> Seq(Idle)] /\ idle[f] \in Seq(Idle) /\ n \in Nat
    BY <1>1, <1>2 DEF TypeOK
  <1>4. /\ Dropped(f, n) \in Seq(Idle)
        /\ \A m \in DOMAIN Dropped(f, n) : /\ m \in Nat /\ m > 0 /\ n + m \in DOMAIN idle[f]
                                           /\ Dropped(f, n)[m] = idle[f][n + m]
    BY <1>2, <1>3, DroppedSeq DEF Dropped
  <1>5. idle'[f] = Dropped(f, n) /\ \A e \in Endpoints : e # f => idle'[e] = idle[e]
    BY <1>1, <1>2, <1>3
  <1>6. idle' \in [Endpoints -> Seq(Idle)]
    BY <1>1, <1>2, <1>3, <1>4
  <1>7. req[r].conn \notin owed'
    BY <1>1, GroupAssumption DEF TypeOK
  <1>8. owed' \in SUBSET Conns /\ OwedHeld' /\ KeepsClean'
    BY <1>1, <1>7, OthersOwn
  <1>9. ASSUME NEW e \in Endpoints, NEW m \in DOMAIN idle'[e]
        PROVE  \E k \in DOMAIN idle[e] : /\ idle'[e][m] = idle[e][k]
                                         /\ IF e = f THEN k = n + m ELSE k = m
    BY <1>4, <1>5
  <1>10. Alone'
    BY <1>1, <1>2 DEF Owners, Alone, Apart, Moved
  <1>11. Apart'
    <2> SUFFICES ASSUME NEW s \in Requests, NEW e \in Endpoints, NEW m \in DOMAIN idle'[e]
                 PROVE  req'[s].conn # idle'[e][m].conn
      BY DEF Apart
    <2>1. PICK k \in DOMAIN idle[e] : /\ idle'[e][m] = idle[e][k]
                                      /\ IF e = f THEN k = n + m ELSE k = m
      BY <1>9
    <2>2. CASE s # r
      BY <2>1, <2>2 DEF Moved, Owners, Apart
    <2>3. CASE s = r
      <3>1. ~(e = f /\ k = n)
        BY <1>3, <1>4, <1>5, <2>1
      <3>2. idle[f][n].conn # idle[e][k].conn
        BY <1>1, <1>2, <2>1, <3>1 DEF Owners, Spread
      <3> QED
        BY <1>2, <2>1, <2>3, <3>2
    <2> QED
      BY <2>2, <2>3
  <1>12. Spread'
    <2> SUFFICES ASSUME NEW d \in Endpoints, NEW e \in Endpoints, NEW m \in DOMAIN idle'[d],
                        NEW l \in DOMAIN idle'[e], idle'[d][m].conn = idle'[e][l].conn
                 PROVE  d = e /\ m = l
      BY DEF Spread
    <2>1. PICK k \in DOMAIN idle[d] : /\ idle'[d][m] = idle[d][k]
                                      /\ IF d = f THEN k = n + m ELSE k = m
      BY <1>9
    <2>2. PICK j \in DOMAIN idle[e] : /\ idle'[e][l] = idle[e][j]
                                      /\ IF e = f THEN j = n + l ELSE j = l
      BY <1>9
    <2>3. d = e /\ k = j
      BY <2>1, <2>2 DEF Owners, Spread
    <2>4. d = f => m \in Nat /\ l \in Nat
      BY <1>4, <1>5, <2>3
    <2> QED
      BY <1>3, <2>1, <2>2, <2>3, <2>4
  <1> QED
    BY <1>6, <1>8, <1>10, <1>11, <1>12 DEF Owners

(* A pool is emptied.                                                      *)
LEMMA EmptiedOwned ==
  ASSUME TypeOK, Places, Owners, NEW r \in Requests, Moved(r), PoolEmptied(req[r], req'[r])
  PROVE  idle' \in [Endpoints -> Seq(Idle)] /\ owed' \in SUBSET Conns /\ Owners'
  <1> DEFINE f == req[r].ep
  <1>1. /\ f \in Endpoints /\ owed' = owed /\ ~req'[r].keep /\ req[r].conn = None
        /\ req'[r].conn = None /\ idle' = [idle EXCEPT ![f] = <<>>]
    BY DEF PoolEmptied
  <1>2. idle \in [Endpoints -> Seq(Idle)] /\ <<>> \in Seq(Idle)
    BY DEF TypeOK
  <1>3. /\ idle' \in [Endpoints -> Seq(Idle)] /\ idle'[f] = <<>>
        /\ \A e \in Endpoints : e # f => idle'[e] = idle[e]
    BY <1>1, <1>2
  <1>4. req[r].conn \notin owed'
    BY <1>1, GroupAssumption DEF TypeOK
  <1>5. owed' \in SUBSET Conns /\ OwedHeld' /\ KeepsClean'
    BY <1>1, <1>4, OthersOwn
  <1>6. ASSUME NEW e \in Endpoints, NEW m \in DOMAIN idle'[e]
        PROVE  e # f /\ idle'[e] = idle[e]
    BY <1>3
  <1>7. \A s \in Requests : req'[s].conn = req[s].conn
    BY <1>1 DEF Moved
  <1>8. Alone' /\ Apart' /\ Spread'
    BY <1>6, <1>7 DEF Owners, Alone, Apart, Spread
  <1> QED
    BY <1>3, <1>5, <1>8 DEF Owners

(* What release leaves in the pool are the entries before and the new one. *)
LEMMA AppendSeq ==
  ASSUME NEW s \in Seq(Idle), NEW x \in Idle, NEW m \in DOMAIN Append(s, x)
  PROVE  \/ m \in DOMAIN s /\ Append(s, x)[m] = s[m]
         \/ m = Len(s) + 1 /\ Append(s, x)[m] = x
  OBVIOUS

(* A connection that is kept has been read to the end, and goes back.      *)
LEMMA BackOwned ==
  ASSUME TypeOK, Places, Owners, NEW r \in Requests, Moved(r), ConnBack(req[r], req'[r])
  PROVE  idle' \in [Endpoints -> Seq(Idle)] /\ owed' \in SUBSET Conns /\ Owners'
  <1> DEFINE f == req[r].ep
             c == req[r].conn
             x == [conn |-> c, since |-> now]
  <1>1. /\ f \in Endpoints /\ owed' = owed /\ ~req'[r].keep /\ c # None /\ req[r].keep
        /\ req'[r].conn = None /\ idle' = [idle EXCEPT ![f] = Append(idle[f], x)]
    BY DEF ConnBack
  <1>2. idle \in [Endpoints -> Seq(Idle)] /\ x \in Idle
    BY <1>1 DEF TypeOK, Request, Idle
  <1>a. idle[f] \in Seq(Idle)
    BY <1>1, <1>2
  <1> HIDE DEF x
  <1>3. Append(idle[f], x) \in Seq(Idle)
    BY <1>2, <1>a
  <1>4. /\ idle' \in [Endpoints -> Seq(Idle)] /\ idle'[f] = Append(idle[f], x)
        /\ \A e \in Endpoints : e # f => idle'[e] = idle[e]
    BY <1>1, <1>2, <1>3
  <1>5. c \notin owed'
    BY <1>1 DEF Owners, KeepsClean
  <1>6. owed' \in SUBSET Conns /\ OwedHeld' /\ KeepsClean'
    BY <1>1, <1>5, OthersOwn
  <1>7. ASSUME NEW e \in Endpoints, NEW m \in DOMAIN idle'[e]
        PROVE  \/ m \in DOMAIN idle[e] /\ idle'[e][m] = idle[e][m]
               \/ e = f /\ m = Len(idle[f]) + 1 /\ idle'[e][m] = x
    <2>1. CASE e = f
      BY <1>2, <1>4, <1>a, <2>1, AppendSeq
    <2>2. CASE e # f
      BY <1>4, <2>2
    <2> QED
      BY <2>1, <2>2
  <1>8. x.conn = c
    BY DEF x
  <1>9. \A e \in Endpoints : \A n \in DOMAIN idle[e] : idle[e][n].conn # None
    <2>1. \A e \in Endpoints : idle[e] \in Seq(Idle)
      BY <1>2
    <2> QED
      BY <2>1, EntryConn, GroupAssumption
  <1>10. Alone'
    BY <1>1 DEF Owners, Alone, Moved
  <1>11. Apart'
    <2> SUFFICES ASSUME NEW s \in Requests, NEW e \in Endpoints, NEW m \in DOMAIN idle'[e]
                 PROVE  req'[s].conn # idle'[e][m].conn
      BY DEF Apart
    <2>1. CASE s # r
      <3>1. req'[s].conn = req[s].conn /\ req[s].conn # c
        BY <1>1, <2>1 DEF Moved, Owners, Alone
      <3> QED
        BY <1>7, <1>8, <3>1 DEF Owners, Apart
    <2>2. CASE s = r
      BY <1>1, <1>7, <1>8, <1>9, <2>2
    <2> QED
      BY <2>1, <2>2
  <1>12. Spread'
    <2> SUFFICES ASSUME NEW d \in Endpoints, NEW e \in Endpoints, NEW m \in DOMAIN idle'[d],
                        NEW l \in DOMAIN idle'[e], idle'[d][m].conn = idle'[e][l].conn
                 PROVE  d = e /\ m = l
      BY DEF Spread
    <2>1. \A g \in Endpoints : \A n \in DOMAIN idle[g] : idle[g][n].conn # c
      BY DEF Owners, Apart
    <2> QED
      BY <1>7, <1>8, <2>1 DEF Owners, Spread
  <1> QED
    BY <1>4, <1>6, <1>10, <1>11, <1>12 DEF Owners

(* Every step of a request leaves each connection with one owner.          *)
LEMMA OwnersStay ==
  ASSUME TypeOK, Places, Owners, NEW r \in Requests, Moved(r), PoolStep(req[r], req'[r])
  PROVE  idle' \in [Endpoints -> Seq(Idle)] /\ owed' \in SUBSET Conns /\ Owners'
  BY StaysOwned, NewOwned, PooledOwned, EmptiedOwned, BackOwned, ClosedOwned DEF PoolStep


-----------------------------------------------------------------------------
(* The checks.                                                             *)
ChecksPlaced == \A k \in Checks : check[k].pc # "idle" => check[k].ep \in Endpoints

HealthType ==
    /\ flips \in Nat /\ alive \in [Endpoints -> BOOLEAN] /\ healthy \in [Endpoints -> BOOLEAN]
    /\ succ \in [Endpoints -> Nat] /\ fails \in [Endpoints -> Nat] /\ check \in [Checks -> Round]

(* A round of checks goes on.                                              *)
LEMMA RoundSet ==
  ASSUME HealthType, ChecksPlaced, NEW k \in Checks, NEW v \in Round,
         v.pc # "idle" => v.ep \in Endpoints, check' = [check EXCEPT ![k] = v]
  PROVE  check' \in [Checks -> Round] /\ ChecksPlaced'
  BY DEF HealthType, ChecksPlaced

(* A step of a check keeps the types of the checks' state.                 *)
LEMMA CheckKeepsType ==
  ASSUME HealthType, ChecksPlaced, NEW k \in Checks, CheckStep(k)
  PROVE  HealthType' /\ ChecksPlaced'
  <1> DEFINE c == check[k]
             e == c.ep
  <1>1. c \in Round /\ c.n \in Nat /\ (c.pc # "idle" => e \in Endpoints) /\ N \in Nat
    BY GroupAssumption DEF HealthType, ChecksPlaced, Round
  <1>2. CASE BeginRound(k)
    <2>1. [pc |-> "probe", ep |-> 1, n |-> 0] \in Round /\ 1 \in Endpoints
      BY <1>1, <1>2 DEF BeginRound, Round, Endpoints
    <2> QED
      BY <1>2, <2>1, RoundSet DEF BeginRound, HealthType
  <1>3. CASE CheckUp(k)
    <2> DEFINE n == Min({succ[e] + 1, HealthyNeed})
               v == [c EXCEPT !.pc = "passed", !.n = n]
    <2>1. e \in Endpoints /\ succ[e] + 1 \in Nat /\ HealthyNeed \in Nat
      BY <1>1, <1>3, GroupAssumption DEF CheckUp, AtCheck, HealthType
    <2>2. n \in Nat
      BY <2>1, MinOfTwo
    <2>3. succ' = [succ EXCEPT ![e] = n] /\ UNCHANGED <<alive, healthy, fails, flips>>
      BY <1>3 DEF CheckUp
    <2>4. check' = [check EXCEPT ![k] = v]
      BY <1>1, <1>3 DEF CheckUp, HealthType, Round
    <2> HIDE DEF c, n
    <2>5. v \in Round /\ v.ep = e
      BY <1>1, <2>2 DEF Round
    <2> HIDE DEF v, e
    <2>6. check' \in [Checks -> Round] /\ ChecksPlaced'
      BY <2>1, <2>4, <2>5, RoundSet
    <2> QED
      BY <2>1, <2>2, <2>3, <2>6 DEF HealthType
  <1>4. CASE CheckDown(k)
    <2> DEFINE n == Min({fails[e] + 1, UnhealthyNeed})
               v == [c EXCEPT !.pc = "failed", !.n = n]
    <2>1. e \in Endpoints /\ fails[e] + 1 \in Nat /\ UnhealthyNeed \in Nat
      BY <1>1, <1>4, GroupAssumption DEF CheckDown, AtCheck, HealthType
    <2>2. n \in Nat
      BY <2>1, MinOfTwo
    <2>3. fails' = [fails EXCEPT ![e] = n] /\ UNCHANGED <<alive, healthy, succ, flips>>
      BY <1>4 DEF CheckDown
    <2>4. check' = [check EXCEPT ![k] = v]
      BY <1>1, <1>4 DEF CheckDown, HealthType, Round
    <2> HIDE DEF c, n
    <2>5. v \in Round /\ v.ep = e
      BY <1>1, <2>2 DEF Round
    <2> HIDE DEF v, e
    <2>6. check' \in [Checks -> Round] /\ ChecksPlaced'
      BY <2>1, <2>4, <2>5, RoundSet
    <2> QED
      BY <2>1, <2>2, <2>3, <2>6 DEF HealthType
  <1>5. CASE ResetFails(k) \/ ResetSucc(k)
    <2> DEFINE x == IF ResetFails(k) THEN "judgeUp" ELSE "judgeDown"
               v == [c EXCEPT !.pc = x]
    <2>1. e \in Endpoints
      BY <1>1, <1>5 DEF ResetFails, ResetSucc, AtCheck
    <2>2. check' = [check EXCEPT ![k] = v]
      BY <1>1, <1>5 DEF ResetFails, ResetSucc, HealthType, Round
    <2>3. x \in {"judgeUp", "judgeDown"}
      OBVIOUS
    <2> HIDE DEF c, x
    <2>4. v \in Round /\ v.ep = e
      BY <1>1, <2>3 DEF Round
    <2> HIDE DEF v, e
    <2>5. check' \in [Checks -> Round] /\ ChecksPlaced'
      BY <2>1, <2>2, <2>4, RoundSet
    <2>6. /\ UNCHANGED <<alive, healthy, flips>>
          /\ succ' \in [Endpoints -> Nat] /\ fails' \in [Endpoints -> Nat]
      BY <1>5, <2>1 DEF ResetFails, ResetSucc, HealthType, e, c
    <2> QED
      BY <2>5, <2>6 DEF HealthType
  <1>6. CASE Judge(k)
    <2> DEFINE v == IF e = N THEN [pc |-> "idle", ep |-> 0, n |-> 0]
                             ELSE [pc |-> "probe", ep |-> e + 1, n |-> 0]
    <2>1. e \in Endpoints
      BY <1>1, <1>6 DEF Judge, AtCheck
    <2>2. v \in Round /\ (v.pc # "idle" => v.ep \in Endpoints)
      BY <1>1, <2>1 DEF Round, Endpoints
    <2>3. check' = [check EXCEPT ![k] = v] /\ UNCHANGED <<alive, succ, fails, flips>>
      BY <1>6 DEF Judge
    <2>4. check' \in [Checks -> Round] /\ ChecksPlaced'
      <3> HIDE DEF v
      <3> QED
        BY <2>2, <2>3, RoundSet
    <2>5. healthy' \in [Endpoints -> BOOLEAN]
      <3>1. \E b \in BOOLEAN : healthy' = [healthy EXCEPT ![e] = b]
        BY <1>6, <2>1 DEF Judge, HealthType, AtCheck
      <3> QED
        BY <2>1, <3>1 DEF HealthType
    <2> QED
      BY <2>3, <2>4, <2>5 DEF HealthType
  <1> QED
    BY <1>2, <1>3, <1>4, <1>5, <1>6 DEF CheckStep

(* So does a change of an endpoint's real condition.                       *)
LEMMA FlipKeepsType ==
  ASSUME HealthType, ChecksPlaced, Flip
  PROVE  HealthType' /\ ChecksPlaced'
  <1>1. flips' \in Nat /\ UNCHANGED <<healthy, succ, fails, check>>
    BY DEF Flip, HealthType
  <1>2. alive' \in [Endpoints -> BOOLEAN]
    BY DEF Flip, HealthType
  <1> QED
    BY <1>1, <1>2 DEF HealthType, ChecksPlaced

-----------------------------------------------------------------------------
(* The inductive invariant.                                                *)
GroupInv ==
    /\ TypeOK /\ Places /\ Turns /\ Pauses /\ SentFresh /\ ProbesCounted /\ HoldsExact
    /\ Owners /\ ClosedIsReset /\ ChecksPlaced

(* The invariant holds initially.                                          *)
LEMMA GroupStarts == Init => GroupInv
  <1> SUFFICES ASSUME Init PROVE GroupInv
    OBVIOUS
  <1>1. TypeOK
    <2>1. /\ now \in Nat /\ calls \in Nat /\ flips \in Nat
          /\ active \in [Endpoints -> Nat] /\ owed \in SUBSET Conns
          /\ alive \in [Endpoints -> BOOLEAN] /\ healthy \in [Endpoints -> BOOLEAN]
          /\ succ \in [Endpoints -> Nat] /\ fails \in [Endpoints -> Nat]
      BY DEF Init
    <2>2. cb \in [Endpoints -> Breaker]
      BY NewBreakerType DEF Init
    <2>3. req \in [Requests -> Request]
      BY RestingType DEF Init
    <2>4. idle \in [Endpoints -> Seq(Idle)]
      BY DEF Init
    <2>5. log \in [Endpoints -> [1 .. MaxNow -> Count]]
      <3>1. [t \in 1 .. MaxNow |-> Zero] \in [1 .. MaxNow -> Count]
        BY DEF Zero, Count
      <3> QED
        BY <3>1 DEF Init
    <2>6. check \in [Checks -> Round]
      BY GroupAssumption DEF Init, Round
    <2> QED
      BY <2>1, <2>2, <2>3, <2>4, <2>5, <2>6 DEF TypeOK
  <1>2. \A r \in Requests : req[r] = Resting
    BY DEF Init
  <1>3. /\ Resting \in Request /\ Cleared(Resting) /\ Resting.pc = "idle" /\ Resting.ep = 0
        /\ Placed(Resting)
    <2>1. Resting.ep = 0
      BY DEF Resting
    <2> QED
      BY <2>1, RestingType, ClearedPlaced DEF Looking
  <1> HIDE DEF Resting
  <1>4. \A e \in Endpoints : cb[e] = NewBreaker
    BY DEF Init
  <1>5. /\ NewBreaker.turn = 1 /\ NewBreaker.state = "CLOSED" /\ NewBreaker.openMs = OpenMs
        /\ NewBreaker.pending = 0 /\ NewBreaker.ok = 0 /\ NewBreaker.consec = 0
    BY DEF NewBreaker
  <1>6. Places /\ Turns /\ SentFresh
    BY <1>2, <1>3, <1>4, <1>5 DEF Places, Turns, SentFresh, Cleared
  <1>7. Pauses /\ ClosedIsReset /\ ProbesCounted
    BY <1>4, <1>5, BreakerAssumption DEF Pauses, ClosedIsReset, ProbesCounted
  <1>8. HoldsExact
    <2>1. ASSUME NEW e \in Endpoints PROVE Holders(e) = {} /\ active[e] = 0
      BY <1>2, <1>3 DEF Holders, Holding, Looking, Init
    <2>2. Cardinality({}) = 0
      BY FS_EmptySet
    <2> QED
      BY <2>1, <2>2 DEF HoldsExact
  <1>9. Owners
    <2>1. \A e \in Endpoints : idle[e] = <<>>
      BY DEF Init
    <2>2. owed = {}
      BY DEF Init
    <2> QED
      BY <1>2, <1>3, <2>1, <2>2
         DEF Owners, Alone, Apart, Spread, OwedHeld, KeepsClean, Cleared
  <1>10. ChecksPlaced
    BY DEF Init, ChecksPlaced
  <1> QED
    BY <1>1, <1>6, <1>7, <1>8, <1>9, <1>10 DEF GroupInv

(* A step of a request keeps the invariant.                                *)
LEMMA RequestKeeps ==
  ASSUME GroupInv, NEW r \in Requests, Start(r) \/ RequestStep(r), UNCHANGED <<now, healthVars>>
  PROVE  GroupInv' /\ Moved(r) /\ Does(req[r], req'[r]) /\ \A e \in Endpoints : Turning(e, r)
  <1>1. /\ TypeOK /\ Places /\ Turns /\ Pauses /\ SentFresh /\ ProbesCounted /\ HoldsExact
        /\ Owners /\ ClosedIsReset /\ ChecksPlaced
    BY DEF GroupInv
  <1>2. Moved(r) /\ Does(req[r], req'[r]) /\ calls' \in Nat
    BY <1>1, StepDoes DEF Turns
  <1>3. /\ Placed(req'[r]) /\ HoldStep(req[r], req'[r]) /\ BreakerStep(req[r], req'[r])
        /\ FreshStep(req[r], req'[r]) /\ PoolStep(req[r], req'[r])
    BY <1>2 DEF Does
  <1>4. cb' \in [Endpoints -> Breaker] /\ \A e \in Endpoints : Turning(e, r)
    BY <1>1, <1>2, <1>3, BreakerTurns
  <1>5. log' \in [Endpoints -> [1 .. MaxNow -> Count]]
    BY <1>1, <1>3, LogType
  <1>6. active' \in [Endpoints -> Nat] /\ HoldsExact'
    BY <1>1, <1>2, <1>3, HoldsStay
  <1>7. idle' \in [Endpoints -> Seq(Idle)] /\ owed' \in SUBSET Conns /\ Owners'
    BY <1>1, <1>2, <1>3, OwnersStay
  <1>8. Places'
    BY <1>1, <1>2, <1>3 DEF Places, Moved
  <1>9. TypeOK'
    BY <1>1, <1>2, <1>4, <1>5, <1>6, <1>7 DEF TypeOK, Moved, healthVars
  <1>10. Turns'
    BY <1>1, <1>2, <1>3, <1>4, <1>8, TurnsStay
  <1>11. Pauses'
    BY <1>1, <1>4, PausesStay
  <1>12. ProbesCounted'
    BY <1>1, <1>4, ProbesStay
  <1>13. ClosedIsReset'
    BY <1>1, <1>4, ResetStays
  <1>14. SentFresh'
    BY <1>1, <1>2, <1>3, <1>4, <1>8, <1>10, FreshStays
  <1>15. ChecksPlaced'
    BY <1>1 DEF ChecksPlaced, healthVars
  <1> QED
    BY <1>2, <1>4, <1>6, <1>7, <1>8, <1>9, <1>10, <1>11, <1>12, <1>13, <1>14, <1>15 DEF GroupInv

(* Steps that leave requests, breakers and pools alone.                    *)
LEMMA ApartKeeps ==
  ASSUME GroupInv, UNCHANGED <<cb, active, idle, req, owed>>
  PROVE  /\ (Places /\ Turns /\ Pauses /\ SentFresh)'
         /\ (ProbesCounted /\ HoldsExact /\ Owners /\ ClosedIsReset)'
         /\ \A e : Out(e)' = Out(e)
  <1>1. \A e : Out(e)' = Out(e) /\ Holders(e)' = Holders(e)
    BY DEF Out, Holders
  <1>2. (Places /\ Turns /\ Pauses /\ SentFresh)'
    BY DEF GroupInv, Places, Turns, Pauses, SentFresh
  <1>3. ProbesCounted' /\ HoldsExact'
    BY <1>1 DEF GroupInv, ProbesCounted, HoldsExact
  <1>4. Owners' /\ ClosedIsReset'
    BY DEF GroupInv, Owners, Alone, Apart, Spread, OwedHeld, KeepsClean, ClosedIsReset
  <1> QED
    BY <1>1, <1>2, <1>3, <1>4

(* A step of a check keeps the invariant.                                  *)
LEMMA HealthKeeps ==
  ASSUME GroupInv, Flip \/ \E k \in Checks : CheckStep(k), UNCHANGED <<now, upVars>>
  PROVE  GroupInv'
  <1>1. HealthType /\ ChecksPlaced
    BY DEF GroupInv, TypeOK, HealthType
  <1>2. HealthType' /\ ChecksPlaced'
    BY <1>1, FlipKeepsType, CheckKeepsType
  <1>3. UNCHANGED <<now, cb, active, idle, req, owed, log, calls>>
    BY DEF upVars
  <1>4. TypeOK'
    BY <1>2, <1>3 DEF GroupInv, TypeOK, HealthType
  <1> QED
    BY <1>2, <1>3, <1>4, ApartKeeps DEF GroupInv

(* A tick of the clock keeps the invariant.                                *)
LEMMA TickKeeps ==
  ASSUME GroupInv, Tick
  PROVE  GroupInv'
  <1>1. /\ UNCHANGED <<cb, active, idle, req, owed, calls>>
        /\ UNCHANGED <<alive, healthy, succ, fails, check, flips>>
    BY DEF Tick, healthVars
  <1>2. now' \in Nat
    BY DEF Tick, GroupInv, TypeOK
  <1>3. log' \in [Endpoints -> [1 .. MaxNow -> Count]]
    <2> DEFINE F(e) == [t \in 1 .. MaxNow |-> IF t + Keep > now' THEN log[e][t] ELSE Zero]
    <2>1. log' = [e \in Endpoints |-> F(e)]
      BY DEF Tick
    <2>2. ASSUME NEW e \in Endpoints PROVE F(e) \in [1 .. MaxNow -> Count]
      <3>1. log[e] \in [1 .. MaxNow -> Count] /\ Zero \in Count
        BY DEF GroupInv, TypeOK, Zero, Count
      <3> QED
        BY <3>1
    <2> HIDE DEF F
    <2> QED
      BY <2>1, <2>2
  <1>4. TypeOK'
    BY <1>1, <1>2, <1>3 DEF GroupInv, TypeOK
  <1>5. ChecksPlaced'
    BY <1>1 DEF GroupInv, ChecksPlaced
  <1> QED
    BY <1>1, <1>4, <1>5, ApartKeeps DEF GroupInv

(* So does a step that changes nothing.                                    *)
LEMMA StutterKeeps == GroupInv /\ UNCHANGED vars => GroupInv'
  <1> SUFFICES ASSUME GroupInv, UNCHANGED vars PROVE GroupInv'
    OBVIOUS
  <1>1. UNCHANGED <<now, calls, cb, active, idle, req, owed, log>>
    BY DEF vars, upVars
  <1>2. UNCHANGED <<alive, healthy, succ, fails, check, flips>>
    BY DEF vars, healthVars
  <1>3. TypeOK' /\ ChecksPlaced'
    BY <1>1, <1>2 DEF GroupInv, TypeOK, ChecksPlaced
  <1> QED
    BY <1>1, <1>3, ApartKeeps DEF GroupInv

(* The invariant holds in every state.                                     *)
LEMMA GroupInductive == Spec => []GroupInv
  <1>1. GroupInv /\ [Next]_vars => GroupInv'
    <2> SUFFICES ASSUME GroupInv, [Next]_vars PROVE GroupInv'
      OBVIOUS
    <2>1. CASE Next
      BY <2>1, RequestKeeps, HealthKeeps, TickKeeps DEF Next
    <2>2. CASE UNCHANGED vars
      BY <2>2, StutterKeeps
    <2> QED
      BY <2>1, <2>2
  <1> QED
    BY GroupStarts, <1>1, PTL DEF Spec

(* Both counts that admission depends on are exact.                        *)
THEOREM CountsAreExact == Spec => []CountsExact
  <1>1. GroupInv => CountsExact
    BY HoldersCount DEF GroupInv, CountsExact
  <1> QED
    BY GroupInductive, <1>1, PTL

(* A probe whose result will count never runs on a pooled connection,      *)
(* although UpstreamGroup::tryAcquire asks the breaker twice, in two       *)
(* critical sections.                                                      *)
THEOREM ProbesAreFresh == Spec => []ProbeIsFresh
  <1>1. GroupInv => ProbeIsFresh
    BY DEF GroupInv, ProbeIsFresh, SentFresh, Out
  <1> QED
    BY GroupInductive, <1>1, PTL

(* A connection has one owner at a time, a request or a place in one pool, *)
(* and none goes back to a pool with an answer left to read                *)
(* (ConnectionPool, Upstream::forward).                                    *)
THEOREM PoolIsSound == Spec => []PoolSound
  <1>1. ASSUME GroupInv PROVE PoolSound
    <2>1. TypeOK /\ Alone /\ Apart /\ Spread /\ OwedHeld
      BY <1>1 DEF GroupInv, Owners
    <2>2. Held \cap Pooled = {}
      BY <2>1 DEF Apart, Held, Pooled
    <2>3. owed \cap Pooled = {}
      <3>1. owed \subseteq Held
        BY <2>1, GroupAssumption DEF OwedHeld, Held, TypeOK
      <3> QED
        BY <2>2, <3>1
    <2> QED
      BY <2>1, <2>2, <2>3 DEF PoolSound, ConnExclusive, IdleIsClean, Alone, Spread
  <1> QED
    BY GroupInductive, <1>1, PTL

-----------------------------------------------------------------------------
(* The window of a breaker.                                                *)

(* Two ticks less than a round of the ring apart have different buckets.   *)
LEMMA TicksApart ==
  ASSUME NEW s \in Nat, NEW t \in Nat, s < t, t - s < Buckets
  PROVE  s % Buckets # t % Buckets
  <1>0. Buckets \in Nat /\ Buckets > 0
    BY BreakerAssumption
  <1> DEFINE p == s \div Buckets
             q == t \div Buckets
  <1>1. p \in Int /\ q \in Int /\ s = Buckets * p + (s % Buckets) /\ t = Buckets * q + (t % Buckets)
    BY <1>0
  <1>2. SUFFICES ASSUME s % Buckets = t % Buckets PROVE FALSE
    OBVIOUS
  <1> HIDE DEF p, q
  <1>3. t - s = Buckets * q - Buckets * p
    BY <1>0, <1>1, <1>2
  <1>4. Buckets * q - Buckets * p = Buckets * (q - p)
    BY <1>0, <1>1
  <1>5. CASE q - p >= 1
    <2>1. Buckets * (q - p) >= Buckets
      BY <1>0, <1>1, <1>5
    <2> QED
      BY <1>0, <1>3, <1>4, <2>1
  <1>6. CASE q - p <= 0
    <2>1. Buckets * (q - p) <= 0
      BY <1>0, <1>1, <1>6
    <2> QED
      BY <1>0, <1>3, <1>4, <2>1
  <1> QED
    BY <1>1, <1>5, <1>6

(* isAllowed leaves the window alone.                                      *)
LEMMA IsAllowedWindow ==
  ASSUME NEW b \in Breaker, NEW t \in Nat
  PROVE  isAllowed(b, t).buckets = b.buckets
  BY DEF isAllowed, Woken, toHalfOpen, move, Breaker

(* The window after one more result.                                       *)
Added(bs, ret, t) ==
    LET k == t % Buckets
        old == IF bs[k].tick = t THEN bs[k].cnt ELSE Zero
    IN  [bs EXCEPT ![k] = [tick |-> t, cnt |-> Plus(old, ret)]]

(* recordClosed counts the result, whether or not it trips the breaker.    *)
LEMMA ClosedWindow ==
  ASSUME NEW b \in Breaker, NEW ret \in Ret, NEW t \in Nat
  PROVE  recordClosed(b, ret, t).buckets = Added(b.buckets, ret, t)
  <1> DEFINE a == [b EXCEPT !.consec = IF ret.mark = "FAIL" THEN @ + 1 ELSE 0]
             d == addBucket(a, ret, t)
  <1>1. a \in Breaker /\ a.buckets = b.buckets
    BY DEF Breaker
  <1> HIDE DEF a
  <1>2. t % Buckets \in 0 .. Buckets - 1
    BY BreakerAssumption
  <1>3. d \in Breaker
    BY <1>1, AddBucketFields
  <1>4. d.buckets = Added(b.buckets, ret, t)
    BY <1>1, <1>2 DEF addBucket, Added, Breaker
  <1>5. recordClosed(b, ret, t) = d \/ recordClosed(b, ret, t) = toOpen(d, FALSE, t)
    BY DEF recordClosed, a
  <1> HIDE DEF d
  <1>6. toOpen(d, FALSE, t).buckets = d.buckets
    BY <1>3 DEF toOpen, move, Breaker
  <1> QED
    BY <1>4, <1>5, <1>6

(* A probe's result empties the window when it closes the breaker, and     *)
(* leaves it alone otherwise.                                              *)
LEMMA HalfOpenWindow ==
  ASSUME NEW b \in Breaker, b.state = "HALF_OPEN", NEW ret \in Ret, NEW t \in Nat
  PROVE  LET c == recordHalfOpen(b, ret, t)
         IN  c.buckets = IF c.state = "CLOSED" THEN NoBuckets ELSE b.buckets
  <1> DEFINE d == [b EXCEPT !.pending = IF @ > 0 THEN @ - 1 ELSE 0]
  <1>1. d \in Breaker /\ d.state = b.state /\ d.buckets = b.buckets
    BY DEF Breaker
  <1>2. recordHalfOpen(b, ret, t) =
          CASE ret.mark = "SKIP" -> d
            [] ret.mark = "FAIL" -> toOpen(d, TRUE, t)
            [] ret.mark = "OK"   -> IF d.ok + 1 >= HalfOpenOk THEN toClosed(d)
                                                              ELSE [d EXCEPT !.ok = @ + 1]
    BY DEF recordHalfOpen
  <1> HIDE DEF d
  <1>3. toOpen(d, TRUE, t).buckets = d.buckets /\ toOpen(d, TRUE, t).state = "OPEN"
    BY <1>1 DEF toOpen, move, Breaker
  <1>4. toClosed(d).buckets = NoBuckets /\ toClosed(d).state = "CLOSED"
    BY <1>1 DEF toClosed, move, Breaker
  <1>5. LET g == [d EXCEPT !.ok = @ + 1] IN g.buckets = d.buckets /\ g.state = d.state
    BY <1>1 DEF Breaker
  <1> QED
    BY <1>1, <1>2, <1>3, <1>4, <1>5 DEF Ret, Marks

(* The ring bs against the ghost lg at the time n: a bucket in use has a   *)
(* tick of its own place, not a later one, and counts it as long as the    *)
(* window covers it; a tick of the last round with a result has its        *)
(* bucket; nothing is counted ahead of time.                               *)
RingOf(bs, lg, n) ==
    /\ \A k \in 0 .. Buckets - 1 : bs[k].tick # 0 =>
         /\ bs[k].tick <= n /\ bs[k].tick % Buckets = k
         /\ n - bs[k].tick < Keep => bs[k].cnt = lg[bs[k].tick]
    /\ \A t \in 1 .. n : n - t < Keep /\ n - t < Buckets /\ lg[t] # Zero =>
         bs[t % Buckets].tick = t
    /\ \A t \in 1 .. MaxNow : t > n => lg[t] = Zero
Rings == [0 .. Buckets - 1 -> Bucket]
Logs == [1 .. MaxNow -> Count]

(* An empty ring.                                                          *)
LEMMA EmptyRing ==
  ASSUME NEW n \in 1 .. MaxNow
  PROVE  RingOf(NoBuckets, [t \in 1 .. MaxNow |-> Zero], n)
  <1>1. \A k \in 0 .. Buckets - 1 : NoBuckets[k].tick = 0
    BY DEF NoBuckets
  <1> QED
    BY <1>1, GroupAssumption DEF RingOf

(* One more result at the time n goes to the bucket of n, which no other   *)
(* tick of the last round uses (TicksApart).                               *)
LEMMA AddedRing ==
  ASSUME NEW bs \in Rings, NEW lg \in Logs, NEW n \in 1 .. MaxNow, NEW ret \in Ret,
         RingOf(bs, lg, n)
  PROVE  RingOf(Added(bs, ret, n), [lg EXCEPT ![n] = Plus(lg[n], ret)], n)
  <1> DEFINE j == n % Buckets
             c == IF bs[j].tick = n THEN bs[j].cnt ELSE Zero
             as == Added(bs, ret, n)
             mg == [lg EXCEPT ![n] = Plus(lg[n], ret)]
  <1>0. /\ Buckets \in Nat \ {0} /\ Keep \in Nat \ {0} /\ MaxNow \in Nat /\ n \in Nat
        /\ j \in 0 .. Buckets - 1
    BY BreakerAssumption, GroupAssumption
  <1>1. c = lg[n]
    <2>1. CASE bs[j].tick = n
      BY <1>0, <2>1 DEF RingOf
    <2>2. CASE bs[j].tick # n
      <3>1. lg[n] = Zero
        BY <1>0, <2>2 DEF RingOf
      <3> QED
        BY <2>2, <3>1
    <2> QED
      BY <2>1, <2>2
  <1>2. as[j].tick = n /\ as[j].cnt = Plus(lg[n], ret) /\ j = n % Buckets
    BY <1>0, <1>1 DEF Added, Rings
  <1>3. \A k \in 0 .. Buckets - 1 : k # j => as[k] = bs[k]
    BY <1>0 DEF Added, Rings
  <1>4. mg[n] = Plus(lg[n], ret) /\ \A t \in 1 .. MaxNow : t # n => mg[t] = lg[t]
    BY DEF Logs
  <1>5. \A k \in 0 .. Buckets - 1 : bs[k].tick \in Nat
    BY DEF Rings, Bucket
  <1> HIDE DEF j, c, as, mg
  <1>6. ASSUME NEW k \in 0 .. Buckets - 1, as[k].tick # 0
        PROVE  /\ as[k].tick <= n /\ as[k].tick % Buckets = k
               /\ n - as[k].tick < Keep => as[k].cnt = mg[as[k].tick]
    <2>1. CASE k = j
      <3>1. as[k].tick = n /\ as[k].cnt = Plus(lg[n], ret) /\ n % Buckets = k
        BY ONLY <1>2, <2>1, Zenon
      <3>2. as[k].cnt = mg[n]
        BY ONLY <1>4, <3>1, Zenon
      <3>3. n <= n
        BY <1>0
      <3> QED
        BY ONLY <3>1, <3>2, <3>3, Zenon
    <2>2. CASE k # j
      <3>1. as[k] = bs[k]
        BY <1>3, <2>2
      <3>2. bs[k].tick # 0 /\ bs[k].tick <= n /\ bs[k].tick % Buckets = k
        BY <1>6, <3>1 DEF RingOf
      <3>3. bs[k].tick # n
        BY <2>2, <3>2 DEF j
      <3>4. mg[bs[k].tick] = lg[bs[k].tick]
        BY <1>0, <1>4, <1>5, <3>2, <3>3
      <3>5. n - bs[k].tick < Keep => bs[k].cnt = lg[bs[k].tick]
        BY <3>2 DEF RingOf
      <3> QED
        BY <3>1, <3>2, <3>4, <3>5
    <2> QED
      BY <2>1, <2>2
  <1>7. ASSUME NEW t \in 1 .. n, n - t < Keep, n - t < Buckets, mg[t] # Zero
        PROVE  as[t % Buckets].tick = t
    <2>1. CASE t = n
      BY <1>2, <2>1
    <2>2. CASE t # n
      <3>1. t \in Nat /\ t < n /\ t \in 1 .. MaxNow
        BY <1>0, <2>2
      <3>2. t % Buckets # j
        BY <1>0, <1>7, <3>1, TicksApart DEF j
      <3>3. t % Buckets \in 0 .. Buckets - 1
        BY <1>0, <3>1
      <3>4. lg[t] # Zero
        BY <1>4, <1>7, <2>2, <3>1
      <3>5. bs[t % Buckets].tick = t
        BY <1>7, <3>4 DEF RingOf
      <3> QED
        BY <1>3, <3>2, <3>3, <3>5
    <2> QED
      BY <2>1, <2>2
  <1>8. ASSUME NEW t \in 1 .. MaxNow, t > n PROVE mg[t] = Zero
    BY <1>0, <1>4, <1>8 DEF RingOf
  <1>9. RingOf(as, mg, n)
    BY <1>6, <1>7, <1>8 DEF RingOf
  <1> QED
    BY <1>9 DEF as, mg

(* The clock goes on: the ghost forgets what the window has left.          *)
LEMMA LaterRing ==
  ASSUME NEW bs \in Rings, NEW lg \in Logs, NEW n \in 1 .. MaxNow, n < MaxNow,
         RingOf(bs, lg, n)
  PROVE  RingOf(bs, [t \in 1 .. MaxNow |-> IF t + Keep > n + 1 THEN lg[t] ELSE Zero], n + 1)
  <1> DEFINE mg == [t \in 1 .. MaxNow |-> IF t + Keep > n + 1 THEN lg[t] ELSE Zero]
  <1>0. Buckets \in Nat \ {0} /\ Keep \in Nat \ {0} /\ MaxNow \in Nat /\ n \in Nat
    BY BreakerAssumption, GroupAssumption
  <1>1. \A t \in 1 .. MaxNow : mg[t] = IF t + Keep > n + 1 THEN lg[t] ELSE Zero
    OBVIOUS
  <1>2. \A k \in 0 .. Buckets - 1 : bs[k].tick \in Nat
    BY DEF Rings, Bucket
  <1> HIDE DEF mg
  <1>3. ASSUME NEW k \in 0 .. Buckets - 1, bs[k].tick # 0
        PROVE  /\ bs[k].tick <= n + 1 /\ bs[k].tick % Buckets = k
               /\ (n + 1) - bs[k].tick < Keep => bs[k].cnt = mg[bs[k].tick]
    <2>1. /\ bs[k].tick <= n /\ bs[k].tick % Buckets = k
          /\ n - bs[k].tick < Keep => bs[k].cnt = lg[bs[k].tick]
      BY <1>3 DEF RingOf
    <2> QED
      BY <1>0, <1>1, <1>2, <1>3, <2>1
  <1>4. ASSUME NEW t \in 1 .. n + 1, (n + 1) - t < Keep, (n + 1) - t < Buckets, mg[t] # Zero,
               t \in 1 .. MaxNow
        PROVE  bs[t % Buckets].tick = t
    <2>1. lg[t] # Zero
      BY <1>0, <1>1, <1>4
    <2>2. t \in 1 .. n
      BY <1>0, <1>4, <2>1 DEF RingOf
    <2> QED
      BY <1>0, <1>4, <2>1, <2>2 DEF RingOf
  <1>5. ASSUME NEW t \in 1 .. MaxNow, t > n + 1 PROVE mg[t] = Zero
    BY <1>0, <1>1, <1>5 DEF RingOf
  <1>6. \A t \in 1 .. n + 1 : (n + 1) - t < Keep /\ (n + 1) - t < Buckets /\ mg[t] # Zero =>
          bs[t % Buckets].tick = t
    <2>1. \A t \in 1 .. n + 1 : t \in 1 .. MaxNow
      BY <1>0
    <2> QED
      BY <1>4, <2>1
  <1>7. \A k \in 0 .. Buckets - 1 : bs[k].tick # 0 =>
          /\ bs[k].tick <= n + 1 /\ bs[k].tick % Buckets = k
          /\ (n + 1) - bs[k].tick < Keep => bs[k].cnt = mg[bs[k].tick]
    BY ONLY <1>3, Zenon
  <1>8. \A t \in 1 .. MaxNow : t > n + 1 => mg[t] = Zero
    BY ONLY <1>5, Zenon
  <1>9. RingOf(bs, mg, n + 1)
    BY ONLY <1>6, <1>7, <1>8, Zenon DEF RingOf
  <1> QED
    BY <1>9 DEF mg

(* The invariant of the windows.                                           *)
RingInv == now \in 1 .. MaxNow /\ \A e \in Endpoints : RingOf(cb[e].buckets, log[e], now)

(* A result goes to the ring and to the ghost, or to neither.              *)
LEMMA ToldRing ==
  ASSUME TypeOK, RingInv, NEW d \in Endpoints, NEW ret \in Ret, NEW turn \in Nat \ {0},
         Record(d, ret, turn), NEW e \in Endpoints
  PROVE  RingOf(cb'[e].buckets, log'[e], now)
  <1> DEFINE b == cb[d]
             c == record(b, ret, turn, now)
             z == [t \in 1 .. MaxNow |-> Zero]
             g == [log[d] EXCEPT ![now] = Plus(log[d][now], ret)]
             h == IF c.state = "CLOSED" /\ b.state = "HALF_OPEN" THEN z
                  ELSE IF b.state = "CLOSED" /\ turn = b.turn /\ ret.mark # "SKIP"
                  THEN g ELSE log[d]
  <1>1. /\ b \in Breaker /\ log[d] \in Logs /\ b.buckets \in Rings
        /\ now \in 1 .. MaxNow /\ now \in Nat /\ RingOf(b.buckets, log[d], now)
    BY DEF TypeOK, RingInv, Logs, Rings, Breaker
  <1>2. cb' = [cb EXCEPT ![d] = c] /\ log' = [log EXCEPT ![d] = h]
    BY Zenon DEF Record
  <1>3. RingOf(c.buckets, h, now)
    <2>1. CASE b.state = "HALF_OPEN" /\ turn = b.turn
      <3>1. c = recordHalfOpen(b, ret, now)
        BY <2>1 DEF record
      <3>2. c.buckets = IF c.state = "CLOSED" THEN NoBuckets ELSE b.buckets
        BY <1>1, <2>1, <3>1, HalfOpenWindow
      <3>3. CASE c.state = "CLOSED"
        <4>1. RingOf(NoBuckets, z, now)
          BY <1>1, EmptyRing
        <4> QED
          BY <2>1, <3>2, <3>3, <4>1
      <3>4. CASE c.state # "CLOSED"
        BY <1>1, <2>1, <3>2, <3>4
      <3> QED
        BY <3>3, <3>4
    <2>2. CASE b.state = "CLOSED" /\ turn = b.turn /\ ret.mark # "SKIP"
      <3>1. c = recordClosed(b, ret, now)
        BY <2>2 DEF record
      <3>2. c.buckets = Added(b.buckets, ret, now)
        BY <1>1, <3>1, ClosedWindow
      <3>3. RingOf(Added(b.buckets, ret, now), g, now)
        BY <1>1, AddedRing
      <3>4. h = g
        BY <2>2
      <3> QED
        BY <3>2, <3>3, <3>4
    <2>3. CASE turn # b.turn \/ b.state = "OPEN" \/ (b.state = "CLOSED" /\ ret.mark = "SKIP")
      <3>1. c = b
        BY <2>3 DEF record
      <3>2. h = log[d]
        BY <2>3, <3>1
      <3> QED
        BY <1>1, <3>1, <3>2
    <2> QED
      BY <1>1, <2>1, <2>2, <2>3 DEF Breaker, States
  <1> HIDE DEF c, h
  <1>4. cb \in [Endpoints -> Breaker] /\ log \in [Endpoints -> Logs]
    BY DEF TypeOK, Logs
  <1>5. CASE e = d
    BY <1>2, <1>3, <1>4, <1>5
  <1>6. CASE e # d
    <2>1. cb'[e] = cb[e] /\ log'[e] = log[e]
      BY <1>2, <1>4, <1>6
    <2> QED
      BY <2>1 DEF RingInv
  <1> QED
    BY <1>5, <1>6

(* A step of a request keeps the rings.                                    *)
LEMMA RingStays ==
  ASSUME GroupInv, RingInv, NEW r \in Requests, BreakerStep(req[r], req'[r]), UNCHANGED now
  PROVE  RingInv'
  <1> DEFINE p == req[r]
  <1>1. TypeOK /\ cb \in [Endpoints -> Breaker] /\ now \in Nat /\ p.turn \in Nat
    BY DEF GroupInv, TypeOK, Request
  <1>2. SUFFICES ASSUME NEW e \in Endpoints PROVE RingOf(cb'[e].buckets, log'[e], now)
    BY DEF RingInv
  <1>3. RingOf(cb[e].buckets, log[e], now)
    BY DEF RingInv
  <1>4. CASE UNCHANGED <<cb, log>>
    BY <1>3, <1>4
  <1>5. CASE Asked(p, req'[r])
    <2>1. /\ log' = log /\ p.ep \in Endpoints
          /\ cb' = [cb EXCEPT ![p.ep] = isAllowed(cb[p.ep], now)]
      BY <1>5 DEF Asked
    <2>2. isAllowed(cb[p.ep], now).buckets = cb[p.ep].buckets
      BY <1>1, <2>1, IsAllowedWindow
    <2>3. cb'[e].buckets = cb[e].buckets
      BY <1>1, <2>1, <2>2
    <2> QED
      BY <1>3, <2>1, <2>3
  <1>6. CASE Told(p, req'[r])
    <2>1. PICK ret \in Ret : Record(p.ep, ret, p.turn)
      BY <1>6 DEF Told
    <2>2. p.ep \in Endpoints /\ p.turn # 0
      BY <1>6 DEF Told
    <2> QED
      BY <1>1, <2>1, <2>2, ToldRing
  <1> QED
    BY <1>4, <1>5, <1>6 DEF BreakerStep, Untold

(* The rings hold in every state.                                          *)
LEMMA RingInductive == Spec => []RingInv
  <1>1. ASSUME Init PROVE RingInv
    <2>1. now \in 1 .. MaxNow
      BY <1>1, GroupAssumption DEF Init
    <2>2. ASSUME NEW e \in Endpoints
          PROVE  cb[e].buckets = NoBuckets /\ log[e] = [t \in 1 .. MaxNow |-> Zero]
      BY <1>1 DEF Init, NewBreaker
    <2> QED
      BY <2>1, <2>2, EmptyRing DEF RingInv
  <1>2. ASSUME GroupInv, RingInv, [Next]_vars PROVE RingInv'
    <2>1. ASSUME NEW r \in Requests, Start(r) \/ RequestStep(r), UNCHANGED <<now, healthVars>>
          PROVE  RingInv'
      <3>1. Does(req[r], req'[r])
        BY <1>2, <2>1, RequestKeeps
      <3>2. BreakerStep(req[r], req'[r])
        BY <3>1 DEF Does
      <3> QED
        BY <1>2, <2>1, <3>2, RingStays
    <2>2. CASE UNCHANGED <<now, cb, log>>
      BY <1>2, <2>2 DEF RingInv
    <2>3. CASE Tick
      <3>1. /\ now \in 1 .. MaxNow /\ now < MaxNow /\ now' = now + 1 /\ cb' = cb
            /\ now' \in 1 .. MaxNow
        BY <1>2, <2>3, GroupAssumption DEF Tick, RingInv
      <3>2. ASSUME NEW e \in Endpoints
            PROVE  RingOf(cb'[e].buckets, log'[e], now')
        <4>1. log'[e] = [t \in 1 .. MaxNow |-> IF t + Keep > now + 1 THEN log[e][t] ELSE Zero]
          BY <2>3, <3>1 DEF Tick
        <4>2. cb[e].buckets \in Rings /\ log[e] \in Logs
          BY <1>2 DEF GroupInv, TypeOK, Breaker, Rings, Logs
        <4>3. RingOf(cb[e].buckets, log[e], now)
          BY <1>2 DEF RingInv
        <4> QED
          BY <3>1, <4>1, <4>2, <4>3, LaterRing
      <3> QED
        BY <3>1, <3>2 DEF RingInv
    <2> QED
      BY <1>2, <2>1, <2>2, <2>3 DEF Next, vars, upVars
  <1> QED
    BY GroupInductive, <1>1, <1>2, PTL DEF Spec

-----------------------------------------------------------------------------
(* Sums over finite sets.                                                  *)

(* What holds at 0 and goes on from n to n + 1 holds of all numbers.       *)
LEMMA Numbers ==
  ASSUME NEW S, 0 \in S, \A n \in Nat : n \in S => n + 1 \in S
  PROVE  Nat \subseteq S
  <1> SUFFICES ASSUME Nat \ S # {} PROVE FALSE
    OBVIOUS
  <1> DEFINE T == Nat \ S
  <1>1. PICK x \in T : \A y \in T : ~(<<y, x>> \in OpToRel(<, Nat))
    BY WFMin, NatLessThanWellFounded
  <1>2. \A y \in T : ~(y < x)
    BY <1>1 DEF OpToRel
  <1>3. x \in Nat /\ x # 0
    OBVIOUS
  <1>4. x - 1 \in Nat /\ x - 1 < x /\ (x - 1) + 1 = x
    BY <1>3
  <1>5. x - 1 \in S
    BY <1>2, <1>4
  <1> QED
    BY <1>4, <1>5

(* The field c of the records f, summed over S (SumOver).                  *)
Total(S, f, c) == MapThenSumSet(LAMBDA k : f[k][c], S)

(* The element that MapThenSumSet takes next.                              *)
First(s) == CHOOSE x \in s : TRUE
(* I sums the field c of f over every set in D, taking First away.         *)
Adds(I, D, f, c) ==
    I = [s \in D |-> IF s = {} THEN 0 ELSE f[First(s)][c] + I[s \ {First(s)}]]

(* A sum is the value of a solution.                                       *)
LEMMA TotalIs ==
  ASSUME NEW S, NEW f, NEW c, \E I : Adds(I, SUBSET S, f, c)
  PROVE  \E I : Adds(I, SUBSET S, f, c) /\ Total(S, f, c) = I[S]
  <1> DEFINE J == CHOOSE I : Adds(I, SUBSET S, f, c)
  <1>1. Adds(J, SUBSET S, f, c)
    <2> HIDE DEF Adds
    <2> QED OBVIOUS
  <1>2. Total(S, f, c) = J[S]
    BY DEF Total, MapThenSumSet, MapThenFoldSet, Adds, First
  <1> QED
    BY <1>1, <1>2

(* The subsets of S with up to n elements.                                 *)
UpTo(S, n) == {s \in SUBSET S : Cardinality(s) <= n}

(* What is left of a set without its First.                                *)
LEMMA FirstLess ==
  ASSUME NEW S, IsFiniteSet(S), NEW s \in SUBSET S
  PROVE  /\ IsFiniteSet(s) /\ Cardinality(s) \in Nat /\ (Cardinality(s) = 0 <=> s = {})
         /\ \A x \in s : s \ {x} \in SUBSET S /\ Cardinality(s \ {x}) = Cardinality(s) - 1
         /\ s # {} => First(s) \in s
  <1>1. IsFiniteSet(s)
    BY FS_Subset
  <1>2. Cardinality(s) \in Nat /\ (Cardinality(s) = 0 <=> s = {})
    BY <1>1, FS_CardinalityType, FS_EmptySet
  <1>3. \A x \in s : Cardinality(s \ {x}) = Cardinality(s) - 1
    BY <1>1, FS_RemoveElement
  <1>4. s # {} => First(s) \in s
    BY DEF First
  <1> QED
    BY <1>1, <1>2, <1>3, <1>4

(* The recursive definition of a sum over a finite set has a solution.     *)
LEMMA SumExists ==
  ASSUME NEW S, IsFiniteSet(S), NEW f, NEW c
  PROVE  \E I : Adds(I, SUBSET S, f, c)
  <1> DEFINE T == {n \in Nat : \E I : Adds(I, UpTo(S, n), f, c)}
  <1>1. 0 \in T
    <2>1. UpTo(S, 0) = {{}}
      <3>1. Cardinality({}) = 0
        BY FS_EmptySet
      <3>2. \A s \in UpTo(S, 0) : s = {}
        BY FirstLess DEF UpTo
      <3> QED
        BY <3>1, <3>2 DEF UpTo
    <2>2. Adds([s \in {{}} |-> 0], {{}}, f, c)
      BY DEF Adds
    <2> QED
      BY <2>1, <2>2
  <1>2. ASSUME NEW n \in Nat, n \in T PROVE n + 1 \in T
    <2>1. PICK I : Adds(I, UpTo(S, n), f, c)
      BY <1>2
    <2> DEFINE val(s) == f[First(s)][c] + I[s \ {First(s)}]
               J == [s \in UpTo(S, n + 1) |-> IF s = {} THEN 0 ELSE val(s)]
    <2>2. ASSUME NEW s \in UpTo(S, n) PROVE s \in UpTo(S, n + 1) /\ J[s] = I[s]
      <3>1. s \in UpTo(S, n + 1)
        BY FirstLess DEF UpTo
      <3>2. I[s] = IF s = {} THEN 0 ELSE val(s)
        BY <2>1 DEF Adds
      <3> QED
        BY <3>1, <3>2
    <2>3. ASSUME NEW s \in UpTo(S, n + 1), s # {}
          PROVE  s \ {First(s)} \in UpTo(S, n)
      <3>1. s \in SUBSET S /\ Cardinality(s) <= n + 1
        BY DEF UpTo
      <3> QED
        BY <2>3, <3>1, FirstLess DEF UpTo
    <2>4. ASSUME NEW s \in UpTo(S, n + 1)
          PROVE  J[s] = IF s = {} THEN 0 ELSE f[First(s)][c] + J[s \ {First(s)}]
      <3>1. J[s] = IF s = {} THEN 0 ELSE val(s)
        OBVIOUS
      <3>2. s # {} => J[s \ {First(s)}] = I[s \ {First(s)}]
        BY <2>2, <2>3
      <3> HIDE DEF J
      <3> QED
        BY <3>1, <3>2
    <2>5. J = [s \in UpTo(S, n + 1) |-> J[s]]
      OBVIOUS
    <2> HIDE DEF J
    <2>6. Adds(J, UpTo(S, n + 1), f, c)
      BY <2>4, <2>5 DEF Adds
    <2> QED
      BY <2>6
  <1>3. Cardinality(S) \in T
    <2>1. Nat \subseteq T
      <3> HIDE DEF T
      <3> QED
        BY <1>1, <1>2, Numbers
    <2> QED
      BY <2>1, FS_CardinalityType
  <1>4. UpTo(S, Cardinality(S)) = SUBSET S
    BY FS_Subset DEF UpTo
  <1> QED
    BY <1>3, <1>4

(* I is a solution for S, and J one for a part R of it.                    *)
BothAdd(I, S, J, R, f, c) ==
    /\ IsFiniteSet(S) /\ R \subseteq S
    /\ Adds(I, SUBSET S, f, c) /\ Adds(J, SUBSET R, f, c)

(* Two solutions agree where both are defined.                             *)
LEMMA SumUnique ==
  ASSUME NEW I, NEW S, NEW J, NEW R, NEW f, NEW c, BothAdd(I, S, J, R, f, c)
  PROVE  I[R] = J[R]
  <1>0. IsFiniteSet(S) /\ R \subseteq S /\ Adds(I, SUBSET S, f, c) /\ Adds(J, SUBSET R, f, c)
    BY DEF BothAdd
  <1> DEFINE T == {n \in Nat : \A s \in SUBSET R : Cardinality(s) = n => I[s] = J[s]}
  <1>1. \A s \in SUBSET R : s \in SUBSET S /\ s \ {First(s)} \in SUBSET R
    BY <1>0
  <1>2. ASSUME NEW s \in SUBSET R
        PROVE  /\ I[s] = IF s = {} THEN 0 ELSE f[First(s)][c] + I[s \ {First(s)}]
               /\ J[s] = IF s = {} THEN 0 ELSE f[First(s)][c] + J[s \ {First(s)}]
    BY <1>0, <1>1 DEF Adds
  <1>3. 0 \in T
    BY <1>0, <1>1, <1>2, FirstLess
  <1>4. ASSUME NEW n \in Nat, n \in T PROVE n + 1 \in T
    <2>1. ASSUME NEW s \in SUBSET R, Cardinality(s) = n + 1 PROVE I[s] = J[s]
      <3>1. s # {} /\ Cardinality(s \ {First(s)}) = n
        BY <1>0, <1>1, <2>1, FirstLess
      <3>2. I[s \ {First(s)}] = J[s \ {First(s)}]
        BY <1>1, <1>4, <3>1
      <3> QED
        BY <1>2, <3>1, <3>2
    <2> QED
      BY <2>1
  <1>5. Nat \subseteq T
    <2> HIDE DEF T
    <2> QED
      BY <1>3, <1>4, Numbers
  <1>6. R \in SUBSET R /\ R \in SUBSET S /\ Cardinality(R) \in Nat
    BY <1>0, FirstLess
  <1> QED
    BY <1>5, <1>6

(* A sum is its First and the sum of the rest.                             *)
LEMMA TotalStep ==
  ASSUME NEW S, IsFiniteSet(S), NEW f, NEW c
  PROVE  /\ S = {} => Total(S, f, c) = 0
         /\ S # {} => Total(S, f, c) = f[First(S)][c] + Total(S \ {First(S)}, f, c)
  <1> DEFINE R == S \ {First(S)}
  <1>1. IsFiniteSet(R) /\ R \in SUBSET S
    BY FS_Subset
  <1>2. PICK I : Adds(I, SUBSET S, f, c) /\ Total(S, f, c) = I[S]
    BY SumExists, TotalIs
  <1>3. PICK J : Adds(J, SUBSET R, f, c) /\ Total(R, f, c) = J[R]
    BY <1>1, SumExists, TotalIs
  <1>4. I[R] = J[R]
    <2>1. BothAdd(I, S, J, R, f, c)
      BY <1>1, <1>2, <1>3 DEF BothAdd
    <2> QED
      BY <2>1, SumUnique
  <1>5. I[S] = IF S = {} THEN 0 ELSE f[First(S)][c] + I[R]
    BY <1>2 DEF Adds
  <1> QED
    BY <1>2, <1>3, <1>4, <1>5

(* The field c of f is a number on S.                                      *)
Sizes(S, f, c) == \A x \in S : f[x][c] \in Nat

(* A sum of numbers is one, and any element may be taken out of it first.  *)
LEMMA TotalWithout ==
  ASSUME NEW S, IsFiniteSet(S), NEW f, NEW c, Sizes(S, f, c)
  PROVE  \A s \in SUBSET S :
           /\ Total(s, f, c) \in Nat
           /\ \A x \in s : Total(s, f, c) = f[x][c] + Total(s \ {x}, f, c)
  <1> DEFINE P(s) == /\ Total(s, f, c) \in Nat
                     /\ \A x \in s : Total(s, f, c) = f[x][c] + Total(s \ {x}, f, c)
             T == {n \in Nat : \A s \in SUBSET S : Cardinality(s) <= n => P(s)}
  <1>1. \A s \in SUBSET S :
          /\ IsFiniteSet(s) /\ Cardinality(s) \in Nat /\ (Cardinality(s) = 0 <=> s = {})
          /\ \A x \in s : s \ {x} \in SUBSET S /\ Cardinality(s \ {x}) = Cardinality(s) - 1
          /\ s # {} => First(s) \in s
    BY FirstLess
  <1>2. ASSUME NEW s \in SUBSET S
        PROVE  /\ s = {} => Total(s, f, c) = 0
               /\ s # {} => Total(s, f, c) = f[First(s)][c] + Total(s \ {First(s)}, f, c)
    <2>1. IsFiniteSet(s)
      BY <1>1
    <2> QED
      BY <2>1, TotalStep, Zenon
  <1>3. \A x \in S : f[x][c] \in Nat
    BY DEF Sizes
  <1>4. 0 \in T
    BY <1>1, <1>2
  <1>5. ASSUME NEW n \in Nat, n \in T PROVE n + 1 \in T
    <2>0. ASSUME NEW s \in SUBSET S, Cardinality(s) <= n PROVE P(s)
      BY <1>5, <2>0
    <2>1. ASSUME NEW s \in SUBSET S, Cardinality(s) = n + 1 PROVE P(s)
      <3> DEFINE y == First(s)
                 r == s \ {y}
      <3>1. y \in s /\ y \in S /\ r \in SUBSET S /\ Cardinality(r) = n
        BY <1>1, <2>1
      <3>2. Total(s, f, c) = f[y][c] + Total(r, f, c)
        BY <1>2, <3>1
      <3>3. P(r)
        BY <2>0, <3>1
      <3>4. Total(s, f, c) \in Nat
        BY <1>3, <3>1, <3>2, <3>3
      <3>5. ASSUME NEW x \in s, x # y PROVE Total(s, f, c) = f[x][c] + Total(s \ {x}, f, c)
        <4> DEFINE q == s \ {x}
                   o == s \ {x, y}
        <4>1. q \in SUBSET S /\ Cardinality(q) = n /\ y \in q /\ x \in r /\ x \in S
          BY <1>1, <2>1, <3>1, <3>5
        <4>2. q \ {y} = o /\ r \ {x} = o
          OBVIOUS
        <4>3. P(q)
          BY <2>0, <4>1
        <4>4. Total(q, f, c) = f[y][c] + Total(o, f, c)
          <5>1. Total(q, f, c) = f[y][c] + Total(q \ {y}, f, c)
            BY <4>1, <4>3
          <5> QED
            BY <4>2, <5>1
        <4>5. Total(r, f, c) = f[x][c] + Total(o, f, c)
          <5>1. Total(r, f, c) = f[x][c] + Total(r \ {x}, f, c)
            BY <3>3, <4>1
          <5> QED
            BY <4>2, <5>1
        <4>6. Total(o, f, c) \in Nat
          <5>1. o \in SUBSET S /\ IsFiniteSet(o)
            BY <1>1
          <5>2. Cardinality(o) <= n
            BY <1>1, <3>1, <4>1, <4>2
          <5>3. P(o)
            BY <2>0, <5>1, <5>2
          <5> QED
            BY <5>3
        <4> HIDE DEF q, o, r, y
        <4>7. Total(s, f, c) = f[x][c] + Total(q, f, c)
          BY <1>3, <3>1, <3>2, <4>1, <4>4, <4>5, <4>6
        <4> QED
          BY <4>7 DEF q
      <3> QED
        BY <3>2, <3>4, <3>5
    <2>2. ASSUME NEW s \in SUBSET S, Cardinality(s) <= n + 1 PROVE P(s)
      <3>1. Cardinality(s) <= n \/ Cardinality(s) = n + 1
        BY <1>1, <2>2
      <3> QED
        BY <2>0, <2>1, <3>1
    <2> QED
      BY <2>2
  <1>6. Nat \subseteq T
    <2> HIDE DEF T
    <2> QED
      BY <1>4, <1>5, Numbers
  <1> QED
    BY <1>1, <1>6

(* Whatever counts in A has a place of its own in B that counts as much.   *)
Matches(A, B, f, g, h, c) ==
    /\ \A a \in A : f[a][c] # 0 => h[a] \in B /\ f[a][c] <= g[h[a]][c]
    /\ \A a, b \in A : f[a][c] # 0 /\ f[b][c] # 0 /\ a # b => h[a] # h[b]

(* Then the sum over A is not above the one over B.                        *)
LEMMA TotalBelow ==
  ASSUME NEW U, IsFiniteSet(U), NEW V, IsFiniteSet(V), NEW f, NEW g, NEW h, NEW c,
         Sizes(U, f, c), Sizes(V, g, c), Matches(U, V, f, g, h, c)
  PROVE  Total(U, f, c) <= Total(V, g, c)
  <1> DEFINE T == {n \in Nat : \A A \in SUBSET U, B \in SUBSET V :
                     Cardinality(A) = n /\ Matches(A, B, f, g, h, c)
                       => Total(A, f, c) <= Total(B, g, c)}
  <1>1. \A s \in SUBSET U :
          /\ Cardinality(s) \in Nat /\ (Cardinality(s) = 0 <=> s = {})
          /\ \A x \in s : s \ {x} \in SUBSET U /\ Cardinality(s \ {x}) = Cardinality(s) - 1
    BY FirstLess
  <1>2. \A s \in SUBSET U :
           /\ Total(s, f, c) \in Nat
           /\ \A x \in s : Total(s, f, c) = f[x][c] + Total(s \ {x}, f, c)
    BY TotalWithout
  <1>3. \A s \in SUBSET V :
           /\ Total(s, g, c) \in Nat
           /\ \A x \in s : Total(s, g, c) = g[x][c] + Total(s \ {x}, g, c)
    BY TotalWithout
  <1>4. (\A x \in U : f[x][c] \in Nat) /\ (\A x \in V : g[x][c] \in Nat)
    BY DEF Sizes
  <1>5. Total({}, f, c) = 0
    BY FS_EmptySet, TotalStep, Zenon
  <1>6. 0 \in T
    <2>1. ASSUME NEW A \in SUBSET U, NEW B \in SUBSET V, Cardinality(A) = 0
          PROVE  Total(A, f, c) <= Total(B, g, c)
      <3>1. A = {} /\ Total(B, g, c) \in Nat
        BY <1>1, <1>3, <2>1
      <3>2. Total(A, f, c) = 0
        BY <1>5, <3>1
      <3> QED
        BY <3>1, <3>2
    <2> QED
      BY <2>1
  <1>7. ASSUME NEW n \in Nat, n \in T PROVE n + 1 \in T
    <2>1. ASSUME NEW A \in SUBSET U, NEW B \in SUBSET V, Cardinality(A) = n + 1,
                 Matches(A, B, f, g, h, c)
          PROVE  Total(A, f, c) <= Total(B, g, c)
      <3>1. PICK x \in A : TRUE
        BY <1>1, <2>1
      <3> DEFINE R == A \ {x}
      <3>2. /\ R \in SUBSET U /\ Cardinality(R) = n /\ Total(R, f, c) \in Nat
            /\ Total(A, f, c) = f[x][c] + Total(R, f, c) /\ f[x][c] \in Nat
        BY <1>1, <1>2, <1>4, <2>1
      <3>3. ASSUME NEW D \in SUBSET V, Matches(R, D, f, g, h, c)
            PROVE  Total(R, f, c) <= Total(D, g, c)
        BY <1>7, <3>2, <3>3
      <3>4. CASE f[x][c] = 0
        <4>1. Matches(R, B, f, g, h, c)
          BY <2>1 DEF Matches
        <4>2. Total(R, f, c) <= Total(B, g, c)
          BY <3>3, <4>1
        <4> QED
          BY <3>2, <3>4, <4>2
      <3>5. CASE f[x][c] # 0
        <4> DEFINE y == h[x]
                   D == B \ {y}
        <4>1. y \in B /\ f[x][c] <= g[y][c]
          BY <2>1, <3>5 DEF Matches
        <4>2. Matches(R, D, f, g, h, c)
          BY <2>1, <3>5 DEF Matches
        <4>3. D \in SUBSET V
          OBVIOUS
        <4>4. Total(B, g, c) = g[y][c] + Total(D, g, c) /\ Total(D, g, c) \in Nat
          BY <1>3, <4>1, <4>3
        <4>5. Total(R, f, c) <= Total(D, g, c)
          BY <3>3, <4>2, <4>3
        <4>6. g[y][c] \in Nat
          BY <1>4, <4>1
        <4> HIDE DEF y, D, R
        <4> QED
          BY <3>2, <4>1, <4>4, <4>5, <4>6
      <3> QED
        BY <3>4, <3>5
    <2> QED
      BY <2>1
  <1>8. Nat \subseteq T
    <2> HIDE DEF T
    <2> QED
      BY <1>6, <1>7, Numbers
  <1> QED
    BY <1>1, <1>8

-----------------------------------------------------------------------------
(* What the snapshot adds up to.                                           *)

(* The ticks that count and the buckets in the window match, one to one.   *)
LEMMA WindowMatches ==
  ASSUME GroupInv, RingInv, NEW e \in Endpoints, NEW c \in {"requests", "failures", "slows"}
  PROVE  LET low == Since(e, now - Min({Keep, Buckets}))
             snap == snapLocked(cb[e], now)
             high == Since(e, now - Keep)
         IN  low[c] <= snap[c] /\ snap[c] <= high[c]
  <1> DEFINE bs == cb[e].buckets
             lg == log[e]
             cnt == [k \in 0 .. Buckets - 1 |-> bs[k].cnt]
             B == {k \in 0 .. Buckets - 1 : InWindow(bs[k].tick, now)}
             L == {u \in 1 .. now : u > now - Min({Keep, Buckets})}
             H == {u \in 1 .. now : u > now - Keep}
  <1>0. /\ Buckets \in Nat \ {0} /\ Keep \in Nat \ {0} /\ MaxNow \in Nat /\ now \in Nat
        /\ now \in 1 .. MaxNow
    BY BreakerAssumption, GroupAssumption DEF RingInv
  <1>1. bs \in Rings /\ lg \in Logs
    BY DEF GroupInv, TypeOK, Breaker, Rings, Logs
  <1>2. RingOf(bs, lg, now)
    BY DEF RingInv
  <1>3. /\ Since(e, now - Min({Keep, Buckets}))[c] = Total(L, lg, c)
        /\ Since(e, now - Keep)[c] = Total(H, lg, c)
        /\ snapLocked(cb[e], now)[c] = Total(B, cnt, c)
    BY DEF Since, snapLocked, SumOver, Total
  <1>4. \A k \in 0 .. Buckets - 1 : cnt[k] = bs[k].cnt
    OBVIOUS
  <1>5. IsFiniteSet(B) /\ IsFiniteSet(L) /\ IsFiniteSet(H)
    <2>1. IsFiniteSet(0 .. Buckets - 1) /\ IsFiniteSet(1 .. now)
      BY <1>0, FS_Interval
    <2> QED
      BY <2>1, FS_Subset
  <1>6. /\ \A u \in L : u \in 1 .. now /\ InWindow(u, now) /\ now - u < Buckets
        /\ \A u \in 1 .. now : InWindow(u, now) => u \in H
    <2>1. Min({Keep, Buckets}) = IF Keep <= Buckets THEN Keep ELSE Buckets
      BY <1>0, MinOfTwo
    <2> QED
      BY <1>0, <2>1 DEF InWindow
  <1>7. \A n \in Count : n[c] \in Nat /\ (n[c] # 0 => n # Zero)
    BY DEF Count, Zero
  <1>8. \A k \in 0 .. Buckets - 1 : bs[k].tick \in Nat /\ bs[k].cnt \in Count
    BY <1>1 DEF Rings, Bucket
  <1>9. \A u \in 1 .. now : lg[u] \in Count /\ u % Buckets \in 0 .. Buckets - 1
    BY <1>0, <1>1 DEF Logs
  <1>10. \A k \in B : /\ k \in 0 .. Buckets - 1 /\ bs[k].tick \in H
                      /\ bs[k].tick % Buckets = k /\ bs[k].cnt = lg[bs[k].tick]
    <2>1. ASSUME NEW k \in B
          PROVE  /\ k \in 0 .. Buckets - 1 /\ bs[k].tick % Buckets = k
                 /\ bs[k].cnt = lg[bs[k].tick] /\ bs[k].tick \in 1 .. now
                 /\ InWindow(bs[k].tick, now)
      BY <1>0, <1>2, <1>8 DEF RingOf, InWindow
    <2> QED
      BY <1>6, <2>1
  <1>11. ASSUME NEW u \in L, lg[u][c] # 0
         PROVE  /\ u % Buckets \in B /\ bs[u % Buckets].tick = u
                /\ cnt[u % Buckets] = lg[u]
    <2>1. u \in 1 .. now /\ InWindow(u, now) /\ now - u < Buckets /\ lg[u] # Zero
      BY <1>6, <1>7, <1>9, <1>11
    <2>2. bs[u % Buckets].tick = u
      BY <1>2, <2>1 DEF RingOf, InWindow
    <2>3. u % Buckets \in B
      BY <1>9, <2>1, <2>2
    <2> QED
      BY <1>4, <1>9, <1>10, <2>1, <2>2, <2>3
  <1>12. Sizes(L, lg, c) /\ Sizes(H, lg, c) /\ Sizes(B, cnt, c)
    BY <1>4, <1>7, <1>8, <1>9 DEF Sizes
  <1> HIDE DEF bs, lg, cnt, B, L, H
  <1>13. Total(L, lg, c) <= Total(B, cnt, c)
    <2> DEFINE h == [u \in L |-> u % Buckets]
    <2>1. \A u \in L : h[u] = u % Buckets
      OBVIOUS
    <2>2. \A u \in L : lg[u][c] \in Nat
      BY <1>12 DEF Sizes
    <2> HIDE DEF h
    <2>3. Matches(L, B, lg, cnt, h, c)
      BY <1>11, <2>1, <2>2 DEF Matches
    <2> QED
      BY <1>5, <1>12, <2>3, TotalBelow
  <1>14. Total(B, cnt, c) <= Total(H, lg, c)
    <2> DEFINE h == [k \in B |-> bs[k].tick]
    <2>1. \A k \in B : h[k] = bs[k].tick
      OBVIOUS
    <2>2. \A k \in B : cnt[k][c] \in Nat /\ cnt[k] = bs[k].cnt
      BY <1>4, <1>10, <1>12 DEF Sizes
    <2> HIDE DEF h
    <2>3. Matches(B, H, cnt, lg, h, c)
      BY <1>10, <2>1, <2>2 DEF Matches
    <2> QED
      BY <1>5, <1>12, <2>3, TotalBelow
  <1> QED
    BY <1>3, <1>13, <1>14

(* What a breaker decides by is right: a closed one has fewer failures in  *)
(* a row than open it, no success of an earlier probe, and its next pause  *)
(* is the first one; a bucket that the window covers counts the results of *)
(* its tick and no others, however often the ring has come round, and the  *)
(* last round is complete (addBucket); the snapshot that opens a breaker   *)
(* counts every result of the last Buckets ticks of the window and none    *)
(* that is older than the window (snapLocked). For any length of the ring  *)
(* and of the window.                                                      *)
THEOREM BreakersAreSound == Spec => []BreakerSound
  <1>1. ASSUME GroupInv, RingInv PROVE RingSound
    <2>1. ASSUME NEW e \in Endpoints, NEW k \in 0 .. Buckets - 1,
                 InWindow(cb[e].buckets[k].tick, now)
          PROVE  /\ cb[e].buckets[k].tick % Buckets = k
                 /\ cb[e].buckets[k].cnt = log[e][cb[e].buckets[k].tick]
      BY <1>1, <2>1 DEF RingInv, RingOf, InWindow
    <2>2. ASSUME NEW e \in Endpoints, NEW t \in 1 .. now, InWindow(t, now),
                 now - t < Buckets, log[e][t] # Zero
          PROVE  cb[e].buckets[t % Buckets].tick = t
      BY <1>1, <2>2 DEF RingInv, RingOf, InWindow
    <2> QED
      BY <2>1, <2>2 DEF RingSound
  <1>2. ASSUME GroupInv, RingInv PROVE WindowSound
    BY <1>2, WindowMatches DEF WindowSound
  <1>3. GroupInv /\ RingInv => BreakerSound
    BY <1>1, <1>2 DEF BreakerSound, GroupInv
  <1> QED
    BY GroupInductive, RingInductive, <1>3, PTL

-----------------------------------------------------------------------------
(* The promise of a breaker.                                               *)
LEMMA PromiseStarts ==
  ASSUME Init, NEW e \in Endpoints
  PROVE  Promise(e)!Init
  <1>1. cb[e] = NewBreaker
    BY DEF Init
  <1>2. cb[e].state = "CLOSED"
    BY <1>1 DEF NewBreaker
  <1>3. now \in Nat
    BY DEF Init
  <1> QED
    BY <1>2, <1>3 DEF Promise!Init

(* A turn of the breaker of e is a step of its promise, or none.           *)
LEMMA TurningKeepsPromise ==
  ASSUME GroupInv, NEW r \in Requests, NEW e \in Endpoints, Turning(e, r), UNCHANGED now
  PROVE  [Promise(e)!Next]_(Promise(e)!vars)
  <1>1. /\ cb[e].openMs \in Nat /\ cb[e].openAt \in Nat /\ now \in Nat
        /\ OpenMs \in Nat /\ MaxOpenMs \in Nat /\ OpenMs <= MaxOpenMs
        /\ OpenMs <= cb[e].openMs /\ cb[e].openMs <= MaxOpenMs
    BY BreakerAssumption DEF GroupInv, TypeOK, Breaker, Pauses
  <1>2. CASE Unmoved(e)
    BY <1>2 DEF Unmoved, Promise!vars
  <1>3. CASE Counts(e)
    BY <1>3 DEF Counts, Promise!vars
  <1>4. CASE Trips(e)
    <2>1. Promise(e)!Trip
      BY <1>1, <1>4 DEF Trips, Promise!Trip, Promise!Pause
    <2> QED
      BY <2>1 DEF Promise!Next
  <1>5. CASE Wakes(e, r)
    <2>1. Promise(e)!Wake(r)
      BY <1>1, <1>5 DEF Wakes, Promise!Wake, Elapsed
    <2> QED
      BY <2>1 DEF Promise!Next
  <1>6. CASE Admits(e, r)
    <2>1. Cardinality(Out(e)) < HalfOpenMax
      BY <1>6 DEF Admits, GroupInv, ProbesCounted
    <2>2. Promise(e)!Admit(r)
      <3>0. ASSUME NEW S PROVE Promise(e)!Cardinality(S) = Cardinality(S)
        BY DEF Promise!Cardinality, Cardinality
      <3>1. (IF cb[e].state = "HALF_OPEN" THEN Out(e) ELSE {}) = Out(e)
        BY <1>6 DEF Admits
      <3>2. Cardinality(IF cb[e].state = "HALF_OPEN" THEN Out(e) ELSE {}) < HalfOpenMax
        BY <2>1, <3>1
      <3>3. (IF cb[e].state = "HALF_OPEN" THEN Out(e) ELSE {})' = Out(e) \cup {r}
        BY <1>6 DEF Admits
      <3>4. /\ cb[e].state = "HALF_OPEN" /\ cb'[e].state = "HALF_OPEN" /\ r \notin Out(e)
        BY <1>6 DEF Admits
      <3>5. UNCHANGED (IF cb[e].state = "OPEN" THEN cb[e].openAt + cb[e].openMs ELSE 0)
        BY <3>4
      <3> QED
        BY <3>0, <3>1, <3>2, <3>3, <3>4, <3>5, Zenon DEF Promise!Admit
    <2> QED
      BY <2>2 DEF Promise!Next
  <1>7. CASE Returns(e, r)
    <2>1. Promise(e)!Return(r)
      BY <1>7 DEF Returns, Promise!Return
    <2> QED
      BY <2>1 DEF Promise!Next
  <1>8. CASE Reopens(e, r)
    <2>1. OpenMs <= Doubled(cb[e]) /\ Doubled(cb[e]) <= MaxOpenMs /\ Doubled(cb[e]) \in Nat
      BY <1>1 DEF Doubled
    <2>2. Promise(e)!Settle(r)
      BY <1>1, <1>8, <2>1 DEF Reopens, Promise!Settle, Promise!Pause
    <2> QED
      BY <2>2 DEF Promise!Next
  <1>9. CASE Closes(e, r)
    <2>1. Promise(e)!Settle(r)
      BY <1>9 DEF Closes, Promise!Settle
    <2> QED
      BY <2>1 DEF Promise!Next
  <1> QED
    BY <1>2, <1>3, <1>4, <1>5, <1>6, <1>7, <1>8, <1>9 DEF Turning

(* Every step of the group is a step of each breaker's promise, or none.   *)
LEMMA StepKeepsPromise ==
  ASSUME GroupInv, Next, NEW e \in Endpoints
  PROVE  [Promise(e)!Next]_(Promise(e)!vars)
  <1>1. CASE \E r \in Requests : (Start(r) \/ RequestStep(r)) /\ UNCHANGED <<now, healthVars>>
    BY <1>1, RequestKeeps, TurningKeepsPromise
  <1>2. CASE (Flip \/ \E k \in Checks : CheckStep(k)) /\ UNCHANGED <<now, upVars>>
    <2>1. UNCHANGED <<now, cb, active, idle, req, owed>>
      BY <1>2 DEF upVars
    <2>2. Out(e)' = Out(e)
      BY <2>1, ApartKeeps
    <2> QED
      BY <2>1, <2>2 DEF Promise!vars
  <1>3. CASE Tick
    <2>1. UNCHANGED <<cb, active, idle, req, owed>> /\ now' = now + 1 /\ now \in Nat
      BY <1>3 DEF Tick, GroupInv, TypeOK
    <2>2. Out(e)' = Out(e)
      BY <2>1, ApartKeeps
    <2>3. Promise(e)!Time
      BY <2>1, <2>2 DEF Promise!Time
    <2> QED
      BY <2>3 DEF Promise!Next
  <1> QED
    BY <1>1, <1>2, <1>3 DEF Next

(* Every breaker implements BreakerPromise: nothing passes an open breaker *)
(* before its pause is over, at most HalfOpenMax probes are out at a time, *)
(* and only a probe of the present half-open period decides.               *)
THEOREM BreakersKeepPromise == Spec => KeepsPromise
  <1>1. Init => \A e \in Endpoints : Promise(e)!Init
    BY PromiseStarts
  <1>2. GroupInv /\ [Next]_vars => [\A e \in Endpoints : [Promise(e)!Next]_(Promise(e)!vars)]_vars
    BY StepKeepsPromise
  <1> QED
    BY <1>1, <1>2, GroupInductive, PTL DEF Spec, KeepsPromise

=============================================================================
