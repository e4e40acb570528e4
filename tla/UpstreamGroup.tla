--------------------------- MODULE UpstreamGroup ----------------------------
(***************************************************************************)
(* Requests on their way to the endpoints of a group: the choice of an      *)
(* endpoint and of a connection (UpstreamGroup::tryAcquire), the exchange   *)
(* (Upstream::forward) and the release, by request coroutines that run on   *)
(* several threads; and the health checks, which may overlap.               *)
(*                                                                          *)
(* A step is an operation on one shared object: an atomic of the endpoint,  *)
(* the breaker under its mutex, the pool under its mutex, a socket. The     *)
(* balancer's choice is any candidate. A deadline may pass at any time, a   *)
(* look at a socket (sock_reusable) and an exchange may end in any way.     *)
(***************************************************************************)
EXTENDS CircuitBreaker, Sequences

CONSTANTS
    Requests,       \* request coroutines
    N,              \* endpoints 1 .. N of the group
    Conns,          \* names of connections; a closed one's name is used again
    Checks,         \* health check rounds that may overlap
    None,           \* no connection
    MaxInflight,    \* of an endpoint, 0: no limit
    MaxIdle,        \* connections a pool keeps
    IdleMs,         \* idleTimeoutMs, in ticks
    Slows,          \* whether an exchange may be slow (costMs >= slowMs), or not, or both
    HealthyNeed,    \* healthyThreshold
    UnhealthyNeed,  \* unhealthyThreshold
    MaxNow,         \* bound on the clock
    MaxCalls,       \* bound on the requests ever started
    MaxFlip         \* bound on the changes of an endpoint's real condition

ASSUME GroupAssumption ==
    /\ IsFiniteSet(Requests) /\ N \in Nat /\ None \notin Conns
    /\ MaxInflight \in Nat /\ MaxIdle \in Nat /\ IdleMs \in Nat
    /\ Slows \subseteq BOOLEAN /\ Slows # {}
    /\ HealthyNeed \in Nat \ {0} /\ UnhealthyNeed \in Nat \ {0}
    /\ MaxNow \in Nat \ {0} /\ MaxCalls \in Nat /\ MaxFlip \in Nat

Endpoints == 1 .. N

VARIABLES
    now, calls, flips,
    cb,         \* per endpoint: its breaker
    active,     \* per endpoint: activeConns
    idle,       \* per endpoint: m_idle of its pool, oldest first
    req,        \* per request: where it is and what it has in hand
    owed,       \* connections no request may follow on: an answer, or bytes after it,
                \* still to be read, or the endpoint is about to close it (ghost)
    log,        \* per endpoint and tick: results since it last closed (ghost)
    alive,      \* per endpoint: whether a check succeeds
    healthy, succ, fails,   \* per endpoint: the health check's atomics
    check       \* per round: where it is

upVars == <<cb, active, idle, req, owed, log, calls>>
healthVars == <<alive, healthy, succ, fails, check, flips>>
vars == <<now, upVars, healthVars>>

PCs == {"idle", "scan", "pick", "hold", "admit", "ready", "pool", "fresh", "undo",
        "send", "head", "retry", "body", "mark", "back", "drop"}
Resting == [pc |-> "idle", cand |-> {}, ep |-> 0, turn |-> 0, conn |-> None, reused |-> FALSE,
            counted |-> FALSE, ret |-> [mark |-> "SKIP", slow |-> FALSE], keep |-> FALSE]
Request == [pc : PCs, cand : SUBSET Endpoints, ep : 0 .. N, turn : Nat,
            conn : Conns \cup {None}, reused : BOOLEAN, counted : BOOLEAN,
            ret : Ret, keep : BOOLEAN]
Idle == [conn : Conns, since : Nat]
Round == [pc : {"idle", "probe", "passed", "failed", "judgeUp", "judgeDown"},
          ep : 0 .. N, n : Nat]

(* The clock of the host has been running when the gateway starts.         *)
Init ==
    /\ now = 1 /\ calls = 0 /\ flips = 0
    /\ cb = [e \in Endpoints |-> NewBreaker]
    /\ active = [e \in Endpoints |-> 0]
    /\ idle = [e \in Endpoints |-> <<>>]
    /\ req = [r \in Requests |-> Resting]
    /\ owed = {}
    /\ log = [e \in Endpoints |-> [t \in 1 .. MaxNow |-> Zero]]
    /\ alive \in [Endpoints -> BOOLEAN]
    /\ healthy = [e \in Endpoints |-> TRUE]
    /\ succ = [e \in Endpoints |-> 0]
    /\ fails = [e \in Endpoints |-> 0]
    /\ check = [k \in Checks |-> [pc |-> "idle", ep |-> 0, n |-> 0]]

-----------------------------------------------------------------------------
(* Helpers.                                                                *)

At(r, pc) == req[r].pc = pc
Goto(r, q) == req' = [req EXCEPT ![r] = q]
Held == {req[r].conn : r \in Requests} \ {None}
Pooled == UNION {{idle[e][n].conn : n \in DOMAIN idle[e]} : e \in Endpoints}
Unused == Conns \ (Held \cup Pooled)
NewConn == CHOOSE c \in Unused : TRUE

(* The breaker of e takes a result; the ghost keeps what was counted.      *)
Record(e, ret, turn) ==
    LET b == record(cb[e], ret, turn, now)
    IN  /\ cb' = [cb EXCEPT ![e] = b]
        /\ log' = [log EXCEPT ![e] =
             IF b.state = "CLOSED" /\ cb[e].state = "HALF_OPEN" THEN [t \in 1 .. MaxNow |-> Zero]
             ELSE IF cb[e].state = "CLOSED" /\ turn = cb[e].turn /\ ret.mark # "SKIP"
             THEN [@ EXCEPT ![now] = Plus(log[e][now], ret)] ELSE @]

(* Erase the chosen candidate and go round the loop again.                 *)
NextCandidate(q) == [Resting EXCEPT !.pc = "pick", !.cand = q.cand \ {q.ep}]

-----------------------------------------------------------------------------
(* UpstreamGroup::tryAcquire.                                              *)

Start(r) ==
    /\ At(r, "idle") /\ calls < MaxCalls
    /\ calls' = calls + 1
    /\ Goto(r, [Resting EXCEPT !.pc = "scan"])
    /\ UNCHANGED <<cb, active, idle, owed, log>>

(* The first loop looks at one endpoint after the other.                   *)
Scan(r) ==
    /\ At(r, "scan")
    /\ LET q == req[r]
           e == q.ep + 1
       IN  Goto(r, IF q.ep = N THEN [q EXCEPT !.pc = "pick", !.ep = 0]
                   ELSE [q EXCEPT !.ep = e,
                          !.cand = IF healthy[e] /\ canTry(cb[e], now) THEN @ \cup {e} ELSE @])
    /\ UNCHANGED <<cb, active, idle, owed, log, calls>>

(* No candidate is left, or the deadline has passed.                       *)
GiveUp(r) ==
    /\ At(r, "pick")
    /\ Goto(r, Resting)
    /\ UNCHANGED <<cb, active, idle, owed, log, calls>>

Pick(r) ==
    /\ At(r, "pick")
    /\ \E e \in req[r].cand :
         Goto(r, IF healthy[e] THEN [req[r] EXCEPT !.pc = "hold", !.ep = e]
                               ELSE NextCandidate([req[r] EXCEPT !.ep = e]))
    /\ UNCHANGED <<cb, active, idle, owed, log, calls>>

(* Endpoint::tryHold: the compare-exchange that succeeds, or none.         *)
TryHold(r) ==
    /\ At(r, "hold")
    /\ LET e == req[r].ep
       IN  IF MaxInflight = 0 \/ active[e] < MaxInflight
           THEN /\ active' = [active EXCEPT ![e] = @ + 1]
                /\ Goto(r, [req[r] EXCEPT !.pc = "admit"])
           ELSE /\ Goto(r, NextCandidate(req[r]))
                /\ UNCHANGED active
    /\ UNCHANGED <<cb, idle, owed, log, calls>>

\* Mutant: the state is read before the breaker is asked.
IsAllowedReadFirst(r) ==
    /\ At(r, "admit")
    /\ LET e == req[r].ep
           b == isAllowed(cb[e], now)
       IN  /\ cb' = [cb EXCEPT ![e] = b]
           /\ Goto(r, IF Allows(cb[e], now)
                      THEN [req[r] EXCEPT !.turn = b.turn,
                             !.pc = IF cb[e].state = "HALF_OPEN" THEN "fresh" ELSE "pool"]
                      ELSE [req[r] EXCEPT !.pc = "undo"])
    /\ UNCHANGED <<active, idle, owed, log, calls>>

IsAllowed(r) ==
    /\ At(r, "admit")
    /\ LET e == req[r].ep
           b == isAllowed(cb[e], now)
       IN  /\ cb' = [cb EXCEPT ![e] = b]
           /\ Goto(r, IF Allows(cb[e], now) THEN [req[r] EXCEPT !.pc = "ready", !.turn = b.turn]
                                            ELSE [req[r] EXCEPT !.pc = "undo"])
    /\ UNCHANGED <<active, idle, owed, log, calls>>

(* The deadline passed meanwhile (wait = 0): nothing is held against the   *)
(* endpoint.                                                               *)
Expire(r) ==
    /\ At(r, "ready")
    /\ Record(req[r].ep, [mark |-> "SKIP", slow |-> FALSE], req[r].turn)
    /\ Goto(r, [Resting EXCEPT !.pc = "drop", !.ep = req[r].ep])
    /\ UNCHANGED <<active, idle, owed, calls>>

(* The state of the breaker is read again, in a critical section of its    *)
(* own: a probe has to use a new connection.                               *)
ReadState(r) ==
    /\ At(r, "ready")
    /\ Goto(r, [req[r] EXCEPT !.pc = IF cb[req[r].ep].state = "HALF_OPEN" THEN "fresh" ELSE "pool"])
    /\ UNCHANGED <<cb, active, idle, owed, log, calls>>

Dropped(e, n) == SubSeq(idle[e], n + 1, Len(idle[e]))

\* Mutant: the connection stays in the pool.
AcquireKeeps(r) ==
    /\ At(r, "pool")
    /\ LET e == req[r].ep
       IN  \/ \E n \in DOMAIN idle[e] :
                /\ now - idle[e][n].since < IdleMs
                /\ idle' = [idle EXCEPT ![e] = SubSeq(@, n, Len(@))]
                /\ Goto(r, [req[r] EXCEPT !.pc = "send", !.conn = idle[e][n].conn, !.reused = TRUE])
           \/ /\ idle' = [idle EXCEPT ![e] = <<>>]
              /\ Goto(r, [req[r] EXCEPT !.pc = "fresh"])
    /\ UNCHANGED <<cb, active, owed, log, calls>>

(* ConnectionPool::acquire: entries are taken from the front and dropped    *)
(* until one is neither too old nor unusable.                               *)
Acquire(r) ==
    /\ At(r, "pool")
    /\ LET e == req[r].ep
       IN  \/ \E n \in DOMAIN idle[e] :
                /\ now - idle[e][n].since < IdleMs
                /\ idle' = [idle EXCEPT ![e] = Dropped(e, n)]
                /\ Goto(r, [req[r] EXCEPT !.pc = "send", !.conn = idle[e][n].conn, !.reused = TRUE])
           \/ /\ idle' = [idle EXCEPT ![e] = <<>>]
              /\ Goto(r, [req[r] EXCEPT !.pc = "fresh"])
    /\ UNCHANGED <<cb, active, owed, log, calls>>

Connect(r) ==
    /\ At(r, "fresh")
    /\ Unused # {}
    /\ Goto(r, [req[r] EXCEPT !.pc = "send", !.conn = NewConn])
    /\ UNCHANGED <<cb, active, idle, owed, log, calls>>

ConnectFail(r) ==
    /\ At(r, "fresh")
    /\ \E slow \in Slows : Record(req[r].ep, [mark |-> "FAIL", slow |-> slow], req[r].turn)
    /\ Goto(r, [req[r] EXCEPT !.pc = "undo", !.turn = 0])
    /\ UNCHANGED <<active, idle, owed, calls>>

DropHold(e) == active' = [active EXCEPT ![e] = IF @ > 0 THEN @ - 1 ELSE @]

(* dropHold, and on to the next candidate.                                 *)
Undo(r) ==
    /\ At(r, "undo")
    /\ DropHold(req[r].ep)
    /\ Goto(r, NextCandidate(req[r]))
    /\ UNCHANGED <<cb, idle, owed, log, calls>>

-----------------------------------------------------------------------------
(* Upstream::forward with the connection in hand.                          *)

(* end(): every early return leaves by it, and the connection is dropped.  *)
End(r, mark) ==
    \E slow \in Slows :
      Goto(r, [req[r] EXCEPT !.pc = "mark", !.ret = [mark |-> mark, slow |-> slow], !.keep = FALSE])

Send(r) ==
    /\ At(r, "send")
    /\ owed' = owed \cup {req[r].conn}
    /\ Goto(r, [req[r] EXCEPT !.pc = "head"])
    /\ UNCHANGED <<cb, active, idle, log, calls>>

(* A pooled connection turns out dead before any answer.                   *)
StaleConn(r) ==
    /\ At(r, "send") \/ At(r, "head")
    /\ req[r].reused
    /\ Goto(r, [req[r] EXCEPT !.pc = "retry"])
    /\ UNCHANGED <<cb, active, idle, owed, log, calls>>

Retry(r) ==
    /\ At(r, "retry")
    /\ Unused # {}
    /\ Goto(r, [req[r] EXCEPT !.pc = "send", !.conn = NewConn, !.reused = FALSE])
    /\ owed' = owed \ {req[r].conn}
    /\ UNCHANGED <<cb, active, idle, log, calls>>

(* Time-outs, failing sends, bad answers and failing retries.              *)
ExchangeFail(r) ==
    /\ At(r, "send") \/ At(r, "head") \/ At(r, "retry")
    /\ End(r, "FAIL")
    /\ UNCHANGED <<cb, active, idle, owed, log, calls>>

(* The client's body is at fault.                                          *)
RequestFail(r) ==
    /\ At(r, "head")
    /\ End(r, "SKIP")
    /\ UNCHANGED <<cb, active, idle, owed, log, calls>>

(* The head of the answer. A bad status, an answer without body and a      *)
(* stream of events are counted at once.                                   *)
Answer(r) ==
    /\ At(r, "head")
    /\ \E mark \in {"OK", "FAIL"}, slow \in Slows, counted \in BOOLEAN :
         LET ret == [mark |-> mark, slow |-> slow]
         IN  /\ mark = "FAIL" => counted
             /\ IF counted THEN Record(req[r].ep, ret, req[r].turn) ELSE UNCHANGED <<cb, log>>
             /\ Goto(r, [req[r] EXCEPT !.pc = "body", !.ret = ret, !.counted = counted])
    /\ UNCHANGED <<active, idle, owed, calls>>

(* Writing to the client fails: the rest of the answer is not read.        *)
ClientGone(r) ==
    /\ At(r, "body")
    /\ Goto(r, [req[r] EXCEPT !.pc = "mark", !.keep = FALSE])
    /\ UNCHANGED <<cb, active, idle, owed, log, calls>>

BodyFail(r) ==
    /\ At(r, "body")
    /\ Goto(r, [req[r] EXCEPT !.pc = "mark", !.keep = FALSE,
                              !.ret.mark = IF req[r].counted THEN @ ELSE "FAIL"])
    /\ UNCHANGED <<cb, active, idle, owed, log, calls>>

\* Mutant: bytes left in the buffer do not count.
BodyEndLeft(r) ==
    /\ At(r, "body")
    /\ \E isClose, untilClose, left \in BOOLEAN :
         /\ Goto(r, [req[r] EXCEPT !.pc = "mark", !.keep = ~isClose /\ ~untilClose])
         /\ owed' = IF isClose \/ untilClose \/ left THEN owed ELSE owed \ {req[r].conn}
    /\ UNCHANGED <<cb, active, idle, log, calls>>

(* The body is read without error; whether its end reaches the client does *)
(* not matter. The connection is kept unless the endpoint said it closes   *)
(* it, the body ended with the connection, or the buffer holds more bytes. *)
BodyEnd(r) ==
    /\ At(r, "body")
    /\ \E isClose, untilClose, left \in BOOLEAN :
         /\ Goto(r, [req[r] EXCEPT !.pc = "mark", !.keep = ~isClose /\ ~untilClose /\ ~left])
         /\ owed' = IF isClose \/ untilClose \/ left THEN owed ELSE owed \ {req[r].conn}
    /\ UNCHANGED <<cb, active, idle, log, calls>>

-----------------------------------------------------------------------------
(* UpstreamGroup::release.                                                 *)

Mark(r) ==
    /\ At(r, "mark")
    /\ IF req[r].counted THEN UNCHANGED <<cb, log>>
                         ELSE Record(req[r].ep, req[r].ret, req[r].turn)
    /\ Goto(r, [req[r] EXCEPT !.pc = "back", !.counted = TRUE])
    /\ UNCHANGED <<active, idle, owed, calls>>

(* ConnectionPool::release; a connection that is not kept is closed.       *)
Back(r) ==
    /\ At(r, "back")
    /\ LET e == req[r].ep
           c == req[r].conn
       IN  \/ /\ req[r].keep /\ Len(idle[e]) < MaxIdle
              /\ idle' = [idle EXCEPT ![e] = Append(@, [conn |-> c, since |-> now])]
              /\ UNCHANGED owed
           \/ /\ owed' = owed \ {c}
              /\ UNCHANGED idle
    /\ Goto(r, [Resting EXCEPT !.pc = "drop", !.ep = req[r].ep])
    /\ UNCHANGED <<cb, active, log, calls>>

Drop(r) ==
    /\ At(r, "drop")
    /\ DropHold(req[r].ep)
    /\ Goto(r, Resting)
    /\ UNCHANGED <<cb, idle, owed, log, calls>>

Acquiring(r) ==
    \/ Scan(r) \/ GiveUp(r) \/ Pick(r) \/ TryHold(r) \/ IsAllowed(r) \/ Expire(r)
    \/ ReadState(r) \/ Acquire(r) \/ Connect(r) \/ ConnectFail(r) \/ Undo(r)

Exchange(r) ==
    \/ Send(r) \/ StaleConn(r) \/ Retry(r) \/ ExchangeFail(r) \/ RequestFail(r) \/ Answer(r)
    \/ ClientGone(r) \/ BodyFail(r) \/ BodyEnd(r)

Releasing(r) == Mark(r) \/ Back(r) \/ Drop(r)

RequestStep(r) == Acquiring(r) \/ Exchange(r) \/ Releasing(r)

-----------------------------------------------------------------------------
(* UpstreamGroup::runHealthCheckOnce: a round by the timer, which does not *)
(* wait for the last one. The counters stop at their thresholds: the code   *)
(* only asks whether they have been reached.                                *)

AtCheck(k, pc) == check[k].pc = pc

BeginRound(k) ==
    /\ AtCheck(k, "idle") /\ N > 0
    /\ check' = [check EXCEPT ![k] = [pc |-> "probe", ep |-> 1, n |-> 0]]
    /\ UNCHANGED <<alive, healthy, succ, fails, flips>>

CheckUp(k) ==
    /\ AtCheck(k, "probe") /\ alive[check[k].ep]
    /\ LET e == check[k].ep
           s == Min({succ[e] + 1, HealthyNeed})
       IN  /\ succ' = [succ EXCEPT ![e] = s]
           /\ check' = [check EXCEPT ![k].pc = "passed", ![k].n = s]
    /\ UNCHANGED <<alive, healthy, fails, flips>>

CheckDown(k) ==
    /\ AtCheck(k, "probe") /\ ~alive[check[k].ep]
    /\ LET e == check[k].ep
           f == Min({fails[e] + 1, UnhealthyNeed})
       IN  /\ fails' = [fails EXCEPT ![e] = f]
           /\ check' = [check EXCEPT ![k].pc = "failed", ![k].n = f]
    /\ UNCHANGED <<alive, healthy, succ, flips>>

ResetFails(k) ==
    /\ AtCheck(k, "passed")
    /\ fails' = [fails EXCEPT ![check[k].ep] = 0]
    /\ check' = [check EXCEPT ![k].pc = "judgeUp"]
    /\ UNCHANGED <<alive, healthy, succ, flips>>

ResetSucc(k) ==
    /\ AtCheck(k, "failed")
    /\ succ' = [succ EXCEPT ![check[k].ep] = 0]
    /\ check' = [check EXCEPT ![k].pc = "judgeDown"]
    /\ UNCHANGED <<alive, healthy, fails, flips>>

\* Mutant: a failed endpoint is never taken back.
JudgeOneWay(k) ==
    /\ AtCheck(k, "judgeUp") \/ AtCheck(k, "judgeDown")
    /\ LET e == check[k].ep
       IN  /\ healthy' = [healthy EXCEPT ![e] =
                @ /\ ~(AtCheck(k, "judgeDown") /\ check[k].n >= UnhealthyNeed)]
           /\ check' = [check EXCEPT ![k] =
                IF e = N THEN [pc |-> "idle", ep |-> 0, n |-> 0]
                         ELSE [pc |-> "probe", ep |-> e + 1, n |-> 0]]
    /\ UNCHANGED <<alive, succ, fails, flips>>

(* The last store, and on to the next endpoint.                            *)
Judge(k) ==
    /\ AtCheck(k, "judgeUp") \/ AtCheck(k, "judgeDown")
    /\ LET e == check[k].ep
           up == AtCheck(k, "judgeUp")
       IN  /\ healthy' = [healthy EXCEPT ![e] =
                IF check[k].n >= (IF up THEN HealthyNeed ELSE UnhealthyNeed) THEN up ELSE @]
           /\ check' = [check EXCEPT ![k] =
                IF e = N THEN [pc |-> "idle", ep |-> 0, n |-> 0]
                         ELSE [pc |-> "probe", ep |-> e + 1, n |-> 0]]
    /\ UNCHANGED <<alive, succ, fails, flips>>

CheckStep(k) == \/ BeginRound(k) \/ CheckUp(k) \/ CheckDown(k)
                \/ ResetFails(k) \/ ResetSucc(k) \/ Judge(k)

(* The endpoint itself fails or comes back.                                *)
Flip == /\ flips < MaxFlip
        /\ flips' = flips + 1
        /\ \E e \in Endpoints : alive' = [alive EXCEPT ![e] = ~@]
        /\ UNCHANGED <<healthy, succ, fails, check>>

(* The ghost forgets what no window can reach any more.                    *)
Tick == /\ now < MaxNow /\ now' = now + 1
        /\ log' = [e \in Endpoints |-> [t \in 1 .. MaxNow |->
                                          IF t + Keep > now' THEN log[e][t] ELSE Zero]]
        /\ UNCHANGED <<cb, active, idle, req, owed, calls, healthVars>>

Next ==
    \/ \E r \in Requests : (Start(r) \/ RequestStep(r)) /\ UNCHANGED <<now, healthVars>>
    \/ (Flip \/ \E k \in Checks : CheckStep(k)) /\ UNCHANGED <<now, upVars>>
    \/ Tick

Spec == Init /\ [][Next]_vars

(* The reactor runs coroutines. As far as the head of the answer every     *)
(* read, write and connect has a time-out and their number is bounded; of  *)
(* the body each single read is, their number is not (upstream.cpp:546),   *)
(* so it may go on for ever. The timer of the checks is recurring.         *)
Prompt(r) == ~At(r, "body") /\ RequestStep(r)

FairSpec ==
    /\ Spec
    /\ WF_vars(Tick)
    /\ \A r \in Requests : WF_vars(Prompt(r) /\ UNCHANGED <<now, healthVars>>)
    /\ \A k \in Checks : WF_vars(CheckStep(k) /\ UNCHANGED <<now, upVars>>)
-----------------------------------------------------------------------------
TypeOK ==
    /\ now \in Nat /\ calls \in Nat /\ flips \in Nat
    /\ cb \in [Endpoints -> Breaker]
    /\ active \in [Endpoints -> Nat]
    /\ idle \in [Endpoints -> Seq(Idle)]
    /\ req \in [Requests -> Request]
    /\ owed \in SUBSET Conns
    /\ log \in [Endpoints -> [1 .. MaxNow -> Count]]
    /\ alive \in [Endpoints -> BOOLEAN] /\ healthy \in [Endpoints -> BOOLEAN]
    /\ succ \in [Endpoints -> Nat] /\ fails \in [Endpoints -> Nat]
    /\ check \in [Checks -> Round]

(* Requests that the breaker of e let through in its present turn and that *)
(* have not reported yet.                                                  *)
Out(e) == {r \in Requests : req[r].ep = e /\ req[r].turn = cb[e].turn /\ ~req[r].counted}

(* The pending count of a half-open breaker is the number of its probes    *)
(* that are out (ronduan.cpp:45-48, 73): a slot is neither lost nor given  *)
(* back twice, however late results come in.                               *)
ProbesCounted ==
    \A e \in Endpoints :
      cb[e].pending = IF cb[e].state = "HALF_OPEN" THEN Cardinality(Out(e)) ELSE 0

(* activeConns is the number of requests that hold the endpoint            *)
(* (ups_group.cpp:82-96), on every way out of tryAcquire and forward.      *)
HoldsCounted ==
    \A e \in Endpoints :
      active[e] = Cardinality({r \in Requests : req[r].ep = e
                                                /\ req[r].pc \notin {"idle", "scan", "pick", "hold"}})

(* Both counts that admission depends on are exact.                        *)
CountsExact == TypeOK /\ ProbesCounted /\ HoldsCounted

(* A probe whose result will count never runs on a pooled connection       *)
(* (ups_group.cpp:177-184), although the breaker is asked twice.           *)
ProbeIsFresh ==
    \A e \in Endpoints : cb[e].state = "HALF_OPEN" => \A r \in Out(e) : ~req[r].reused

(* A connection has one owner: one request or one place in one pool.       *)
ConnExclusive ==
    /\ \A r, s \in Requests : r # s /\ req[r].conn # None => req[r].conn # req[s].conn
    /\ Held \cap Pooled = {}
    /\ \A d, e \in Endpoints : \A m \in DOMAIN idle[d], n \in DOMAIN idle[e] :
         idle[d][m].conn = idle[e][n].conn => d = e /\ m = n

(* No answer is left unread on a pooled connection, where the next request *)
(* would take it for its own, nothing came after the answer, and the       *)
(* endpoint keeps it open (upstream.cpp:667-676).                          *)
IdleIsClean == owed \cap Pooled = {}

(* A connection is never shared, and never handed on with an answer in it. *)
PoolSound == ConnExclusive /\ IdleIsClean

(* A closed breaker has fewer failures in a row than open it, and its next *)
(* pause is the first one again (ronduan.cpp:92, 121-128).                 *)
ClosedIsReset ==
    \A e \in Endpoints : cb[e].state = "CLOSED" => /\ cb[e].consec < Threshold
                                                   /\ cb[e].openMs = OpenMs
                                                   /\ cb[e].ok = 0

(* The ring of buckets: a bucket that the window covers counts the results *)
(* of its own tick, all of them and no others, and no tick of the last     *)
(* round with a result is without its bucket (ronduan.cpp:145-165).        *)
RingSound ==
    \A e \in Endpoints :
      LET bs == cb[e].buckets
      IN  /\ \A k \in 0 .. Buckets - 1 : InWindow(bs[k].tick, now) =>
               bs[k].tick % Buckets = k /\ bs[k].cnt = log[e][bs[k].tick]
          /\ \A t \in 1 .. now : InWindow(t, now) /\ now - t < Buckets /\ log[e][t] # Zero =>
               bs[t % Buckets].tick = t

(* What the snapshot adds up to: every result of the last Buckets ticks of *)
(* the window and none that is older than the window.                      *)
Since(e, t) == SumOver({u \in 1 .. now : u > t}, log[e])
WindowSound ==
    \A e \in Endpoints :
      LET snap == snapLocked(cb[e], now)
          low == Since(e, now - Min({Keep, Buckets}))
          high == Since(e, now - Keep)
      IN  \A c \in {"requests", "failures", "slows"} : low[c] <= snap[c] /\ snap[c] <= high[c]

(* What a breaker decides by is right: the counts of a closed one, the     *)
(* ring of buckets and the sums of the window.                             *)
BreakerSound == ClosedIsReset /\ RingSound /\ WindowSound

(* Every breaker keeps the promise of BreakerPromise.                      *)
Promise(e) == INSTANCE BreakerPromise WITH
    state <- cb[e].state,
    probes <- IF cb[e].state = "HALF_OPEN" THEN Out(e) ELSE {},
    until <- IF cb[e].state = "OPEN" THEN cb[e].openAt + cb[e].openMs ELSE 0
KeepsPromise ==
    /\ \A e \in Endpoints : Promise(e)!Init
    /\ [][\A e \in Endpoints : [Promise(e)!Next]_(Promise(e)!vars)]_vars

(* A half-open breaker whose slots are all taken does not stay so: a slot  *)
(* comes back, or it opens or closes. The one exception is that every slot *)
(* is kept by a probe whose answer never ends (upstream.cpp:546 bounds     *)
(* single reads only); no other way through an exchange loses a slot. An   *)
(* open breaker is tried again after its pause.                            *)
Trickling(e) == Out(e) # {} /\ \A r \in Out(e) : At(r, "body")
NotJammed ==
    \A e \in Endpoints :
      /\ []<>(cb[e].state # "HALF_OPEN" \/ canTry(cb[e], now)) \/ <>[]Trickling(e)
      /\ cb[e].state = "OPEN" /\ cb[e].openAt + cb[e].openMs <= MaxNow ~> canTry(cb[e], now)

(* Overlapping rounds of checks end up with the truth: the flag of an      *)
(* endpoint is, again and again, its real condition                        *)
(* (ups_group.cpp:306-328).                                                *)
HealthFollows == \A e \in Endpoints : []<>(healthy[e] = alive[e])
=============================================================================
