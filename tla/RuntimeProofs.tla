---------------------------- MODULE RuntimeProofs ----------------------------
(***************************************************************************)
(* Proofs about the runtime: of a WebSocket tunnel (Tunnel), that its      *)
(* place at the endpoint and its sockets follow its pumps                  *)
(* (HoldFollowsPumps); of coroutines and hooked I/O (FiberIo), for any     *)
(* number of threads and coroutines, that each waiting coroutine is woken  *)
(* once and none is lost (WokenOnce), and that a time-out is reported only *)
(* when it came (TimeoutIsReal).                                           *)
(*                                                                         *)
(* For coroutines the invariant ties the program point of a coroutine to   *)
(* the one thing that will resume it: its armed event, its entry in the    *)
(* queue, or the worker that took it (FiberSound). Every step is described *)
(* once by what it does to these three (FiberKinds). That the workers do   *)
(* not leave too early needs StopSound: a worker that saw an empty queue   *)
(* may be overtaken by a wake-up, which then finds another worker that has *)
(* still to look.                                                          *)
(***************************************************************************)
EXTENDS FiberIo, Tunnel, FiniteSetTheorems, TLAPS

----------------------------------------------------------------------------
(* A pump at one of these points has not counted itself out of             *)
(* activePumps.                                                            *)
Uncounted == {"recv", "send", "half", "close", "count"}
(* Where a pump may be.                                                    *)
PumpPcs == Uncounted \cup {"off", "release", "wake", "out"}
(* Where the request's coroutine may be before the pumps are started.      *)
Early == {"acquire", "handshake", "answer"}
(* Where it may be after that.                                             *)
Late == {"pumping", "waiting", "leaving", "left"}

(* One if pump p has still to count itself out.                            *)
Owes(p) == IF pump[p].pc \in Uncounted THEN 1 ELSE 0

(* What the pumps may be.                                                  *)
PumpStates == [Pumps -> [pc : PumpPcs, fatal : BOOLEAN]]

(* The types of what the hold depends on.                                  *)
TunnelTypes ==
  /\ pump \in PumpStates
  /\ main \in Early \cup Late
  /\ activePumps \in 0..2
  /\ holds \in {0, 1} /\ open \subseteq BothEnds

(* Without pumps the request's coroutine has the hold and the upstream     *)
(* socket, from the acquire until it leaves.                               *)
BeforePumps ==
  /\ \A p \in Pumps : pump[p].pc = "off"
  /\ main \in Early => ~released
  /\ main = "acquire" => holds = 0 /\ "upstream" \notin open
  /\ main \in {"handshake", "answer"} => holds = 1
  /\ main \in Early \/ main = "left"
  /\ main = "left" => holds = 0 /\ "upstream" \notin open
  /\ main \in {"handshake", "answer"} => "upstream" \in open

(* With pumps both are kept until the last pump has counted itself out and *)
(* releases them; only one pump is the last one.                           *)
WithPumps ==
  /\ \A p \in Pumps : pump[p].pc # "off"
  /\ main \in Late
  /\ activePumps = Owes("own") + Owes("posted")
  /\ holds = IF released THEN 0 ELSE 1
  /\ released => open = {}
  /\ ~released => "upstream" \in open
  /\ released => activePumps = 0 /\ \A p \in Pumps : pump[p].pc # "release"
  /\ \A p, q \in Pumps : pump[p].pc = "release" => pump[q].pc = "out" \/ p = q
  /\ \A p \in Pumps : pump[p].pc = "wake" => released
  /\ activePumps = 0 => released \/ \E p \in Pumps : pump[p].pc = "release"

(* The inductive invariant of a tunnel.                                    *)
TunnelInv == TunnelTypes /\ (BeforePumps \/ WithPumps)

(* Initially nothing is held.                                              *)
LEMMA TunnelStarts ==
  TunnelInit => TunnelInv
<1> SUFFICES ASSUME TunnelInit
             PROVE  TunnelInv
  OBVIOUS
<1>1. pump \in PumpStates
  BY DEF TunnelInit, PumpStates, PumpPcs
<1>2. TunnelTypes
  BY <1>1 DEF TunnelInit, TunnelTypes, Early, BothEnds
<1>3. BeforePumps
  BY DEF TunnelInit, BeforePumps, Early
<1> QED
  BY <1>2, <1>3 DEF TunnelInv

(* Pump p goes to pc, the other one stays.                                 *)
PumpGoes(p, pc) ==
  /\ pump' \in PumpStates
  /\ pump'[p].pc = pc /\ \A q \in Pumps \ {p} : pump'[q] = pump[q]

(* A step that touches neither the hold nor the sockets' release.          *)
KeepsHold == UNCHANGED <<main, released, holds, open>>

(* A step of a pump moves it towards its end; it counts itself out once,   *)
(* and the last one releases.                                              *)
LEMMA PumpMoves ==
  ASSUME TunnelTypes, NEW p \in Pumps, PumpStep(p)
  PROVE  \/ /\ pump[p].pc \in Uncounted /\ \E pc \in Uncounted : PumpGoes(p, pc)
            /\ KeepsHold /\ activePumps' = activePumps
         \/ /\ pump[p].pc = "count" /\ PumpGoes(p, IF activePumps = 1 THEN "release" ELSE "out")
            /\ KeepsHold /\ activePumps' = activePumps - 1
         \/ /\ pump[p].pc = "release" /\ PumpGoes(p, "wake")
            /\ released' = TRUE /\ holds' = (IF released THEN holds ELSE holds - 1) /\ open' = {}
            /\ UNCHANGED <<main, activePumps>>
         \/ /\ pump[p].pc = "wake" /\ PumpGoes(p, "out")
            /\ KeepsHold /\ activePumps' = activePumps
<1>1. pump \in PumpStates
  BY DEF TunnelTypes
<1>2. ASSUME NEW pc \in PumpPcs, pump' = [pump EXCEPT ![p].pc = pc]
      PROVE  PumpGoes(p, pc)
  BY <1>1, <1>2 DEF PumpGoes, PumpStates
<1>3. ASSUME NEW fatal \in BOOLEAN, pump' = [pump EXCEPT ![p] = [pc |-> "half", fatal |-> fatal]]
      PROVE  PumpGoes(p, "half")
  <2>1. [pc |-> "half", fatal |-> fatal] \in [pc : PumpPcs, fatal : BOOLEAN]
    BY DEF PumpPcs, Uncounted
  <2> QED
    BY <1>1, <1>3, <2>1 DEF PumpGoes, PumpStates
<1>4. {"recv", "send", "half", "close", "count", "release", "wake", "out"} \subseteq PumpPcs
  BY DEF PumpPcs, Uncounted
<1>5. CASE LoopEnds(p) \/ RecvData(p) \/ SendOk(p) \/ HalfClose(p) \/ FatalClose(p)
  BY <1>2, <1>4, <1>5 DEF LoopEnds, RecvData, SendOk, HalfClose, FatalClose,
     PumpAt, PumpGo, stateVars, sockVars, KeepsHold, Uncounted
<1>6. CASE RecvEof(p) \/ RecvIdle(p) \/ RecvError(p) \/ SendFails(p)
  <2>0. (From(p) \in open) \in BOOLEAN
    OBVIOUS
  <2>1. PICK fatal \in BOOLEAN : Leave(p, fatal)
    BY <1>6, <2>0, Zenon DEF RecvEof, RecvIdle, RecvError, SendFails
  <2>2. PumpGoes(p, "half")
    BY <2>1, <1>3 DEF Leave
  <2>3. pump[p].pc \in Uncounted /\ "half" \in Uncounted
    BY <1>6 DEF RecvEof, RecvIdle, RecvError, SendFails, PumpAt, Uncounted
  <2>4. KeepsHold /\ activePumps' = activePumps
    BY <1>6 DEF RecvEof, RecvIdle, RecvError, SendFails, sockVars, KeepsHold
  <2> QED
    BY <2>2, <2>3, <2>4
<1>7. CASE CountDown(p)
  BY <1>2, <1>4, <1>7 DEF CountDown, PumpAt, PumpGo, sockVars, KeepsHold
<1>8. CASE Release(p)
  BY <1>2, <1>4, <1>8 DEF Release, PumpAt, PumpGo
<1>9. CASE Wake(p)
  BY <1>2, <1>4, <1>9 DEF Wake, PumpAt, PumpGo, stateVars, sockVars, KeepsHold
<1> QED
  BY <1>5, <1>6, <1>7, <1>8, <1>9 DEF PumpStep

(* Every step of a tunnel keeps the invariant.                             *)
LEMMA TunnelStays ==
  ASSUME TunnelInv, [TunnelNext]_tunnelVars
  PROVE  TunnelInv'
<1>0. TunnelTypes
  BY DEF TunnelInv
<1>1. CASE UNCHANGED tunnelVars
  BY <1>1 DEF tunnelVars, TunnelInv, TunnelTypes, BeforePumps, WithPumps, Owes
<1>2. ASSUME NEW p \in Pumps, PumpStep(p)
      PROVE  TunnelInv'
  <2>0. WithPumps
    BY <1>2, <1>0, PumpMoves DEF TunnelInv, BeforePumps, Uncounted
  <2>1. p \in {"own", "posted"} /\ Pumps = {"own", "posted"}
    BY DEF Pumps
  <2>2. CASE /\ pump[p].pc \in Uncounted /\ \E pc \in Uncounted : PumpGoes(p, pc)
             /\ KeepsHold /\ activePumps' = activePumps
    <3>1. TunnelTypes'
      BY <1>0, <2>2 DEF TunnelTypes, PumpGoes, KeepsHold
    <3>2. Owes("own")' = Owes("own") /\ Owes("posted")' = Owes("posted")
      BY <2>1, <2>2 DEF Owes, PumpGoes
    <3>3. \A q \in Pumps : /\ pump'[q].pc # "off"
                           /\ pump'[q].pc = "release" <=> pump[q].pc = "release"
                           /\ pump'[q].pc = "wake" => pump[q].pc = "wake"
                           /\ pump'[q].pc = "out" <=> pump[q].pc = "out"
      BY <2>0, <2>2 DEF PumpGoes, WithPumps, Uncounted
    <3>4. WithPumps'
      BY <2>0, <2>2, <3>2, <3>3 DEF WithPumps, KeepsHold
    <3> QED
      BY <3>1, <3>4 DEF TunnelInv
  <2>3. CASE /\ pump[p].pc = "count" /\ PumpGoes(p, IF activePumps = 1 THEN "release" ELSE "out")
             /\ KeepsHold /\ activePumps' = activePumps - 1
    <3>0. PICK q \in {"own", "posted"} : q # p /\ Pumps = {p, q}
      BY <2>1
    <3>1. Owes(p) = 1 /\ Owes(q) \in {0, 1} /\ activePumps = Owes(p) + Owes(q)
      BY <2>0, <2>1, <2>3, <3>0 DEF Owes, WithPumps, Uncounted
    <3>2. Owes(p)' = 0 /\ Owes(q)' = Owes(q)
      BY <2>3, <3>0 DEF Owes, PumpGoes, Uncounted
    <3>3. Owes("own")' + Owes("posted")' = Owes(p)' + Owes(q)'
      <4>1. Owes("own")' \in {0, 1} /\ Owes("posted")' \in {0, 1}
        BY DEF Owes
      <4> QED
        BY <2>1, <3>0, <4>1
    <3>4. ~released /\ activePumps \in {1, 2}
      BY <2>0, <3>1 DEF WithPumps
    <3>5. TunnelTypes'
      BY <1>0, <2>3, <3>4 DEF TunnelTypes, PumpGoes, KeepsHold
    <3>6. pump[q].pc # "release"
      BY <2>0, <2>3, <3>0 DEF WithPumps
    <3>7. activePumps = 1 => pump[q].pc \in {"wake", "out"}
      BY <1>0, <2>0, <3>0, <3>1, <3>6
         DEF TunnelTypes, PumpStates, PumpPcs, Owes, Uncounted, WithPumps
    <3>8. pump[q].pc # "wake"
      BY <2>0, <3>0, <3>4 DEF WithPumps
    <3>9. WithPumps'
      <4>1. \A r \in Pumps : pump'[r].pc # "off"
        BY <2>0, <2>3, <3>0 DEF WithPumps, PumpGoes
      <4>2. pump'[p].pc = (IF activePumps = 1 THEN "release" ELSE "out") /\ pump'[q] = pump[q]
        BY <2>3, <3>0 DEF PumpGoes
      <4>3. \A r, s \in Pumps : pump'[r].pc = "release" => pump'[s].pc = "out" \/ r = s
        BY <3>0, <3>6, <3>7, <3>8, <4>2
      <4>4. activePumps' = 0 => pump'[p].pc = "release"
        BY <2>3, <3>4, <4>2
      <4>5. \A r \in Pumps : pump'[r].pc # "wake"
        BY <3>0, <3>8, <4>2
      <4>6. main' = main /\ released' = released /\ holds' = holds /\ open' = open
        BY <2>3 DEF KeepsHold
      <4>7. activePumps' = Owes("own")' + Owes("posted")'
        BY <2>3, <3>1, <3>2, <3>3
      <4> QED
        BY <2>0, <3>4, <4>1, <4>3, <4>4, <4>6, <4>7, <4>5 DEF WithPumps
    <3> QED
      BY <3>5, <3>9 DEF TunnelInv
  <2>4. CASE /\ pump[p].pc = "release" /\ PumpGoes(p, "wake")
             /\ released' = TRUE /\ holds' = (IF released THEN holds ELSE holds - 1) /\ open' = {}
             /\ UNCHANGED <<main, activePumps>>
    <3>1. ~released /\ holds = 1
      BY <2>0, <2>4 DEF WithPumps
    <3>2. \A q \in Pumps \ {p} : pump[q].pc = "out"
      BY <2>0, <2>4 DEF WithPumps
    <3>3. Owes("own") = 0 /\ Owes("posted") = 0 /\ Owes("own")' = 0 /\ Owes("posted")' = 0
      BY <2>1, <2>4, <3>2 DEF Owes, PumpGoes, Uncounted
    <3>4. TunnelTypes'
      BY <1>0, <2>4, <3>1 DEF TunnelTypes, PumpGoes
    <3>5. \A q \in Pumps : pump'[q].pc \in {"wake", "out"}
      BY <2>4, <3>2 DEF PumpGoes
    <3>6. WithPumps'
      BY <2>0, <2>4, <3>1, <3>3, <3>5 DEF WithPumps
    <3> QED
      BY <3>4, <3>6 DEF TunnelInv
  <2>5. CASE /\ pump[p].pc = "wake" /\ PumpGoes(p, "out")
             /\ KeepsHold /\ activePumps' = activePumps
    <3>1. TunnelTypes'
      BY <1>0, <2>5 DEF TunnelTypes, PumpGoes, KeepsHold
    <3>2. Owes("own")' = Owes("own") /\ Owes("posted")' = Owes("posted")
      BY <2>1, <2>5 DEF Owes, PumpGoes, Uncounted
    <3>3. \A q \in Pumps : /\ pump'[q].pc # "off"
                           /\ pump'[q].pc = "release" <=> pump[q].pc = "release"
                           /\ pump'[q].pc = "wake" => pump[q].pc = "wake"
                           /\ pump[q].pc = "out" => pump'[q].pc = "out"
      BY <2>0, <2>5 DEF PumpGoes, WithPumps
    <3>4. WithPumps'
      BY <2>0, <2>5, <3>2, <3>3 DEF WithPumps, KeepsHold
    <3> QED
      BY <3>1, <3>4 DEF TunnelInv
  <2> QED
    BY <1>2, <1>0, <2>2, <2>3, <2>4, <2>5, PumpMoves
<1>3. CASE AcquireFails \/ Acquire \/ HandshakeFails \/ Upgrade \/ AnswerFails
             \/ NoEventFd
  <2>0. BeforePumps
    BY <1>3 DEF TunnelInv, WithPumps, Late, AcquireFails, Acquire, HandshakeFails,
       Upgrade, AnswerFails, NoEventFd
  <2>1. pump' = pump /\ activePumps' = activePumps
    BY <1>3 DEF AcquireFails, Acquire, HandshakeFails,
       Upgrade, AnswerFails, NoEventFd, stateVars
  <2>2. \/ main = "acquire" /\ main' = "left" /\ UNCHANGED <<released, holds, open>>
        \/ /\ main = "acquire" /\ main' = "handshake" /\ holds' = holds + 1
           /\ open' = open \cup {"upstream"} /\ released' = released
        \/ main = "handshake" /\ main' = "answer" /\ UNCHANGED <<released, holds, open>>
        \/ /\ main \in {"handshake", "answer"} /\ main' = "left" /\ holds' = holds - 1
           /\ open' \in {open \ {"upstream"}, {}}
    BY <1>3 DEF AcquireFails, Acquire, HandshakeFails, Upgrade, AnswerFails,
       NoEventFd, stateVars, sockVars
  <2>3. TunnelTypes'
    BY <1>0, <2>0, <2>1, <2>2 DEF TunnelTypes, BeforePumps, Early, Late, BothEnds
  <2>4. BeforePumps'
    BY <2>0, <2>1, <2>2 DEF BeforePumps, Early
  <2> QED
    BY <2>3, <2>4 DEF TunnelInv
<1>4. CASE StartPumps
  <2>0. BeforePumps
    BY <1>4 DEF TunnelInv, WithPumps, Late, StartPumps
  <2>1. PICK two \in BOOLEAN :
          /\ pump' = [p \in Pumps |-> [pc |-> IF p = "own" \/ two THEN "recv" ELSE "out",
                                          fatal |-> FALSE]]
          /\ activePumps' = IF two THEN 2 ELSE 1
    BY <1>4 DEF StartPumps
  <2>2. main' = "pumping" /\ UNCHANGED <<released, holds, open>> /\ ~released /\ holds = 1
    BY <1>4, <2>0 DEF StartPumps, sockVars, BeforePumps, Early
  <2>3. pump' \in PumpStates
    BY <2>1 DEF PumpStates, PumpPcs, Uncounted
  <2>4. TunnelTypes'
    BY <2>1, <2>2, <2>3, <1>0 DEF TunnelTypes, Late
  <2>5. "upstream" \in open
    BY <1>4, <2>0 DEF BeforePumps, StartPumps
  <2>6. /\ pump'["own"].pc = "recv" /\ pump'["posted"].pc = IF two THEN "recv" ELSE "out"
    BY <2>1 DEF Pumps
  <2>7. WithPumps'
    BY <2>1, <2>2, <2>5, <2>6 DEF WithPumps, Owes, Uncounted, Late, Pumps
  <2> QED
    BY <2>4, <2>7 DEF TunnelInv
<1>5. CASE LookAtPumps \/ WaitDone \/ LeaveTunnel \/ WaitFails
  <2>0. WithPumps
    BY <1>5 DEF TunnelInv, BeforePumps, Early, LookAtPumps, WaitDone, LeaveTunnel,
       WaitFails
  <2>1. UNCHANGED <<pump, activePumps, released, holds>> /\ main' \in Late
    BY <1>5 DEF LookAtPumps, WaitDone, LeaveTunnel, WaitFails, stateVars, Late
  <2>2. open' = open \/ open' = open \ {"client"}
    BY <1>5 DEF LookAtPumps, WaitDone, LeaveTunnel, WaitFails, sockVars
  <2>3. TunnelTypes'
    BY <2>1, <2>2, <1>0 DEF TunnelTypes
  <2>4. WithPumps'
    BY <2>0, <2>1, <2>2 DEF WithPumps, Owes
  <2> QED
    BY <2>3, <2>4 DEF TunnelInv
<1> QED
  BY <1>1, <1>2, <1>3, <1>4, <1>5 DEF TunnelNext, MainStep

(* A WebSocket tunnel holds its place at the endpoint exactly once, from   *)
(* the acquire for as long as a pump may use the upstream socket,          *)
(* whichever pump ends last and on every way out of the handshake; no pump *)
(* runs on a socket that the other one has closed, and none is left open.  *)
THEOREM HoldsFollowPumps == TunnelSpec => []HoldFollowsPumps
<1>1. TunnelInit => TunnelInv
  BY TunnelStarts
<1>2. TunnelInv /\ [TunnelNext]_tunnelVars => TunnelInv'
  BY TunnelStays
<1>3. TunnelInv => HoldFollowsPumps
  BY DEF TunnelInv, TunnelTypes, BeforePumps, WithPumps, Owes, HoldFollowsPumps, Moving,
     Through, Pumps, Early, Late, Uncounted
<1> QED
  BY <1>1, <1>2, <1>3, PTL DEF TunnelSpec

----------------------------------------------------------------------------
(* x is in sequence s.                                                     *)
InSeq(x, s) == \E i \in DOMAIN s : s[i] = x

(* Append adds one element.                                                *)
LEMMA AppendedOnce ==
  ASSUME NEW S, NEW s \in Seq(S), NEW x \in S
  PROVE  /\ Append(s, x) \in Seq(S) /\ Append(s, x) # <<>>
         /\ \A y : InSeq(y, Append(s, x)) <=> InSeq(y, s) \/ y = x
         /\ IsInjective(s) /\ ~InSeq(x, s) => IsInjective(Append(s, x))
<1>1. /\ Append(s, x) \in Seq(S) /\ Len(Append(s, x)) = Len(s) + 1 /\ Len(s) \in Nat
      /\ DOMAIN s = 1..Len(s) /\ DOMAIN Append(s, x) = 1..(Len(s) + 1)
      /\ \A i \in 1..Len(s) : Append(s, x)[i] = s[i]
      /\ Append(s, x)[Len(s) + 1] = x
  OBVIOUS
<1>2. Append(s, x) # <<>>
  BY <1>1
<1>3. \A y : InSeq(y, Append(s, x)) <=> InSeq(y, s) \/ y = x
  <2>1. ASSUME NEW y, InSeq(y, Append(s, x))
        PROVE  InSeq(y, s) \/ y = x
    BY <1>1, <2>1 DEF InSeq
  <2>2. ASSUME NEW y, InSeq(y, s)
        PROVE  InSeq(y, Append(s, x))
    BY <1>1, <2>2 DEF InSeq
  <2>3. InSeq(x, Append(s, x))
    BY <1>1 DEF InSeq
  <2> QED
    BY <2>1, <2>2, <2>3
<1>4. ASSUME IsInjective(s), ~InSeq(x, s)
      PROVE  IsInjective(Append(s, x))
  BY <1>1, <1>4 DEF InSeq, IsInjective
<1> QED
  BY <1>1, <1>2, <1>3, <1>4

(* RemoveAt takes one element out, and the others stay.                    *)
LEMMA RemovedOnce ==
  ASSUME NEW S, NEW s \in Seq(S), NEW i \in DOMAIN s, IsInjective(s)
  PROVE  /\ RemoveAt(s, i) \in Seq(S) /\ IsInjective(RemoveAt(s, i))
         /\ \A y : InSeq(y, RemoveAt(s, i)) <=> InSeq(y, s) /\ y # s[i]
<1> DEFINE a == SubSeq(s, 1, i - 1)
           b == SubSeq(s, i + 1, Len(s))
           r == a \o b
<1>1. Len(s) \in Nat /\ DOMAIN s = 1..Len(s) /\ i \in 1..Len(s)
  OBVIOUS
<1>2. /\ a \in Seq(S) /\ Len(a) = i - 1 /\ \A k \in 1..(i - 1) : a[k] = s[k]
  BY <1>1
<1>3. /\ b \in Seq(S) /\ Len(b) = Len(s) - i /\ \A k \in 1..(Len(s) - i) : b[k] = s[k + i]
  BY <1>1
<1> HIDE DEF a, b
<1>c. a \in Seq(S) /\ b \in Seq(S)
  BY <1>2, <1>3
<1>a. r \in Seq(S) /\ Len(r) = Len(a) + Len(b)
  BY <1>c
<1>b. \A k \in 1..(Len(a) + Len(b)) : r[k] = IF k <= Len(a) THEN a[k] ELSE b[k - Len(a)]
  BY <1>c
<1>4. r \in Seq(S) /\ Len(r) = Len(s) - 1 /\ DOMAIN r = 1..(Len(s) - 1)
  <2>1. Len(r) = Len(s) - 1
    BY <1>1, <1>2, <1>3, <1>a
  <2> HIDE DEF r
  <2> QED
    BY <1>a, <2>1
<1> HIDE DEF r
<1>5. \A k \in 1..(Len(s) - 1) : r[k] = IF k <= i - 1 THEN s[k] ELSE s[k + 1]
  <2>1. ASSUME NEW k \in 1..(Len(s) - 1)
        PROVE  r[k] = IF k <= i - 1 THEN a[k] ELSE b[k - (i - 1)]
    BY <1>1, <1>2, <1>3, <1>b
  <2>2. ASSUME NEW k \in 1..(Len(s) - 1), k > i - 1
        PROVE  k - (i - 1) \in 1..(Len(s) - i) /\ (k - (i - 1)) + i = k + 1
    BY <2>2, <1>1
  <2>3. ASSUME NEW k \in 1..(Len(s) - 1), k > i - 1
        PROVE  b[k - (i - 1)] = s[k + 1]
    BY <2>2, <2>3, <1>3
  <2> QED
    BY <2>1, <2>3, <1>1, <1>2
<1>6. RemoveAt(s, i) = r
  BY DEF RemoveAt, a, b, r
<1>7. IsInjective(r)
  <2>1. SUFFICES ASSUME NEW k \in 1..(Len(s) - 1), NEW m \in 1..(Len(s) - 1), r[k] = r[m]
                 PROVE  k = m
    BY <1>4 DEF IsInjective
  <2> DEFINE ok == IF k <= i - 1 THEN k ELSE k + 1
             om == IF m <= i - 1 THEN m ELSE m + 1
  <2>2. ok \in 1..Len(s) /\ om \in 1..Len(s) /\ s[ok] = s[om]
    BY <2>1, <1>1, <1>5
  <2>3. ok = om
    BY <2>2, <1>1 DEF IsInjective
  <2> QED
    BY <2>3, <1>1
<1>8. ASSUME NEW y, InSeq(y, r)
      PROVE  InSeq(y, s) /\ y # s[i]
  <2>1. PICK k \in 1..(Len(s) - 1) : r[k] = y
    BY <1>8, <1>4 DEF InSeq
  <2>2. PICK m \in 1..Len(s) : m # i /\ s[m] = y
    BY <2>1, <1>5, <1>1
  <2> QED
    BY <2>2, <1>1 DEF InSeq, IsInjective
<1>9. ASSUME NEW y, InSeq(y, s), y # s[i]
      PROVE  InSeq(y, r)
  <2>1. PICK m \in 1..Len(s) : s[m] = y /\ m # i
    BY <1>9, <1>1 DEF InSeq
  <2>2. CASE m < i
    <3>1. m \in 1..(Len(s) - 1) /\ r[m] = y
      BY <2>1, <2>2, <1>1, <1>5
    <3> QED
      BY <3>1, <1>4 DEF InSeq
  <2>3. CASE m > i
    <3>1. m - 1 \in 1..(Len(s) - 1) /\ r[m - 1] = y
      BY <2>1, <2>3, <1>1, <1>5
    <3> QED
      BY <3>1, <1>4 DEF InSeq
  <2> QED
    BY <2>1, <2>2, <2>3, <1>1
<1> QED
  BY <1>4, <1>6, <1>7, <1>8, <1>9

(* Initially every coroutine is queued once.                               *)
LEMMA FibersQueued ==
  ASSUME IsFiniteSet(Fibers)
  PROVE  /\ SetToSeq(Fibers) \in Seq(Fibers) /\ IsInjective(SetToSeq(Fibers))
         /\ \A f \in Fibers : InSeq(f, SetToSeq(Fibers))
<1> DEFINE n == Cardinality(Fibers)
           s == SetToSeq(Fibers)
<1>1. n \in Nat /\ ExistsBijection(1..n, Fibers)
  BY FS_CardinalityType
<1>2. \E g \in [1..n -> Fibers] : IsInjective(g)
  BY <1>1 DEF ExistsBijection, Bijection, Injection
<1>3. s \in [1..n -> Fibers] /\ IsInjective(s)
  BY <1>2 DEF SetToSeq
<1> HIDE DEF s
<1>4. s \in Injection(1..n, Fibers)
  BY <1>3 DEF Injection
<1>5. IsFiniteSet(1..n) /\ Cardinality(1..n) = n
  BY <1>1, FS_Interval
<1>6. s \in Surjection(1..n, Fibers)
  BY <1>4, <1>5, FS_Injection
<1>7. s \in Seq(Fibers) /\ DOMAIN s = 1..n
  BY <1>1, <1>3
<1>8. \A f \in Fibers : InSeq(f, s)
  BY <1>6, <1>7 DEF Surjection, InSeq
<1> QED
  BY <1>3, <1>7, <1>8 DEF s

(* The task that run() chooses is in the queue and can be run.             *)
LEMMA FirstIsReady ==
  ASSUME tasks \in Seq(Fibers), \E i \in DOMAIN tasks : Ready(i)
  PROVE  First \in DOMAIN tasks /\ Ready(First)
<1> DEFINE T == {i \in DOMAIN tasks : Ready(i)}
<1>1. DOMAIN tasks = 1..Len(tasks) /\ Len(tasks) \in Nat
  OBVIOUS
<1>2. T \subseteq Nat /\ T # {}
  BY <1>1
<1>3. PICK i \in T : \A j \in T : ~(<<j, i>> \in OpToRel(<, Nat))
  BY <1>2, WFMin, NatLessThanWellFounded
<1>4. \A j \in T : ~(j < i)
  BY <1>2, <1>3 DEF OpToRel
<1>5. Ready(i) /\ \A j \in 1..(i - 1) : ~Ready(j)
  BY <1>1, <1>4
<1> QED
  BY <1>5 DEF First

----------------------------------------------------------------------------
(* A worker at one of these points has a coroutine in hand.                *)
Holding == {"resume", "run", "expired", "mark"}
(* A worker at one of these points runs no coroutine. (It may have one to  *)
(* wake.)                                                                  *)
Away == {"scan", "idle", "stop", "oneshot", "epoll", "exited", "expired", "mark"}
(* What the workers may be.                                                *)
WorkerStates == [Threads -> [pc : Holding \cup Away, f : Fibers \cup {"none"}]]
(* Where do_io may be.                                                     *)
IoPcs == {"call", "arm", "yield", "swap", "woken", "return"}

(* The types of what a wake-up depends on.                                 *)
FiberTypes ==
  /\ tasks \in Seq(Fibers)
  /\ worker \in WorkerStates
  /\ \A t \in Threads : worker[t].pc \in Holding => worker[t].f \in Fibers
  /\ state \in [Fibers -> {"ACTIVE", "SUSPENDED", "FINISHED"}]
  /\ io \in [Fibers -> IoPcs]
  /\ events \subseteq Fibers /\ timers \subseteq Fibers

(* The types of the cancel generations and of the results.                 *)
CounterTypes ==
  /\ gen \in [Fibers -> Nat] /\ sample \in [Fibers -> Nat]
  /\ outcome \in [Fibers -> {"none", "data", "EBADF", "ECANCELED", "ETIMEDOUT"}]

(* A worker has taken f from the queue and is about to resume it.          *)
Resuming(f) == \E t \in Threads : worker[t].pc = "resume" /\ worker[t].f = f
(* A worker runs f.                                                        *)
OnCpu(f) == \E t \in Threads : worker[t].pc = "run" /\ worker[t].f = f

(* Nothing will resume f.                                                  *)
NoWake(f) == ~InSeq(f, tasks) /\ f \notin events /\ ~Resuming(f)
(* Exactly one thing will resume f: its event, its place in the queue or a *)
(* worker.                                                                 *)
OneWake(f) ==
  /\ InSeq(f, tasks) \/ f \in events \/ Resuming(f)
  /\ ~(InSeq(f, tasks) /\ f \in events)
  /\ ~(InSeq(f, tasks) /\ Resuming(f))
  /\ ~(f \in events /\ Resuming(f))

(* Where a coroutine is decides what will resume it: nothing while it      *)
(* runs, one thing from the moment its event is armed.                     *)
FiberSound(f) ==
  \/ OnCpu(f) /\ NoWake(f) /\ state[f] = "ACTIVE" /\ io[f] \in {"call", "arm", "return", "woken"}
  \/ OnCpu(f) /\ OneWake(f) /\ ~Resuming(f) /\ state[f] = "ACTIVE" /\ io[f] = "yield"
  \/ OnCpu(f) /\ OneWake(f) /\ state[f] = "SUSPENDED" /\ io[f] = "swap"
  \/ /\ ~OnCpu(f) /\ OneWake(f) /\ state[f] = "SUSPENDED" /\ io[f] \in {"call", "woken"}
     /\ io[f] = "call" => f \notin events
  \/ ~OnCpu(f) /\ NoWake(f) /\ state[f] = "FINISHED" /\ io[f] = "return"

(* No two workers have the same coroutine to run.                          *)
OneHolder ==
  \A t, u \in Threads :
    /\ worker[t].pc \in {"resume", "run"} /\ worker[u].pc = worker[t].pc
    /\ worker[t].f = worker[u].f
    => t = u

(* The saved context of a coroutine that runs is not valid.                *)
Unsaved ==
  saved \in [Fibers -> BOOLEAN] /\ \A f \in Fibers : OnCpu(f) => ~saved[f]

(* All coroutines are sound.                                               *)
FibersSound == (\A f \in Fibers : FiberSound(f)) /\ OneHolder /\ Unsaved

(* No coroutine is queued twice, or queued while its event is armed.       *)
QueuedOnce == IsInjective(tasks) /\ \A f \in events : ~InSeq(f, tasks)

----------------------------------------------------------------------------
(* Worker t, which runs nothing, goes on to something else than a          *)
(* coroutine.                                                              *)
Turns(t) ==
  /\ worker[t].pc \in Away /\ worker' \in WorkerStates /\ worker'[t].pc \in Away
  /\ worker'[t].pc \in Holding => worker'[t].f \in Fibers
  /\ \A u \in Threads \ {t} : worker'[u] = worker[u]

(* A step that touches no coroutine.                                       *)
Rests ==
  /\ UNCHANGED <<tasks, state, saved, io, events>>
  /\ worker' = worker \/ \E t \in Threads : Turns(t)

(* Worker t takes the task at i.                                           *)
Takes(t, i) ==
  /\ worker[t].pc = "scan" /\ i \in DOMAIN tasks /\ state[tasks[i]] # "ACTIVE"
  /\ worker' = [worker EXCEPT ![t] = [pc |-> "resume", f |-> tasks[i]]]
  /\ tasks' = RemoveAt(tasks, i)
  /\ UNCHANGED <<state, saved, io, events>>

(* Worker t switches to f.                                                 *)
Resumes(t, f) ==
  /\ worker[t].pc = "resume" /\ worker[t].f = f
  /\ worker' = [worker EXCEPT ![t] = [pc |-> "run", f |-> f]]
  /\ state' = [state EXCEPT ![f] = "ACTIVE"] /\ saved' = [saved EXCEPT ![f] = FALSE]
  /\ UNCHANGED <<tasks, io, events>>

(* f goes on in do_io.                                                     *)
Runs(t, f, from, to) ==
  /\ worker[t].pc = "run" /\ worker[t].f = f
  /\ io[f] = from /\ io' = [io EXCEPT ![f] = to]

(* f reads, finds its event not armed, or returns.                         *)
Reads(t, f) ==
  /\ \E from \in {"call", "arm", "woken"}, to \in {"call", "arm", "return"} : Runs(t, f, from, to)
  /\ UNCHANGED <<tasks, worker, state, saved, events>>

(* f arms its event.                                                       *)
Arms(t, f) ==
  /\ Runs(t, f, "arm", "yield") /\ events' = events \cup {f}
  /\ UNCHANGED <<tasks, worker, state, saved>>

(* f marks itself suspended while it still runs.                           *)
Marks(t, f) ==
  /\ Runs(t, f, "yield", "swap") /\ state' = [state EXCEPT ![f] = "SUSPENDED"]
  /\ UNCHANGED <<tasks, worker, saved, events>>

(* Worker t leaves its coroutine.                                          *)
LeavesCpu(t) == worker' = [worker EXCEPT ![t] = [pc |-> "scan", f |-> "none"]]

(* f saves its context and leaves the worker.                              *)
Swaps(t, f) ==
  /\ Runs(t, f, "swap", "woken") /\ saved' = [saved EXCEPT ![f] = TRUE]
  /\ LeavesCpu(t) /\ UNCHANGED <<tasks, state, events>>

(* f ends.                                                                 *)
Finishes(t, f) ==
  /\ worker[t].pc = "run" /\ worker[t].f = f /\ io[f] = "return"
  /\ state' = [state EXCEPT ![f] = "FINISHED"]
  /\ LeavesCpu(t) /\ UNCHANGED <<tasks, saved, io, events>>

(* The event of f is taken and f is queued, by epoll, a timer or a close.  *)
Fires(f) ==
  /\ f \in events /\ events' = events \ {f} /\ tasks' = Append(tasks, f)
  /\ UNCHANGED <<state, saved, io>>
  /\ worker' = worker \/ \E t \in Threads : Turns(t)

(* The ways in which a worker turns to something else.                     *)
LEMMA Turning ==
  ASSUME FiberTypes, NEW t \in Threads, worker[t].pc \in Away
  PROVE  /\ \A pc \in Away \ Holding : Go(t, pc) => Turns(t)
         /\ \A pc \in Away, f \in Fibers : Hold(t, pc, f) => Turns(t)
<1>1. ASSUME NEW pc \in Away, NEW f \in Fibers \cup {"none"}, Hold(t, pc, f),
             pc \in Holding => f \in Fibers
      PROVE  Turns(t)
  <2>1. worker \in WorkerStates
    BY DEF FiberTypes
  <2>2. [pc |-> pc, f |-> f] \in [pc : Holding \cup Away, f : Fibers \cup {"none"}]
    OBVIOUS
  <2>3. worker' = [worker EXCEPT ![t] = [pc |-> pc, f |-> f]]
    BY <1>1 DEF Hold
  <2>4. worker' \in WorkerStates /\ worker'[t] = [pc |-> pc, f |-> f]
    BY <2>1, <2>2, <2>3 DEF WorkerStates
  <2>5. \A u \in Threads \ {t} : worker'[u] = worker[u]
    BY <2>1, <2>3 DEF WorkerStates
  <2> QED
    BY <1>1, <2>4, <2>5 DEF Turns
<1>2. ASSUME NEW pc \in Away \ Holding, Go(t, pc)
      PROVE  Turns(t)
  <2>1. Hold(t, pc, "none")
    BY <1>2 DEF Go, Hold
  <2> QED
    BY <1>1, <2>1
<1> QED
  BY <1>1, <1>2

(* Every step of the runtime does one of these things.                     *)
LEMMA FiberKinds ==
  ASSUME FiberTypes, Next
  PROVE  \/ Rests \/ \E f \in Fibers : Fires(f)
         \/ \E t \in Threads :
              \/ \E i \in DOMAIN tasks : Takes(t, i)
              \/ \E f \in Fibers : \/ Resumes(t, f) /\ clash' = (clash \/ ~saved[f])
                                   \/ Reads(t, f) \/ Arms(t, f) \/ Marks(t, f)
                                   \/ Swaps(t, f) \/ Finishes(t, f)
<1> DEFINE Kinds ==
         \/ Rests \/ \E f \in Fibers : Fires(f)
         \/ \E t \in Threads :
              \/ \E i \in DOMAIN tasks : Takes(t, i)
              \/ \E f \in Fibers : \/ Resumes(t, f) /\ clash' = (clash \/ ~saved[f])
                                   \/ Reads(t, f) \/ Arms(t, f) \/ Marks(t, f)
                                   \/ Swaps(t, f) \/ Finishes(t, f)
<1> HIDE DEF Kinds
<1>a. Away \ Holding = {"scan", "idle", "stop", "oneshot", "epoll", "exited"}
  BY DEF Away, Holding
<1>b. ASSUME NEW t \in Threads, worker[t].pc \in Holding
      PROVE  worker[t].f \in Fibers
  BY <1>b DEF FiberTypes
<1>c. ASSUME NEW f \in Fibers, Abort(f), worker' = worker \/ \E t \in Threads : Turns(t),
             UNCHANGED <<state, saved, io>>
      PROVE  Kinds
  BY <1>c DEF Kinds, Abort, Abortable, Fire, Fires, Rests, fdVars
<1>1. ASSUME NEW t \in Threads, Worker(t)
      PROVE  Kinds
  <2>1. CASE Scan(t)
    <3>1. CASE \E i \in DOMAIN tasks : Ready(i)
      <4>1. Takes(t, First)
        BY <2>1, <3>1, FirstIsReady DEF Scan, At, Hold, Takes, Ready, FiberTypes, fdVars
      <4> QED
        BY <3>1, <4>1, FirstIsReady DEF Kinds, FiberTypes
    <3>2. CASE ~\E i \in DOMAIN tasks : Ready(i)
      <4>1. Turns(t)
        BY <2>1, <3>2, <1>a, Turning DEF Scan, At, Away
      <4> QED
        BY <2>1, <3>2, <4>1 DEF Kinds, Scan, Rests, fdVars
    <3> QED
      BY <3>1, <3>2
  <2>2. CASE Resume(t)
    <3>1. worker[t].f \in Fibers
      BY <2>2, <1>b DEF Resume, At, Holding
    <3>2. Resumes(t, worker[t].f) /\ clash' = (clash \/ ~saved[worker[t].f])
      BY <2>2 DEF Resume, At, Hold, Resumes, fdVars
    <3> QED
      BY <3>1, <3>2 DEF Kinds
  <2>3. CASE YieldMark(t)
    <3>1. worker[t].f \in Fibers
      BY <2>3, <1>b DEF YieldMark, At, Holding
    <3>2. Marks(t, worker[t].f)
      BY <2>3 DEF YieldMark, At, Marks, Runs, fdVars
    <3> QED
      BY <3>1, <3>2 DEF Kinds
  <2>4. CASE YieldSwap(t)
    <3>1. worker[t].f \in Fibers
      BY <2>4, <1>b DEF YieldSwap, At, Holding
    <3>2. Swaps(t, worker[t].f)
      BY <2>4 DEF YieldSwap, At, Go, Swaps, LeavesCpu, Runs, fdVars
    <3> QED
      BY <3>1, <3>2 DEF Kinds
  <2>5. CASE Finish(t)
    <3>1. worker[t].f \in Fibers
      BY <2>5, <1>b DEF Finish, At, Holding
    <3>2. Finishes(t, worker[t].f)
      BY <2>5 DEF Finish, At, Go, Finishes, LeavesCpu, fdVars
    <3> QED
      BY <3>1, <3>2 DEF Kinds
  <2>6. CASE LookIdle(t) \/ LookPending(t) \/ LookTimers(t) \/ EpollTimeout(t)
    <3>1. Turns(t)
      BY <2>6, <1>a, Turning DEF LookIdle, LookPending, LookTimers, EpollTimeout, At, Away
    <3> QED
      BY <2>6, <3>1 DEF Kinds, LookIdle, LookPending, LookTimers, EpollTimeout, Rests, fdVars
  <2>7. CASE SysCall(t) \/ Woken(t)
    <3>1. worker[t].f \in Fibers
      BY <2>7, <1>b DEF SysCall, Woken, Running, At, Holding
    <3>2. Reads(t, worker[t].f)
      BY <2>7 DEF SysCall, Woken, Running, At, IoGo, Returns, Reads, Runs, fdVars
    <3> QED
      BY <3>1, <3>2 DEF Kinds
  <2>8. CASE armEvent(t)
    <3>1. worker[t].f \in Fibers
      BY <2>8, <1>b DEF armEvent, Running, At, Holding
    <3>2. Reads(t, worker[t].f) \/ Arms(t, worker[t].f)
      BY <2>8 DEF armEvent, Running, At, IoGo, Returns, Reads, Arms, Runs
    <3> QED
      BY <3>1, <3>2 DEF Kinds
  <2>9. CASE EpollEvent(t)
    <3>1. Turns(t)
      BY <2>9, <1>a, Turning DEF EpollEvent, At, Away
    <3>2. PICK f \in events : Fire(f)
      BY <2>9 DEF EpollEvent
    <3>3. f \in Fibers
      BY DEF FiberTypes
    <3>4. Fires(f)
      BY <2>9, <3>1, <3>2 DEF EpollEvent, Fires, Fire
    <3> QED
      BY <3>3, <3>4 DEF Kinds
  <2>10. CASE TimerExpires(t)
    <3>1. PICK f \in timers : Hold(t, "expired", f)
      BY <2>10 DEF TimerExpires
    <3>2. Turns(t)
      BY <2>10, <3>1, Turning DEF TimerExpires, At, Away, FiberTypes
    <3> QED
      BY <2>10, <3>2 DEF Kinds, TimerExpires, Rests, fdVars
  <2>11. CASE TimerAborts(t)
    <3>1. worker[t].f \in Fibers
      BY <2>11, <1>b DEF TimerAborts, At, Holding
    <3>2. Hold(t, "mark", worker[t].f) \/ Go(t, "scan")
      BY <2>11 DEF TimerAborts
    <3>3. Turns(t)
      BY <2>11, <3>1, <3>2, <1>a, Turning DEF TimerAborts, At, Away
    <3>4. CASE InRead(worker[t].f)
      BY <2>11, <3>1, <3>3, <3>4, <1>c DEF TimerAborts
    <3>5. CASE ~InRead(worker[t].f)
      BY <2>11, <3>3, <3>5 DEF Kinds, TimerAborts, Rests, fdVars
    <3> QED
      BY <3>4, <3>5
  <2>12. CASE TimerMarks(t)
    <3>1. Turns(t)
      BY <2>12, <1>a, Turning DEF TimerMarks, At, Away
    <3> QED
      BY <2>12, <3>1 DEF Kinds, TimerMarks, Rests, fdVars
  <2> QED
    BY <1>1, <2>1, <2>2, <2>3, <2>4, <2>5, <2>6, <2>7, <2>8, <2>9, <2>10, <2>11, <2>12 DEF Worker
<1>2. ASSUME NEW f \in Fibers, Close(f) \/ Send(f)
      PROVE  Kinds
  <2>1. CASE CloseRead(f) \/ CloseFd(f) \/ Send(f)
    BY <2>1 DEF Kinds, CloseRead, CloseFd, Send, Rests, fdVars
  <2>2. CASE CloseAbort(f)
    BY <2>2, <1>c DEF CloseAbort
  <2> QED
    BY <1>2, <2>1, <2>2 DEF Close
<1>3. ASSUME StopRuntime
      PROVE  Kinds
  BY <1>3 DEF Kinds, StopRuntime, Rests, fdVars
<1>4. Kinds
  BY <1>1, <1>2, <1>3 DEF Next
<1> QED
  BY <1>4 DEF Kinds

----------------------------------------------------------------------------
(* A step keeps the timers those of coroutines.                            *)
LEMMA TimersStay ==
  ASSUME FiberTypes, Next
  PROVE  timers' \subseteq Fibers
<1>1. ASSUME NEW t \in Threads, Worker(t)
      PROVE  timers' \subseteq Fibers
  <2>1. CASE SysCall(t)
    <3>1. worker[t].f \in Fibers
      BY <2>1 DEF SysCall, Running, At, FiberTypes, Holding
    <3>2. timers' \subseteq timers \cup {worker[t].f}
      BY <2>1 DEF SysCall, timeVars
    <3> QED
      BY <3>1, <3>2 DEF FiberTypes
  <2>2. CASE ~SysCall(t)
    <3>1. timers' \subseteq timers
      BY <1>1, <2>2 DEF Worker, Scan, Resume, YieldMark, YieldSwap, Finish, LookIdle, LookPending,
                LookTimers,
         armEvent, Woken, EpollEvent, EpollTimeout, TimerExpires, TimerAborts, TimerMarks, timeVars
    <3> QED
      BY <3>1 DEF FiberTypes
  <2> QED
    BY <2>1, <2>2
<1>2. ASSUME NEW f \in Fibers, Close(f) \/ Send(f)
      PROVE  timers' \subseteq Fibers
  BY <1>2 DEF Close, CloseRead, CloseAbort, CloseFd, Send, timeVars, FiberTypes
<1>3. ASSUME StopRuntime
      PROVE  timers' \subseteq Fibers
  BY <1>3 DEF StopRuntime, timeVars, FiberTypes
<1> QED
  BY <1>1, <1>2, <1>3 DEF Next

(* What a worker holds changes for this worker alone.                      *)
LEMMA HolderChanges ==
  ASSUME worker \in WorkerStates, NEW t \in Threads, NEW pc \in Holding \cup Away,
         NEW f \in Fibers \cup {"none"}, worker' = [worker EXCEPT ![t] = [pc |-> pc, f |-> f]]
  PROVE  /\ worker' \in WorkerStates /\ worker'[t].pc = pc /\ worker'[t].f = f
         /\ \A u \in Threads \ {t} : worker'[u] = worker[u]
<1>1. [pc |-> pc, f |-> f] \in [pc : Holding \cup Away, f : Fibers \cup {"none"}]
  OBVIOUS
<1>2. worker' \in WorkerStates /\ worker'[t] = [pc |-> pc, f |-> f]
  BY <1>1 DEF WorkerStates
<1>3. \A u \in Threads \ {t} : worker'[u] = worker[u]
  BY DEF WorkerStates
<1> QED
  BY <1>2, <1>3

(* A step keeps the types.                                                 *)
LEMMA FiberTypesStay ==
  ASSUME FiberTypes, IsInjective(tasks), Next
  PROVE  FiberTypes'
<1>0. /\ tasks \in Seq(Fibers) /\ worker \in WorkerStates /\ io \in [Fibers -> IoPcs]
      /\ state \in [Fibers -> {"ACTIVE", "SUSPENDED", "FINISHED"}] /\ events \subseteq Fibers
      /\ \A t \in Threads : worker[t].pc \in Holding => worker[t].f \in Fibers
  BY DEF FiberTypes
<1>1. timers' \subseteq Fibers
  BY TimersStay
<1> DEFINE Tasks == tasks' \in Seq(Fibers)
           States == state' \in [Fibers -> {"ACTIVE", "SUSPENDED", "FINISHED"}]
           Ios == io' \in [Fibers -> IoPcs]
           Events == events' \subseteq Fibers
           Workers == /\ worker' \in WorkerStates
                      /\ \A t \in Threads : worker'[t].pc \in Holding => worker'[t].f \in Fibers
<1>2. ASSUME Tasks, States, Ios, Events, Workers
      PROVE  FiberTypes'
  BY <1>1, <1>2 DEF FiberTypes
<1>3. ASSUME worker' = worker \/ \E t \in Threads : Turns(t)
      PROVE  Workers
  BY <1>0, <1>3 DEF Turns
<1> HIDE DEF Workers
<1>4. CASE Rests
  BY <1>0, <1>2, <1>3, <1>4 DEF Rests
<1>5. ASSUME NEW f \in Fibers, Fires(f)
      PROVE  FiberTypes'
  <2>1. Tasks
    BY <1>0, <1>5 DEF Fires
  <2> QED
    BY <1>0, <1>2, <1>3, <1>5, <2>1 DEF Fires
<1>6. ASSUME NEW t \in Threads, NEW i \in DOMAIN tasks, Takes(t, i)
      PROVE  FiberTypes'
  <2>1. Tasks
    BY <1>0, <1>6, RemovedOnce DEF Takes
  <2>2. tasks[i] \in Fibers
    BY <1>0
  <2>3. /\ worker' \in WorkerStates /\ worker'[t].f \in Fibers
        /\ \A u \in Threads \ {t} : worker'[u] = worker[u]
    <3>1. "resume" \in Holding \cup Away
      BY DEF Holding
    <3> QED
      BY <1>0, <1>6, <2>2, <3>1, HolderChanges DEF Takes
  <2>4. Workers
    BY <1>0, <2>3 DEF Workers
  <2> QED
    BY <1>0, <1>2, <1>6, <2>1, <2>4 DEF Takes
<1>7. ASSUME NEW t \in Threads, NEW f \in Fibers, Resumes(t, f)
      PROVE  FiberTypes'
  <2>0. /\ worker' \in WorkerStates /\ worker'[t].f \in Fibers
        /\ \A u \in Threads \ {t} : worker'[u] = worker[u]
    <3>1. "run" \in Holding \cup Away
      BY DEF Holding
    <3> QED
      BY <1>0, <1>7, <3>1, HolderChanges DEF Resumes
  <2>1. Workers
    BY <1>0, <2>0 DEF Workers
  <2> QED
    BY <1>0, <1>2, <1>7, <2>1 DEF Resumes
<1>8. ASSUME NEW t \in Threads, NEW f \in Fibers, Reads(t, f) \/ Arms(t, f) \/ Marks(t, f)
      PROVE  FiberTypes'
  <2>1. Workers
    BY <1>3, <1>8 DEF Reads, Arms, Marks
  <2>2. Ios
    BY <1>0, <1>8 DEF Reads, Arms, Marks, Runs, IoPcs
  <2> QED
    BY <1>0, <1>2, <1>8, <2>1, <2>2 DEF Reads, Arms, Marks
<1>9. ASSUME NEW t \in Threads, NEW f \in Fibers, Swaps(t, f) \/ Finishes(t, f)
      PROVE  FiberTypes'
  <2>1. Workers
    BY <1>0, <1>9, HolderChanges DEF Swaps, Finishes, LeavesCpu, Holding, Away, Workers
  <2>2. Ios
    BY <1>0, <1>9 DEF Swaps, Finishes, Runs, IoPcs
  <2> QED
    BY <1>0, <1>2, <1>9, <2>1, <2>2 DEF Swaps, Finishes
<1> QED
  BY FiberKinds, <1>4, <1>5, <1>6, <1>7, <1>8, <1>9

(* A coroutine is queued by what takes its event, so it is queued once.    *)
LEMMA QueuedOnceStays ==
  ASSUME FiberTypes, QueuedOnce, FibersSound, Next
  PROVE  QueuedOnce'
<1>0. tasks \in Seq(Fibers) /\ IsInjective(tasks) /\ events \subseteq Fibers
      /\ \A f \in events : ~InSeq(f, tasks)
  BY DEF FiberTypes, QueuedOnce
<1>1. CASE Rests
  BY <1>0, <1>1 DEF Rests, QueuedOnce
<1>2. ASSUME NEW f \in Fibers, Fires(f)
      PROVE  QueuedOnce'
  BY <1>0, <1>2, AppendedOnce DEF Fires, QueuedOnce
<1>3. ASSUME NEW t \in Threads, NEW i \in DOMAIN tasks, Takes(t, i)
      PROVE  QueuedOnce'
  BY <1>0, <1>3, RemovedOnce DEF Takes, QueuedOnce
<1>4. ASSUME NEW t \in Threads, NEW f \in Fibers, Arms(t, f)
      PROVE  QueuedOnce'
  <2>1. NoWake(f)
    BY <1>4 DEF Arms, Runs, FibersSound, FiberSound
  <2> QED
    BY <1>0, <1>4, <2>1 DEF Arms, QueuedOnce, NoWake
<1>5. ASSUME NEW t \in Threads, NEW f \in Fibers,
             Resumes(t, f) \/ Reads(t, f) \/ Marks(t, f) \/ Swaps(t, f) \/ Finishes(t, f)
      PROVE  QueuedOnce'
  BY <1>0, <1>5 DEF Resumes, Reads, Marks, Swaps, Finishes, QueuedOnce
<1> QED
  BY FiberKinds, <1>1, <1>2, <1>3, <1>4, <1>5

(* A worker that turns to something else does not change who holds a       *)
(* coroutine.                                                              *)
LEMMA SameHolders ==
  ASSUME worker \in WorkerStates, worker' = worker \/ \E t \in Threads : Turns(t)
  PROVE  /\ \A f \in Fibers : Resuming(f)' <=> Resuming(f)
         /\ \A f \in Fibers : OnCpu(f)' <=> OnCpu(f)
         /\ OneHolder => OneHolder'
<1>1. CASE worker' = worker
  BY <1>1 DEF Resuming, OnCpu, OneHolder
<1>2. ASSUME NEW t \in Threads, Turns(t)
      PROVE  /\ \A f \in Fibers : Resuming(f)' <=> Resuming(f)
             /\ \A f \in Fibers : OnCpu(f)' <=> OnCpu(f)
             /\ OneHolder => OneHolder'
  <2>1. worker[t].pc \notin {"resume", "run"} /\ worker'[t].pc \notin {"resume", "run"}
    BY <1>2 DEF Turns, Away
  <2>2. \A u \in Threads \ {t} : worker'[u] = worker[u]
    BY <1>2 DEF Turns
  <2>3. \A f \in Fibers : (Resuming(f)' <=> Resuming(f)) /\ (OnCpu(f)' <=> OnCpu(f))
    BY <2>1, <2>2 DEF Resuming, OnCpu
  <2>4. OneHolder => OneHolder'
    BY <2>1, <2>2 DEF OneHolder
  <2> QED
    BY <2>3, <2>4
<1> QED
  BY <1>1, <1>2

(* Who holds a coroutine after a worker takes, resumes or leaves one.      *)
LEMMA HolderSteps ==
  ASSUME FiberTypes, OneHolder, NEW t \in Threads
  PROVE  /\ \A f \in Fibers :
              /\ worker[t].pc = "scan" /\ ~Resuming(f)
              /\ worker' = [worker EXCEPT ![t] = [pc |-> "resume", f |-> f]]
              => /\ \A g \in Fibers : Resuming(g)' <=> Resuming(g) \/ g = f
                 /\ \A g \in Fibers : OnCpu(g)' <=> OnCpu(g)
                 /\ OneHolder'
         /\ \A f \in Fibers :
              /\ worker[t].pc = "resume" /\ worker[t].f = f /\ ~OnCpu(f)
              /\ worker' = [worker EXCEPT ![t] = [pc |-> "run", f |-> f]]
              => /\ \A g \in Fibers : Resuming(g)' <=> Resuming(g) /\ g # f
                 /\ \A g \in Fibers : OnCpu(g)' <=> OnCpu(g) \/ g = f
                 /\ OneHolder'
         /\ \A f \in Fibers :
              /\ worker[t].pc = "run" /\ worker[t].f = f /\ LeavesCpu(t)
              => /\ \A g \in Fibers : Resuming(g)' <=> Resuming(g)
                 /\ \A g \in Fibers : OnCpu(g)' <=> OnCpu(g) /\ g # f
                 /\ OneHolder'
<1>0. worker \in WorkerStates /\ {"resume", "run", "scan"} \subseteq Holding \cup Away
  BY DEF FiberTypes, Holding, Away
<1>1. ASSUME NEW f \in Fibers, worker[t].pc = "scan", ~Resuming(f),
             worker' = [worker EXCEPT ![t] = [pc |-> "resume", f |-> f]]
      PROVE  /\ \A g \in Fibers : Resuming(g)' <=> Resuming(g) \/ g = f
             /\ \A g \in Fibers : OnCpu(g)' <=> OnCpu(g)
             /\ OneHolder'
  <2>1. /\ worker'[t].pc = "resume" /\ worker'[t].f = f
        /\ \A u \in Threads \ {t} : worker'[u] = worker[u]
    BY <1>0, <1>1, HolderChanges
  <2> QED
    BY <1>1, <2>1 DEF Resuming, OnCpu, OneHolder
<1>2. ASSUME NEW f \in Fibers, worker[t].pc = "resume", worker[t].f = f, ~OnCpu(f),
             worker' = [worker EXCEPT ![t] = [pc |-> "run", f |-> f]]
      PROVE  /\ \A g \in Fibers : Resuming(g)' <=> Resuming(g) /\ g # f
             /\ \A g \in Fibers : OnCpu(g)' <=> OnCpu(g) \/ g = f
             /\ OneHolder'
  <2>1. /\ worker'[t].pc = "run" /\ worker'[t].f = f
        /\ \A u \in Threads \ {t} : worker'[u] = worker[u]
    BY <1>0, <1>2, HolderChanges
  <2>2. \A u \in Threads : worker[u].pc = "resume" /\ worker[u].f = f => u = t
    BY <1>2 DEF OneHolder
  <2> QED
    BY <1>2, <2>1, <2>2 DEF Resuming, OnCpu, OneHolder
<1>3. ASSUME NEW f \in Fibers, worker[t].pc = "run", worker[t].f = f, LeavesCpu(t)
      PROVE  /\ \A g \in Fibers : Resuming(g)' <=> Resuming(g)
             /\ \A g \in Fibers : OnCpu(g)' <=> OnCpu(g) /\ g # f
             /\ OneHolder'
  <2>1. worker'[t].pc = "scan" /\ \A u \in Threads \ {t} : worker'[u] = worker[u]
    BY <1>0, <1>3, HolderChanges DEF LeavesCpu
  <2>2. \A u \in Threads : worker[u].pc = "run" /\ worker[u].f = f => u = t
    BY <1>3 DEF OneHolder
  <2> QED
    BY <1>3, <2>1, <2>2 DEF Resuming, OnCpu, OneHolder
<1> QED
  BY <1>1, <1>2, <1>3

(* FiberSound after a step, in terms of the primed state.                  *)
LEMMA FiberViews ==
  ASSUME NEW f \in Fibers
  PROVE  /\ FiberSound(f)' <=>
              \/ OnCpu(f)' /\ NoWake(f)' /\ state'[f] = "ACTIVE"
                   /\ io'[f] \in {"call", "arm", "return", "woken"}
              \/ OnCpu(f)' /\ OneWake(f)' /\ ~Resuming(f)' /\ state'[f] = "ACTIVE" /\ io'[f] = "yield"
              \/ OnCpu(f)' /\ OneWake(f)' /\ state'[f] = "SUSPENDED" /\ io'[f] = "swap"
              \/ /\ ~OnCpu(f)' /\ OneWake(f)' /\ state'[f] = "SUSPENDED" /\ io'[f] \in {"call", "woken"}
                 /\ io'[f] = "call" => f \notin events'
              \/ ~OnCpu(f)' /\ NoWake(f)' /\ state'[f] = "FINISHED" /\ io'[f] = "return"
         /\ NoWake(f)' <=> ~InSeq(f, tasks') /\ f \notin events' /\ ~Resuming(f)'
         /\ OneWake(f)' <=>
              /\ InSeq(f, tasks') \/ f \in events' \/ Resuming(f)'
              /\ ~(InSeq(f, tasks') /\ f \in events')
              /\ ~(InSeq(f, tasks') /\ Resuming(f)')
              /\ ~(f \in events' /\ Resuming(f)')
BY DEF FiberSound, NoWake, OneWake, InSeq

(* A step that does not resume an unsaved context keeps all coroutines     *)
(* sound.                                                                  *)
LEMMA FibersSoundStay ==
  ASSUME FiberTypes, QueuedOnce, FibersSound, Next, ~clash'
  PROVE  FibersSound'
<1>0. /\ tasks \in Seq(Fibers) /\ worker \in WorkerStates /\ io \in [Fibers -> IoPcs]
      /\ state \in [Fibers -> {"ACTIVE", "SUSPENDED", "FINISHED"}] /\ events \subseteq Fibers
      /\ OneHolder /\ IsInjective(tasks) /\ \A g \in Fibers : FiberSound(g)
  BY DEF FiberTypes, QueuedOnce, FibersSound
<1>a. saved \in [Fibers -> BOOLEAN] /\ \A g \in Fibers : OnCpu(g) => ~saved[g]
  BY DEF FibersSound, Unsaved
<1>b. ASSUME saved' = saved, \A g \in Fibers : OnCpu(g)' => OnCpu(g)
      PROVE  Unsaved'
  BY <1>a, <1>b DEF Unsaved
<1> DEFINE Sound == (\A g \in Fibers : FiberSound(g)') /\ OneHolder' /\ Unsaved'
<1>1. ASSUME Rests
      PROVE  Sound
  <2>1. Unsaved'
    BY <1>0, <1>1, <1>b, SameHolders DEF Rests
  <2> QED
    BY <1>0, <1>1, <2>1, SameHolders, FiberViews DEF Rests, FiberSound, NoWake, OneWake
<1>2. ASSUME NEW f \in Fibers, Fires(f)
      PROVE  Sound
  <2>1. \A g \in Fibers : InSeq(g, tasks') <=> InSeq(g, tasks) \/ g = f
    BY <1>0, <1>2, AppendedOnce DEF Fires
  <2>2. \A g \in Fibers : g \in events' <=> g \in events /\ g # f
    BY <1>2 DEF Fires
  <2>3. f \in events /\ state' = state /\ io' = io
    BY <1>2 DEF Fires
  <2>4. (\A g \in Fibers : (Resuming(g)' <=> Resuming(g)) /\ (OnCpu(g)' <=> OnCpu(g))) /\ OneHolder'
    BY <1>0, <1>2, SameHolders DEF Fires
  <2>5. Unsaved'
    BY <1>2, <1>b, <2>4 DEF Fires
  <2> QED
    BY <1>0, <2>1, <2>2, <2>3, <2>4, <2>5, FiberViews DEF FiberSound, NoWake, OneWake
<1>3. ASSUME NEW t \in Threads, NEW i \in DOMAIN tasks, Takes(t, i)
      PROVE  Sound
  <2>0. PICK f \in Fibers : f = tasks[i]
    BY <1>0
  <2>1. \A g \in Fibers : InSeq(g, tasks') <=> InSeq(g, tasks) /\ g # f
    BY <1>0, <1>3, <2>0, RemovedOnce DEF Takes
  <2>2. InSeq(f, tasks) /\ state[f] # "ACTIVE" /\ state' = state /\ io' = io /\ events' = events
    BY <1>3, <2>0 DEF Takes, InSeq
  <2>3. ~Resuming(f)
    BY <1>0, <2>2 DEF FiberSound, NoWake, OneWake
  <2>4. /\ \A g \in Fibers : Resuming(g)' <=> Resuming(g) \/ g = f
        /\ \A g \in Fibers : OnCpu(g)' <=> OnCpu(g)
        /\ OneHolder'
    BY <1>0, <1>3, <2>0, <2>3, HolderSteps DEF Takes
  <2>5. Unsaved'
    BY <1>3, <1>b, <2>4 DEF Takes
  <2> QED
    BY <1>0, <2>1, <2>2, <2>3, <2>4, <2>5, FiberViews DEF FiberSound, NoWake, OneWake
<1>4. ASSUME NEW t \in Threads, NEW f \in Fibers, Resumes(t, f), clash' = (clash \/ ~saved[f])
      PROVE  Sound
  <2>1. ~OnCpu(f)
    BY <1>4 DEF FibersSound, Unsaved
  <2>2. Resuming(f)
    BY <1>4 DEF Resumes, Resuming
  <2>3. /\ \A g \in Fibers : Resuming(g)' <=> Resuming(g) /\ g # f
        /\ \A g \in Fibers : OnCpu(g)' <=> OnCpu(g) \/ g = f
        /\ OneHolder'
    BY <1>0, <1>4, <2>1, HolderSteps DEF Resumes
  <2>4. /\ tasks' = tasks /\ io' = io /\ events' = events /\ state'[f] = "ACTIVE"
        /\ \A g \in Fibers \ {f} : state'[g] = state[g]
    BY <1>0, <1>4 DEF Resumes
  <2>5. Unsaved'
    <3>1. saved' = [saved EXCEPT ![f] = FALSE]
      BY <1>4 DEF Resumes
    <3>2. saved' \in [Fibers -> BOOLEAN]
      BY <1>a, <3>1
    <3>3. ~saved'[f] /\ \A g \in Fibers \ {f} : saved'[g] = saved[g]
      BY <1>a, <3>1
    <3> QED
      BY <1>a, <2>3, <3>2, <3>3 DEF Unsaved
  <2> QED
    BY <1>0, <2>1, <2>2, <2>3, <2>4, <2>5, FiberViews DEF FiberSound, NoWake, OneWake
<1>5. ASSUME NEW t \in Threads, NEW f \in Fibers, Reads(t, f) \/ Arms(t, f) \/ Marks(t, f)
      PROVE  Sound
  <2>1. OnCpu(f) /\ tasks' = tasks /\ worker' = worker
    BY <1>5 DEF Reads, Arms, Marks, Runs, OnCpu
  <2>2. (\A g \in Fibers : (Resuming(g)' <=> Resuming(g)) /\ (OnCpu(g)' <=> OnCpu(g))) /\ OneHolder'
    BY <1>0, <2>1, SameHolders
  <2>3. \A g \in Fibers \ {f} :
          io'[g] = io[g] /\ state'[g] = state[g] /\ (g \in events' <=> g \in events)
    BY <1>0, <1>5 DEF Reads, Arms, Marks, Runs
  <2>4. \/ /\ io[f] \in {"call", "arm", "woken"} /\ io'[f] \in {"call", "arm", "return"}
           /\ state'[f] = state[f] /\ events' = events
        \/ io[f] = "arm" /\ io'[f] = "yield" /\ state'[f] = state[f] /\ f \in events'
        \/ io[f] = "yield" /\ io'[f] = "swap" /\ state'[f] = "SUSPENDED" /\ events' = events
    BY <1>0, <1>5 DEF Reads, Arms, Marks, Runs
  <2>5. Unsaved'
    BY <1>5, <1>b, <2>2 DEF Reads, Arms, Marks
  <2> QED
    BY <1>0, <2>1, <2>2, <2>3, <2>4, <2>5, FiberViews DEF FiberSound, NoWake, OneWake
<1>6. ASSUME NEW t \in Threads, NEW f \in Fibers, Swaps(t, f) \/ Finishes(t, f)
      PROVE  Sound
  <2>1. OnCpu(f) /\ tasks' = tasks /\ events' = events
    BY <1>6 DEF Swaps, Finishes, Runs, OnCpu
  <2>2. /\ \A g \in Fibers : Resuming(g)' <=> Resuming(g)
        /\ \A g \in Fibers : OnCpu(g)' <=> OnCpu(g) /\ g # f
        /\ OneHolder'
    BY <1>0, <1>6, HolderSteps DEF Swaps, Finishes, Runs
  <2>3. \A g \in Fibers \ {f} : io'[g] = io[g] /\ state'[g] = state[g]
    BY <1>0, <1>6 DEF Swaps, Finishes, Runs
  <2>4. \/ io[f] = "swap" /\ io'[f] = "woken" /\ state'[f] = state[f]
        \/ io[f] = "return" /\ io'[f] = "return" /\ state'[f] = "FINISHED"
    BY <1>0, <1>6 DEF Swaps, Finishes, Runs
  <2>5. Unsaved'
    <3>1. saved' = saved \/ saved' = [saved EXCEPT ![f] = TRUE]
      BY <1>6 DEF Swaps, Finishes
    <3>2. saved' \in [Fibers -> BOOLEAN]
      BY <1>a, <3>1
    <3>3. \A g \in Fibers \ {f} : saved'[g] = saved[g]
      BY <1>a, <3>1
    <3> QED
      BY <1>a, <2>2, <3>2, <3>3 DEF Unsaved
  <2> QED
    BY <1>0, <2>1, <2>2, <2>3, <2>4, <2>5, FiberViews DEF FiberSound, NoWake, OneWake
<1> HIDE DEF Sound
<1>7. Sound
  BY FiberKinds, <1>1, <1>2, <1>3, <1>4, <1>5, <1>6
<1> QED
  BY <1>7 DEF Sound, FibersSound

----------------------------------------------------------------------------
(* The time-out of f has moved its cancel generation, or is about to be    *)
(* reported.                                                               *)
Moved(f) ==
  \/ f \in cancelled \/ outcome[f] = "ETIMEDOUT"
  \/ \E t \in Threads : worker[t].pc = "mark" /\ worker[t].f = f

(* do_io's copy of the cancel generation is never ahead, is up to date     *)
(* when the event is armed, and is out of date once a time-out came.       *)
SampleSound(f) ==
  /\ sample[f] <= gen[f]
  /\ io[f] \in {"call", "arm"} => sample[f] = gen[f]
  /\ Moved(f) => sample[f] # gen[f]

(* All copies are sound.                                                   *)
SamplesSound == CounterTypes /\ \A f \in Fibers : SampleSound(f)

(* A step keeps the copies of the cancel generation sound.                 *)
LEMMA SamplesStay ==
  ASSUME FiberTypes, FibersSound, SamplesSound, Next
  PROVE  SamplesSound'
<1>0. /\ worker \in WorkerStates /\ io \in [Fibers -> IoPcs] /\ gen \in [Fibers -> Nat]
      /\ sample \in [Fibers -> Nat] /\ events \subseteq Fibers
      /\ outcome \in [Fibers -> {"none", "data", "EBADF", "ECANCELED", "ETIMEDOUT"}]
      /\ \A t \in Threads : worker[t].pc \in Holding => worker[t].f \in Fibers
  BY DEF FiberTypes, SamplesSound, CounterTypes
<1>a. \A f \in Fibers : SampleSound(f)
  BY DEF SamplesSound
<1>b. \A f \in events : io[f] \in {"yield", "swap", "woken"}
  BY <1>0 DEF FibersSound, FiberSound, NoWake
<1>c. ASSUME CounterTypes', \A g \in Fibers : SampleSound(g)'
      PROVE  SamplesSound'
  BY <1>c DEF SamplesSound
<1>d. ASSUME NEW g \in Fibers, sample'[g] = sample[g], gen'[g] = gen[g], io'[g] = io[g],
             Moved(g)' => Moved(g)
      PROVE  SampleSound(g)'
  BY <1>a, <1>d DEF SampleSound
<1>e. ASSUME UNCHANGED <<sample, gen, io, outcome, cancelled>>,
             \A t \in Threads : worker'[t].pc = "mark" => worker'[t] = worker[t]
      PROVE  SamplesSound'
  <2>1. CounterTypes'
    BY <1>0, <1>e DEF CounterTypes
  <2>2. \A g \in Fibers : Moved(g)' => Moved(g)
    BY <1>e DEF Moved
  <2> QED
    BY <1>c, <1>d, <1>e, <2>1, <2>2
<1>f. ASSUME NEW f \in Fibers, Abort(f), UNCHANGED <<sample, io, outcome, cancelled>>,
             \/ \A t \in Threads : worker'[t].pc = "mark" => worker'[t] = worker[t]
             \/ /\ Abortable(f)
                /\ \A t \in Threads : worker'[t].pc = "mark" => worker'[t] = worker[t] \/ worker'[t].f = f
      PROVE  SamplesSound'
  <2>1. CASE ~Abortable(f)
    BY <1>e, <1>f, <2>1 DEF Abort, fdVars
  <2>2. CASE Abortable(f)
    <3>1. gen' = [gen EXCEPT ![f] = @ + 1] /\ f \in events
      BY <1>f, <2>2 DEF Abort, Abortable
    <3>2. gen' \in [Fibers -> Nat] /\ gen'[f] = gen[f] + 1 /\ \A g \in Fibers \ {f} : gen'[g] = gen[g]
      BY <1>0, <3>1
    <3>3. CounterTypes'
      BY <1>0, <1>f, <3>2 DEF CounterTypes
    <3>4. SampleSound(f)'
      <4>1. sample[f] \in Nat /\ gen[f] \in Nat /\ sample[f] <= gen[f]
        BY <1>0, <1>a DEF SampleSound
      <4>2. io'[f] \notin {"call", "arm"} /\ sample'[f] = sample[f]
        BY <1>b, <1>f, <3>1
      <4> QED
        BY <3>2, <4>1, <4>2 DEF SampleSound
    <3>5. ASSUME NEW g \in Fibers \ {f}
          PROVE  SampleSound(g)'
      <4>1. Moved(g)' => Moved(g)
        BY <1>f DEF Moved
      <4> QED
        BY <1>d, <1>f, <3>2, <4>1
    <3> QED
      BY <1>c, <3>3, <3>4, <3>5
  <2> QED
    BY <2>1, <2>2
<1>g. ASSUME NEW t \in Threads, NEW pc \in {"scan", "idle", "stop", "oneshot", "epoll", "exited"}, Go(t, pc)
      PROVE  \A u \in Threads : worker'[u].pc = "mark" => worker'[u] = worker[u]
  <2>1. worker'[t].pc = pc /\ \A u \in Threads \ {t} : worker'[u] = worker[u]
    BY <1>0, <1>g, HolderChanges DEF Go, Away
  <2> QED
    BY <2>1
<1>h. ASSUME NEW t \in Threads, NEW pc \in {"resume", "run", "expired"}, NEW f \in Fibers, Hold(t, pc, f)
      PROVE  \A u \in Threads : worker'[u].pc = "mark" => worker'[u] = worker[u]
  <2>1. worker'[t].pc = pc /\ \A u \in Threads \ {t} : worker'[u] = worker[u]
    BY <1>0, <1>h, HolderChanges DEF Hold, Holding
  <2> QED
    BY <2>1
<1>i. ASSUME NEW f \in Fibers, UNCHANGED <<gen, cancelled>>, CounterTypes', SampleSound(f)',
             \A t \in Threads : worker'[t].pc = "mark" => worker'[t] = worker[t],
             \A g \in Fibers \ {f} : sample'[g] = sample[g] /\ io'[g] = io[g] /\ outcome'[g] = outcome[g]
      PROVE  SamplesSound'
  <2>1. ASSUME NEW g \in Fibers \ {f}
        PROVE  SampleSound(g)'
    <3>1. Moved(g)' => Moved(g)
      BY <1>i DEF Moved
    <3> QED
      BY <1>d, <1>i, <3>1
  <2> QED
    BY <1>c, <1>i, <2>1
<1>j. ASSUME NEW f \in Fibers, NEW pc \in IoPcs \ {"call", "arm"}, io' = [io EXCEPT ![f] = pc],
             UNCHANGED <<gen, cancelled, sample>>,
             \/ outcome' = outcome
             \/ \E what \in {"data", "EBADF", "ECANCELED"} : outcome' = [outcome EXCEPT ![f] = what]
             \/ f \in cancelled /\ outcome' = [outcome EXCEPT ![f] = "ETIMEDOUT"],
             \A t \in Threads : worker'[t].pc = "mark" => worker'[t] = worker[t]
      PROVE  SamplesSound'
  <2>1. CounterTypes'
    BY <1>0, <1>j DEF CounterTypes
  <2>2. io'[f] = pc /\ \A g \in Fibers \ {f} : io'[g] = io[g] /\ outcome'[g] = outcome[g]
    BY <1>0, <1>j
  <2>3. outcome'[f] = outcome[f] \/ outcome'[f] # "ETIMEDOUT" \/ f \in cancelled
    BY <1>0, <1>j
  <2>4. Moved(f)' => Moved(f)
    BY <1>j, <2>3 DEF Moved
  <2>5. SampleSound(f)'
    BY <1>a, <1>j, <2>2, <2>4 DEF SampleSound
  <2> QED
    BY <1>i, <1>j, <2>1, <2>2, <2>5
<1>1. ASSUME NEW t \in Threads, Worker(t)
      PROVE  SamplesSound'
  <2>b. PICK f : f = worker[t].f
    OBVIOUS
  <2>0. worker[t].pc \in Holding => f \in Fibers
    BY <1>0, <2>b
  <2>a. \A u \in Threads : worker' = worker => (worker'[u].pc = "mark" => worker'[u] = worker[u])
    OBVIOUS
  <2>1. CASE Scan(t)
    <3>1. CASE \E i \in DOMAIN tasks : Ready(i)
      <4>1. tasks[First] \in Fibers
        BY <3>1, FirstIsReady DEF FiberTypes
      <4> QED
        BY <2>1, <3>1, <4>1, <1>e, <1>h DEF Scan, fdVars, timeVars
    <3>2. CASE ~\E i \in DOMAIN tasks : Ready(i)
      BY <2>1, <3>2, <1>e, <1>g DEF Scan, fdVars, timeVars
    <3> QED
      BY <3>1, <3>2
  <2>2. CASE Resume(t)
    <3>1. worker[t].f \in Fibers /\ Hold(t, "run", worker[t].f)
      BY <2>2, <2>0, <2>b DEF Resume, At, Holding
    <3> QED
      BY <2>2, <3>1, <1>e, <1>h DEF Resume, fdVars, timeVars
  <2>3. CASE YieldMark(t)
    <3>1. f \in Fibers /\ io' = [io EXCEPT ![f] = "swap"] /\ worker' = worker
      BY <2>3, <2>0, <2>b DEF YieldMark, At, Holding
    <3>2. UNCHANGED <<gen, cancelled, sample, outcome>>
      BY <2>3 DEF YieldMark, fdVars, timeVars
    <3> QED
      BY <3>1, <3>2, <2>a, <1>j DEF IoPcs
  <2>4. CASE YieldSwap(t)
    <3>1. f \in Fibers /\ io' = [io EXCEPT ![f] = "woken"] /\ Go(t, "scan")
      BY <2>4, <2>0, <2>b DEF YieldSwap, At, Holding
    <3>2. UNCHANGED <<gen, cancelled, sample, outcome>>
      BY <2>4 DEF YieldSwap, fdVars, timeVars
    <3>3. \A u \in Threads : worker'[u].pc = "mark" => worker'[u] = worker[u]
      BY <3>1, <1>g
    <3> QED
      BY <3>1, <3>2, <3>3, <1>j DEF IoPcs
  <2>5. CASE Finish(t) \/ LookIdle(t) \/ LookPending(t) \/ LookTimers(t) \/ EpollTimeout(t)
             \/ EpollEvent(t)
    <3>1. \E pc \in {"scan", "idle", "stop", "oneshot", "epoll", "exited"} : Go(t, pc)
      BY <2>5 DEF Finish, LookIdle, LookPending, LookTimers, EpollTimeout, EpollEvent
    <3>2. UNCHANGED <<sample, gen, io, outcome, cancelled>>
      BY <2>5 DEF Finish, LookIdle, LookPending, LookTimers, EpollTimeout, EpollEvent, fdVars, timeVars
    <3> QED
      BY <3>1, <3>2, <1>e, <1>g
  <2>6. CASE SysCall(t)
    <3>1. f \in Fibers /\ worker' = worker /\ io[f] = "call" /\ gen' = gen
      BY <2>6, <2>0, <2>b DEF SysCall, Running, At, Holding, fdVars
    <3>2. CASE \E what \in {"data", "EBADF"} : Returns(f, what) /\ sample' = sample /\ cancelled' = cancelled
      BY <3>1, <3>2, <2>a, <1>j DEF Returns, IoGo, IoPcs
    <3>3. CASE /\ sample' = [sample EXCEPT ![f] = gen[f]] /\ io' = [io EXCEPT ![f] = "arm"]
               /\ UNCHANGED <<outcome, cancelled>>
      <4>1. CounterTypes'
        BY <1>0, <3>1, <3>3 DEF CounterTypes
      <4>2. sample'[f] = gen[f] /\ \A g \in Fibers \ {f} : sample'[g] = sample[g] /\ io'[g] = io[g]
        BY <1>0, <3>1, <3>3
      <4>3. ~Moved(f)
        BY <1>a, <3>1 DEF SampleSound
      <4>4. ~Moved(f)'
        BY <3>1, <3>3, <4>3 DEF Moved
      <4>5. SampleSound(f)'
        BY <1>0, <3>1, <4>2, <4>4 DEF SampleSound
      <4> QED
        BY <1>i, <3>1, <3>3, <2>a, <4>1, <4>2, <4>5
    <3> QED
      BY <2>6, <3>2, <3>3, <2>b DEF SysCall, IoGo, timeVars
  <2>7. CASE armEvent(t)
    <3>1. f \in Fibers /\ worker' = worker /\ UNCHANGED <<gen, sample, cancelled>>
      BY <2>7, <2>0, <2>b DEF armEvent, Running, At, Holding
    <3>2. Returns(f, "EBADF") \/ (IoGo(f, "yield") /\ outcome' = outcome)
      BY <2>7, <2>b DEF armEvent
    <3> QED
      BY <3>1, <3>2, <2>a, <1>j DEF Returns, IoGo, IoPcs
  <2>8. CASE Woken(t)
    <3>1. f \in Fibers /\ worker' = worker /\ UNCHANGED <<gen, sample, cancelled>>
      BY <2>8, <2>0, <2>b DEF Woken, Running, At, Holding, fdVars
    <3>2. CASE (f \in cancelled /\ Returns(f, "ETIMEDOUT")) \/ Returns(f, "ECANCELED")
      BY <3>1, <3>2, <2>a, <1>j DEF Returns, IoGo, IoPcs
    <3>3. CASE gen[f] = sample[f] /\ IoGo(f, "call") /\ outcome' = outcome
      <4>1. CounterTypes'
        BY <1>0, <3>1, <3>3 DEF CounterTypes
      <4>2. \A g \in Fibers \ {f} : sample'[g] = sample[g] /\ io'[g] = io[g]
        BY <1>0, <3>1, <3>3 DEF IoGo
      <4>3. Moved(f)' => Moved(f)
        BY <3>1, <3>3 DEF Moved
      <4>4. SampleSound(f)'
        BY <1>a, <3>1, <3>3, <4>3 DEF SampleSound
      <4> QED
        BY <1>i, <3>1, <3>3, <2>a, <4>1, <4>2, <4>4
    <3> QED
      BY <2>8, <3>2, <3>3, <2>b DEF Woken
  <2>9. CASE TimerExpires(t)
    <3>1. PICK g \in Fibers : Hold(t, "expired", g)
      BY <2>9 DEF TimerExpires, FiberTypes
    <3> QED
      BY <2>9, <3>1, <1>e, <1>h DEF TimerExpires, fdVars
  <2>10. CASE TimerAborts(t)
    <3>1. f \in Fibers /\ UNCHANGED <<sample, io, outcome, cancelled>>
      BY <2>10, <2>0, <2>b DEF TimerAborts, At, Holding, timeVars
    <3>2. CASE ToMark(f)
      <4>1. Abort(f) /\ Abortable(f) /\ Hold(t, "mark", f)
        BY <2>10, <3>2, <2>b DEF TimerAborts, ToMark
      <4>2. worker'[t].f = f /\ \A u \in Threads \ {t} : worker'[u] = worker[u]
        BY <1>0, <3>1, <4>1, HolderChanges DEF Hold, Holding
      <4> QED
        BY <3>1, <4>1, <4>2, <1>f
    <3>3. CASE ~ToMark(f)
      <4>1. \A u \in Threads : worker'[u].pc = "mark" => worker'[u] = worker[u]
        BY <2>10, <3>3, <1>g, <2>b DEF TimerAborts
      <4>2. Abort(f) \/ UNCHANGED fdVars
        BY <2>10, <2>b DEF TimerAborts
      <4> QED
        BY <3>1, <4>1, <4>2, <1>e, <1>f DEF fdVars
    <3> QED
      BY <3>2, <3>3
  <2>11. CASE TimerMarks(t)
    <3>1. /\ f \in Fibers /\ Go(t, "scan") /\ cancelled' = cancelled \cup {f} /\ Moved(f)
          /\ UNCHANGED <<sample, gen, io, outcome>>
      BY <2>11, <2>0, <2>b DEF TimerMarks, At, Holding, fdVars, Moved
    <3>2. \A u \in Threads : worker'[u].pc = "mark" => worker'[u] = worker[u]
      BY <3>1, <1>g
    <3>3. \A g \in Fibers : Moved(g)' => Moved(g)
      BY <3>1, <3>2 DEF Moved
    <3>4. CounterTypes'
      BY <1>0, <3>1 DEF CounterTypes
    <3> QED
      BY <1>c, <1>d, <3>1, <3>3, <3>4
  <2> QED
    BY <1>1, <2>1, <2>2, <2>3, <2>4, <2>5, <2>6, <2>7, <2>8, <2>9, <2>10, <2>11 DEF Worker
<1>2. ASSUME NEW f \in Fibers, Close(f) \/ Send(f)
      PROVE  SamplesSound'
  <2>1. worker' = worker /\ UNCHANGED <<sample, io, outcome, cancelled>>
    BY <1>2 DEF Close, CloseRead, CloseAbort, CloseFd, Send, timeVars
  <2>2. Abort(f) \/ gen' = gen
    BY <1>2 DEF Close, CloseRead, CloseAbort, CloseFd, Send, fdVars
  <2> QED
    BY <2>1, <2>2, <1>e, <1>f
<1>3. ASSUME StopRuntime
      PROVE  SamplesSound'
  BY <1>3, <1>e DEF StopRuntime, fdVars, timeVars
<1> QED
  BY <1>1, <1>2, <1>3 DEF Next

----------------------------------------------------------------------------
(* A worker at one of these points has seen the queue empty and will not   *)
(* look again.                                                             *)
Gone == {"stop", "oneshot", "exited"}

(* A worker at one of these points has seen that no event is pending.      *)
Passed == {"oneshot", "exited"}

(* stop() comes after the closes, no worker leaves before it, and while    *)
(* something is queued some worker has still to look.                      *)
StopSound ==
  /\ stopping \in BOOLEAN /\ closing \in [Fibers -> {"idle", "abort", "close", "closed"}]
  /\ ~stopping => \A t \in Threads : worker[t].pc \notin Gone
  /\ stopping => \A f \in Fibers : closing[f] \in {"idle", "closed"}
  /\ tasks # <<>> => \E t \in Threads : worker[t].pc \notin Gone

(* When all workers have passed the look at the pending events, all        *)
(* coroutines are finished.                                                *)
ExitSound ==
  (\A t \in Threads : worker[t].pc \in Passed) => \A f \in Fibers : state[f] = "FINISHED"

(* The other workers stay.                                                 *)
Others(t) == \A u \in Threads \ {t} : worker'[u] = worker[u]

(* Worker t goes on.                                                       *)
Stays(t) ==
  worker'[t].pc \notin Gone /\ Others(t) /\ UNCHANGED <<stopping, closing>>

(* Worker t sees that the runtime stops and that the queue is empty.       *)
Halts(t) ==
  /\ stopping /\ tasks = <<>> /\ worker'[t].pc = "stop" /\ Others(t)
  /\ UNCHANGED <<tasks, stopping, closing>>

(* Worker t sees that nothing waits either.                                *)
Quits(t) ==
  /\ worker[t].pc = "stop" /\ worker'[t].pc = "oneshot" /\ Others(t) /\ events = {}
  /\ UNCHANGED <<tasks, state, stopping, closing>>

(* Worker t sees no timer, and leaves.                                     *)
Leaves(t) ==
  /\ worker[t].pc = "oneshot" /\ worker'[t].pc = "exited" /\ Others(t)
  /\ UNCHANGED <<tasks, state, stopping, closing>>

(* A step of the program outside the workers.                              *)
Outside ==
  /\ UNCHANGED <<worker, state>>
  /\ \/ tasks' = tasks /\ stopping' = stopping
        /\ \E f \in Fibers : CloseGo(f, "close", "closed") \/ closing' = closing
     \/ tasks' = tasks /\ stopping' = stopping /\ ~stopping
        /\ \E f \in Fibers, to \in {"abort", "close"} : CloseGo(f, "idle", to)
     \/ stopping' = stopping /\ \E f \in Fibers : CloseGo(f, "abort", "close")
     \/ /\ tasks' = tasks /\ ~stopping /\ stopping' = TRUE /\ closing' = closing
        /\ \A f \in Fibers : closing[f] \in {"idle", "closed"}

(* Every step does one of these things to the end of the workers.          *)
LEMMA StopKinds ==
  ASSUME FiberTypes, Next
  PROVE  \/ Outside \/ (worker' = worker /\ UNCHANGED <<tasks, stopping, closing, state>>)
         \/ \E t \in Threads : Stays(t) \/ Halts(t) \/ Quits(t) \/ Leaves(t)
<1> DEFINE Kinds ==
         \/ Outside \/ (worker' = worker /\ UNCHANGED <<tasks, stopping, closing, state>>)
         \/ \E t \in Threads : Stays(t) \/ Halts(t) \/ Quits(t) \/ Leaves(t)
<1> HIDE DEF Kinds
<1>0. /\ worker \in WorkerStates
      /\ \A t \in Threads : worker[t].pc \in Holding => worker[t].f \in Fibers
  BY DEF FiberTypes
<1>a. ASSUME NEW t \in Threads, NEW pc \in {"scan", "idle", "stop", "oneshot", "epoll", "exited"}, Go(t, pc)
      PROVE  worker'[t].pc = pc /\ Others(t)
  BY <1>0, <1>a, HolderChanges DEF Go, Away, Others
<1>b. ASSUME NEW t \in Threads, NEW pc \in Holding, NEW f \in Fibers, Hold(t, pc, f)
      PROVE  worker'[t].pc = pc /\ Others(t)
  BY <1>0, <1>b, HolderChanges DEF Hold, Others
<1>1. ASSUME NEW t \in Threads, Worker(t)
      PROVE  Kinds
  <2>1. CASE UNCHANGED <<stopping, closing>> /\ worker'[t].pc \notin Gone /\ Others(t)
    BY <2>1 DEF Kinds, Stays
  <2>2. CASE UNCHANGED <<stopping, closing>>
             /\ (Go(t, "scan") \/ Go(t, "idle") \/ Go(t, "epoll"))
    BY <2>1, <2>2, <1>a DEF Gone
  <2>3. CASE UNCHANGED <<stopping, closing>>
             /\ \E pc \in Holding, f \in Fibers : Hold(t, pc, f)
    BY <2>1, <2>3, <1>b DEF Gone, Holding
  <2>4. CASE worker' = worker /\ worker[t].pc = "run" /\ UNCHANGED <<stopping, closing>>
    BY <2>1, <2>4 DEF Others, Gone
  <2>5. CASE Scan(t)
    <3>1. CASE \E i \in DOMAIN tasks : Ready(i)
      <4>1. tasks[First] \in Fibers /\ "resume" \in Holding
        BY <3>1, FirstIsReady DEF FiberTypes, Holding
      <4> QED
        BY <2>3, <2>5, <3>1, <4>1 DEF Scan, outVars
    <3>2. CASE ~\E i \in DOMAIN tasks : Ready(i)
      BY <2>2, <2>5, <3>2 DEF Scan, outVars
    <3> QED
      BY <3>1, <3>2
  <2>6. CASE Resume(t)
    <3>1. worker[t].f \in Fibers /\ "run" \in Holding /\ Hold(t, "run", worker[t].f)
      BY <2>6, <1>0 DEF Resume, At, Holding
    <3> QED
      BY <2>3, <2>6, <3>1 DEF Resume, outVars
  <2>7. CASE YieldMark(t) \/ SysCall(t) \/ armEvent(t) \/ Woken(t)
    BY <2>4, <2>7 DEF YieldMark, SysCall, armEvent, Woken, Running, At, outVars
  <2>8. CASE YieldSwap(t) \/ Finish(t) \/ EpollEvent(t) \/ EpollTimeout(t) \/ TimerMarks(t)
    BY <2>2, <2>8 DEF YieldSwap, Finish, EpollEvent, EpollTimeout, TimerMarks, outVars
  <2>9. CASE LookIdle(t)
    <3>1. CASE stopping /\ tasks = <<>> /\ activeThreadCount = 0
      <4>1. Go(t, "stop")
        BY <2>9, <3>1 DEF LookIdle
      <4>2. Halts(t)
        BY <2>9, <3>1, <4>1, <1>a DEF LookIdle, Halts, outVars
      <4> QED
        BY <4>2 DEF Kinds
    <3>2. CASE ~(stopping /\ tasks = <<>> /\ activeThreadCount = 0)
      <4>1. Go(t, "epoll")
        BY <2>9, <3>2 DEF LookIdle
      <4> QED
        BY <2>2, <2>9, <4>1 DEF LookIdle, outVars
    <3> QED
      BY <3>1, <3>2
  <2>10. CASE LookPending(t)
    <3>1. CASE events = {}
      <4>1. Go(t, "oneshot") /\ worker[t].pc = "stop" /\ UNCHANGED <<tasks, state, stopping, closing>>
        BY <2>10, <3>1 DEF LookPending, At, outVars
      <4>2. Quits(t)
        BY <3>1, <4>1, <1>a DEF Quits
      <4> QED
        BY <4>2 DEF Kinds
    <3>2. CASE events # {}
      BY <2>2, <2>10, <3>2 DEF LookPending, outVars
    <3> QED
      BY <3>1, <3>2
  <2>13. CASE LookTimers(t)
    <3>1. CASE timers = {}
      <4>1. Go(t, "exited") /\ worker[t].pc = "oneshot" /\ UNCHANGED <<tasks, state, stopping, closing>>
        BY <2>13, <3>1 DEF LookTimers, At, outVars
      <4>2. Leaves(t)
        BY <4>1, <1>a DEF Leaves
      <4> QED
        BY <4>2 DEF Kinds
    <3>2. CASE timers # {}
      BY <2>2, <2>13, <3>2 DEF LookTimers, outVars
    <3> QED
      BY <3>1, <3>2
  <2>11. CASE TimerExpires(t)
    <3>1. (\E f \in Fibers : Hold(t, "expired", f)) /\ "expired" \in Holding
      BY <2>11 DEF TimerExpires, FiberTypes, Holding
    <3> QED
      BY <2>3, <2>11, <3>1 DEF TimerExpires, outVars
  <2>12. CASE TimerAborts(t)
    <3>1. worker[t].f \in Fibers /\ "mark" \in Holding
      BY <2>12, <1>0 DEF TimerAborts, At, Holding
    <3>2. Hold(t, "mark", worker[t].f) \/ Go(t, "scan")
      BY <2>12 DEF TimerAborts
    <3> QED
      BY <2>2, <2>3, <2>12, <3>1, <3>2 DEF TimerAborts, outVars
  <2> QED
    BY <1>1, <2>5, <2>6, <2>7, <2>8, <2>9, <2>10, <2>11, <2>12, <2>13 DEF Worker
<1>2. ASSUME NEW f \in Fibers, Close(f) \/ Send(f)
      PROVE  Kinds
  BY <1>2 DEF Kinds, Outside, Close, CloseRead, CloseAbort, CloseFd, Send, outVars
<1>3. ASSUME StopRuntime
      PROVE  Kinds
  BY <1>3 DEF Kinds, Outside, StopRuntime
<1>4. Kinds
  BY <1>1, <1>2, <1>3 DEF Next
<1> QED
  BY <1>4 DEF Kinds

(* A step keeps a worker for what is queued.                               *)
LEMMA StopSoundStays ==
  ASSUME FiberTypes, StopSound, Next, Threads # {}
  PROVE  StopSound'
<1>0. /\ stopping \in BOOLEAN /\ closing \in [Fibers -> {"idle", "abort", "close", "closed"}]
      /\ ~stopping => \A t \in Threads : worker[t].pc \notin Gone
      /\ stopping => \A f \in Fibers : closing[f] \in {"idle", "closed"}
      /\ tasks # <<>> => \E t \in Threads : worker[t].pc \notin Gone
  BY DEF StopSound
<1>1. stopping' \in BOOLEAN
  BY <1>0, StopKinds DEF Outside, Stays, Halts, Quits, Leaves
<1>2. closing' \in [Fibers -> {"idle", "abort", "close", "closed"}]
  BY <1>0, StopKinds DEF Outside, Stays, Halts, Quits, Leaves, CloseGo
<1>3. ~stopping' => \A t \in Threads : worker'[t].pc \notin Gone
  BY <1>0, StopKinds DEF Outside, Stays, Halts, Quits, Leaves, Others, Gone
<1>4. stopping' => \A f \in Fibers : closing'[f] \in {"idle", "closed"}
  BY <1>0, StopKinds DEF Outside, Stays, Halts, Quits, Leaves, CloseGo
<1>5. tasks' # <<>> => \E t \in Threads : worker'[t].pc \notin Gone
  <2>1. CASE Outside
    <3>1. CASE tasks' = tasks
      BY <1>0, <2>1, <3>1 DEF Outside
    <3>2. ASSUME NEW f \in Fibers, CloseGo(f, "abort", "close")
          PROVE  \E t \in Threads : worker'[t].pc \notin Gone
      BY <1>0, <2>1, <3>2 DEF Outside, CloseGo
    <3> QED
      BY <2>1, <3>1, <3>2 DEF Outside
  <2>2. ASSUME NEW t \in Threads, Stays(t)
        PROVE  \E u \in Threads : worker'[u].pc \notin Gone
    BY <2>2 DEF Stays
  <2>3. ASSUME NEW t \in Threads, Halts(t)
        PROVE  tasks' = <<>>
    BY <2>3 DEF Halts
  <2>4. ASSUME NEW t \in Threads, Quits(t) \/ Leaves(t), tasks' # <<>>
        PROVE  \E u \in Threads : worker'[u].pc \notin Gone
    BY <1>0, <2>4 DEF Quits, Leaves, Others, Gone
  <2> QED
    BY <1>0, <2>1, <2>2, <2>3, <2>4, StopKinds
<1> QED
  BY <1>1, <1>2, <1>3, <1>4, <1>5 DEF StopSound

(* The last worker leaves when nothing runs, is queued or waits.           *)
LEMMA ExitSoundStays ==
  ASSUME FiberTypes, FibersSound, StopSound, ExitSound, Next, Threads # {}
  PROVE  ExitSound'
<1> SUFFICES ASSUME \A t \in Threads : worker'[t].pc \in Passed
             PROVE  \A f \in Fibers : state'[f] = "FINISHED"
  BY DEF ExitSound
<1>1. CASE worker' = worker /\ state' = state
  BY <1>1 DEF ExitSound
<1>2. ASSUME NEW t \in Threads, Stays(t) \/ Halts(t)
      PROVE  FALSE
  BY <1>2 DEF Stays, Halts, Gone, Passed
<1>4. ASSUME NEW t \in Threads, Leaves(t)
      PROVE  \A f \in Fibers : state'[f] = "FINISHED"
  BY <1>4 DEF Leaves, Others, Passed, ExitSound
<1>3. ASSUME NEW t \in Threads, Quits(t)
      PROVE  \A f \in Fibers : state'[f] = "FINISHED"
  <2>1. \A u \in Threads : worker[u].pc \in Gone
    BY <1>3 DEF Quits, Others, Gone, Passed
  <2>2. tasks = <<>> /\ events = {} /\ state' = state
    BY <1>3, <2>1 DEF StopSound, Quits
  <2>3. \A f \in Fibers : ~Resuming(f) /\ ~OnCpu(f)
    BY <2>1 DEF Resuming, OnCpu, Gone
  <2>4. \A f \in Fibers : ~InSeq(f, tasks)
    BY <2>2 DEF InSeq
  <2> QED
    BY <2>2, <2>3, <2>4 DEF FibersSound, FiberSound, OneWake
<1> QED
  BY <1>1, <1>2, <1>3, <1>4, StopKinds DEF Outside

----------------------------------------------------------------------------

(* The inductive invariant of the runtime. After a clash the model stops,  *)
(* so the coroutines need not be sound there; the rest holds also then.    *)
FiberInv ==
  /\ FiberTypes /\ QueuedOnce /\ (~clash => FibersSound)
  /\ SamplesSound /\ StopSound /\ ExitSound

(* Initially every coroutine is queued and none has run.                   *)
LEMMA FiberStarts ==
  ASSUME Init
  PROVE  FiberInv
<1>0. tasks \in Seq(Fibers) /\ IsInjective(tasks) /\ \A f \in Fibers : InSeq(f, tasks)
  BY FibersQueued, FiberAssumption DEF Init
<1>1. worker = [t \in Threads |-> [pc |-> "scan", f |-> "none"]] /\ events = {} /\ timers = {}
  BY DEF Init
<1>2. worker \in WorkerStates
  <2>1. [pc |-> "scan", f |-> "none"] \in [pc : Holding \cup Away, f : Fibers \cup {"none"}]
    BY DEF Away
  <2> QED
    BY <1>1, <2>1 DEF WorkerStates
<1>3. \A t \in Threads : worker[t].pc = "scan"
  BY <1>1
<1>4. FiberTypes
  <2>1. state \in [Fibers -> {"ACTIVE", "SUSPENDED", "FINISHED"}] /\ io \in [Fibers -> IoPcs]
    BY DEF Init, IoPcs
  <2> QED
    BY <1>0, <1>1, <1>2, <1>3, <2>1 DEF FiberTypes, Holding
<1>5. QueuedOnce
  BY <1>0, <1>1 DEF QueuedOnce
<1>6. \A f \in Fibers : ~Resuming(f) /\ ~OnCpu(f)
  BY <1>3 DEF Resuming, OnCpu
<1>7. FibersSound
  <2>1. \A f \in Fibers : FiberSound(f)
    BY <1>0, <1>1, <1>6 DEF Init, FiberSound, OneWake
  <2>2. OneHolder
    BY <1>3 DEF OneHolder
  <2>3. saved \in [Fibers -> BOOLEAN]
    BY DEF Init
  <2> QED
    BY <1>6, <2>1, <2>2, <2>3 DEF FibersSound, Unsaved
<1>8. SamplesSound
  <2>1. CounterTypes
    BY DEF Init, CounterTypes
  <2>2. \A f \in Fibers : ~Moved(f) /\ sample[f] = 0 /\ gen[f] = 0
    BY <1>3 DEF Init, Moved
  <2> QED
    BY <2>1, <2>2 DEF SamplesSound, SampleSound
<1>9. StopSound
  <2>1. stopping \in BOOLEAN
    BY DEF Init
  <2>2. closing \in [Fibers -> {"idle", "abort", "close", "closed"}] /\ ~stopping
    BY DEF Init
  <2>3. \A t \in Threads : worker[t].pc \notin Gone
    BY <1>3 DEF Gone
  <2> QED
    BY <2>1, <2>2, <2>3, FiberAssumption DEF StopSound
<1>10. ExitSound
  BY <1>3, FiberAssumption DEF ExitSound, Passed
<1> QED
  BY <1>4, <1>5, <1>7, <1>8, <1>9, <1>10 DEF FiberInv

(* Every step of the runtime keeps the invariant.                          *)
LEMMA FiberInductive == Spec => []FiberInv
<1>1. Init => FiberInv
  BY FiberStarts
<1>2. FiberInv /\ [Next]_vars => FiberInv'
  <2>1. ASSUME FiberInv, Next
        PROVE  FiberInv'
    <3>1. ~clash
      BY <2>1 DEF Next
    <3>2. FiberTypes /\ QueuedOnce /\ IsInjective(tasks) /\ FibersSound /\ SamplesSound /\ StopSound
          /\ ExitSound
      BY <2>1, <3>1 DEF FiberInv, QueuedOnce
    <3>3. FiberTypes' /\ QueuedOnce'
      BY <2>1, <3>2, FiberTypesStay, QueuedOnceStays
    <3>4. ~clash' => FibersSound'
      BY <2>1, <3>2, FibersSoundStay
    <3>5. SamplesSound' /\ StopSound' /\ ExitSound'
      BY <2>1, <3>2, SamplesStay, StopSoundStays, ExitSoundStays, FiberAssumption
    <3> QED
      BY <3>3, <3>4, <3>5 DEF FiberInv
  <2>2. ASSUME FiberInv, UNCHANGED vars
        PROVE  FiberInv'
    <3>1. (FiberTypes <=> FiberTypes') /\ (QueuedOnce <=> QueuedOnce')
      BY <2>2 DEF vars, FiberTypes, QueuedOnce
    <3>2. FibersSound <=> FibersSound'
      BY <2>2 DEF vars, FibersSound, FiberSound, OneWake, NoWake, InSeq, Resuming, OnCpu, OneHolder,
         Unsaved
    <3>3. SamplesSound <=> SamplesSound'
      BY <2>2 DEF vars, SamplesSound, CounterTypes, SampleSound, Moved
    <3>4. (StopSound <=> StopSound') /\ (ExitSound <=> ExitSound') /\ (clash <=> clash')
      BY <2>2 DEF vars, StopSound, ExitSound
    <3> QED
      BY <2>2, <3>1, <3>2, <3>3, <3>4 DEF FiberInv
  <2> QED
    BY <2>1, <2>2
<1> QED
  BY <1>1, <1>2, PTL DEF Spec

(* A value is in an injective sequence at most once.                       *)
LEMMA AtMostOne ==
  ASSUME NEW s, IsInjective(s), NEW x
  PROVE  Cardinality({i \in DOMAIN s : s[i] = x}) <= 1
<1> DEFINE P == {i \in DOMAIN s : s[i] = x}
<1>1. CASE P = {}
  BY <1>1, FS_EmptySet
<1>2. ASSUME NEW i \in P
      PROVE  P = {i}
  BY DEF IsInjective
<1> HIDE DEF P
<1>3. ASSUME NEW i \in P
      PROVE  Cardinality(P) = 1
  BY <1>2, <1>3, FS_Singleton
<1> QED
  BY <1>1, <1>3 DEF P

(* For any number of threads and coroutines: whatever wakes a waiting      *)
(* coroutine, it is queued once and never lost, and the workers leave only *)
(* when all coroutines are finished, although stopped() reads the queue,   *)
(* the pending events and the timers one after the other.                  *)
THEOREM CoroutinesWokenOnce == Spec => []WokenOnce
<1>1. ASSUME FiberInv
      PROVE  WokenOnce
  <2>1. ASSUME NEW f \in Fibers
        PROVE  Cardinality({i \in DOMAIN tasks : tasks[i] = f}) <= 1
    BY <1>1, AtMostOne DEF FiberInv, QueuedOnce
  <2>2. \A f \in Fibers : Queued(f) <=> InSeq(f, tasks)
    BY DEF Queued, InSeq
  <2>3. \A f \in Fibers : ~(Queued(f) /\ f \in events)
    BY <1>1, <2>2 DEF FiberInv, QueuedOnce
  <2>4. \A f \in Fibers : Resuming(f) \/ OnCpu(f) => Held(f)
    BY DEF Resuming, OnCpu, Held
  <2>5. \A f \in Fibers :
          ~clash /\ state[f] # "FINISHED" => Queued(f) \/ f \in events \/ Held(f)
    BY <1>1, <2>2, <2>4 DEF FiberInv, FibersSound, FiberSound, OneWake
  <2>6. (\A t \in Threads : At(t, "exited")) => \A f \in Fibers : state[f] = "FINISHED"
    BY <1>1 DEF FiberInv, ExitSound, Passed, At
  <2> QED
    BY <2>1, <2>3, <2>5, <2>6 DEF WokenOnce
<1> QED
  BY <1>1, FiberInductive, PTL

(* For any number of threads and coroutines: recv returns ETIMEDOUT only   *)
(* if its own timer moved the cancel generation after do_io copied it, so  *)
(* data that came in time is not dropped for a late timer.                 *)
THEOREM TimeoutsAreReal == Spec => []TimeoutIsReal
<1>1. FiberInv => TimeoutIsReal
  BY DEF FiberInv, SamplesSound, SampleSound, Moved, TimeoutIsReal
<1> QED
  BY <1>1, FiberInductive, PTL
=============================================================================
