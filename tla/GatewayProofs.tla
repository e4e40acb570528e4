--------------------------- MODULE GatewayProofs ---------------------------
(***************************************************************************)
(* Proofs about two services of the gateway that share nothing.            *)
(*                                                                         *)
(* The TCP listener counts its connections (ConnectionsCounted), for any   *)
(* number of listening sockets, clients and any limit. Each step is        *)
(* described once, by what it does to the accept loops, to the connections *)
(* and to activeConn_ (StepKinds). The count is exact because a connection *)
(* is in the hand of one accept loop until it is served (HeldApart). The   *)
(* limit is not inductive by itself: acceptLoop compares activeConn_ with  *)
(* the limit in one step and adds to it in a later one, so the invariant   *)
(* counts also the loops between the two (RoomKept).                       *)
(*                                                                         *)
(* The risk reporter accounts for every report it accepted                 *)
(* (ReportsAccounted), for any number of callers and ids and any bound of  *)
(* the queue. Each step is described once, by what it does to the queue,   *)
(* to the hand of the sender and to the counts (ReportKinds); the sums     *)
(* then follow from what appending, taking and putting back do to the      *)
(* number of times an id is queued. That nothing is left in the queue at   *)
(* the end needs EndSound: a report is pushed under the mutex only after   *)
(* m_accepting was read again, and loop() is left only after it was        *)
(* cleared.                                                                *)
(***************************************************************************)
EXTENDS TcpListener, Reporter, FiniteSetTheorems, TLAPS

----------------------------------------------------------------------------
(* The TCP listener                                                        *)

(* An accept loop at one of these points holds a connection.               *)
Holding == {"limit", "drain", "count", "add", "post"}
(* A connection at one of these points is served and counted.              *)
InServe == {"top", "recv", "leave", "drop"}
(* A connection at one of these points was counted and is not any more.    *)
Leaving == {"last", "notify", "gone"}

(* The types of what is counted and of who counts it.                      *)
ListenerTypes ==
  /\ acc \in [Socks -> [pc : {"accept", "ended"} \cup Holding, c : Clients \cup {NoClient}]]
  /\ serve \in [Clients -> {"away", "accepted"} \cup InServe \cup Leaving]
  /\ active \in Int

(* An accept loop has the connection it accepted in its own hand only, and *)
(* nobody serves it yet.                                                   *)
HeldApart ==
  \A s \in Socks :
    IF acc[s].pc \in Holding
    THEN /\ acc[s].c \in Clients /\ serve[acc[s].c] = "accepted"
         /\ \A t \in Socks : acc[t].c = acc[s].c => t = s
    ELSE acc[s].c = NoClient

(* The connections that activeConn_ stands for.                            *)
Inside == {c \in Clients : Counted(c)}
(* The accept loops that saw room and have not counted their connection    *)
(* yet: each of them may still add one to activeConn_.                     *)
Checked == {s \in Socks : acc[s].pc \in {"drain", "count"}}

(* The limit, and the room that the loops which are past the check have    *)
(* taken already. All of them may have seen the last free place, all but   *)
(* the first of them overrun the limit.                                    *)
RoomKept == active + Cardinality(Checked) <= MaxConnections + Cardinality(Socks) - 1

(* The inductive invariant.                                                *)
ListenerInv ==
  ListenerTypes /\ HeldApart /\ active = Cardinality(Inside) /\ RoomKept


----------------------------------------------------------------------------
(* Loop s accepts client c.                                                *)
Fetch(s, c) ==
  /\ acc[s].pc = "accept" /\ serve[c] = "away"
  /\ serve' = [serve EXCEPT ![c] = "accepted"]
  /\ acc' = [acc EXCEPT ![s] = [pc |-> "limit", c |-> c]]
  /\ active' = active

(* Loop s ends.                                                            *)
GiveUp(s) ==
  /\ acc[s].pc = "accept"
  /\ acc' = [acc EXCEPT ![s] = [pc |-> "ended", c |-> NoClient]]
  /\ serve' = serve /\ active' = active

(* Loop s closes the connection it holds, at the limit or because of a     *)
(* drain.                                                                  *)
Refuse(s) ==
  /\ acc[s].pc \in {"limit", "drain"}
  /\ serve' = [serve EXCEPT ![acc[s].c] = "gone"]
  /\ acc' = [acc EXCEPT ![s] = [pc |-> "accept", c |-> NoClient]]
  /\ active' = active

(* Loop s goes on with the connection it holds.                            *)
PassOn(s, from, to) ==
  /\ acc[s].pc = from
  /\ acc' = [acc EXCEPT ![s] = [pc |-> to, c |-> acc[s].c]]
  /\ serve' = serve

(* Loop s goes on without counting; past the limit only if it sees room.   *)
Advance(s) ==
  \/ PassOn(s, "limit", "drain") /\ active < MaxConnections /\ active' = active
  \/ PassOn(s, "drain", "count") /\ active' = active
  \/ PassOn(s, "add", "post") /\ active' = active

(* Loop s counts its connection.                                           *)
Enter(s) == PassOn(s, "count", "add") /\ active' = active + 1

(* Loop s posts its connection to the coroutine that serves it.            *)
HandOver(s) ==
  /\ acc[s].pc = "post"
  /\ serve' = [serve EXCEPT ![acc[s].c] = "top"]
  /\ acc' = [acc EXCEPT ![s] = [pc |-> "accept", c |-> NoClient]]
  /\ active' = active

(* Connection c goes on among the points S.                                *)
GoOn(c, S) ==
  /\ serve[c] \in S
  /\ \E to \in S : serve' = [serve EXCEPT ![c] = to]
  /\ acc' = acc /\ active' = active

(* Connection c is counted down, by whichever step releases it.            *)
Exit(c) ==
  /\ serve[c] = "drop"
  /\ \E to \in Leaving : serve' = [serve EXCEPT ![c] = to]
  /\ acc' = acc /\ active' = active - 1

(* A step that neither counts nor moves a connection.                      *)
Still == acc' = acc /\ serve' = serve /\ active' = active

(* Every step of the listener is one of these kinds.                       *)
LEMMA StepKinds ==
  ASSUME ListenerTypes, [ListenerNext]_listenerVars, MaxConnections \in Nat
  PROVE  \/ Still
         \/ \E s \in Socks : \/ \E c \in Clients : Fetch(s, c)
                             \/ GiveUp(s) \/ Refuse(s) \/ Advance(s) \/ Enter(s) \/ HandOver(s)
         \/ \E c \in Clients : GoOn(c, InServe) \/ GoOn(c, Leaving) \/ Exit(c)
<1> DEFINE Kinds ==
         \/ Still
         \/ \E s \in Socks : \/ \E c \in Clients : Fetch(s, c)
                             \/ GiveUp(s) \/ Refuse(s) \/ Advance(s) \/ Enter(s) \/ HandOver(s)
         \/ \E c \in Clients : GoOn(c, InServe) \/ GoOn(c, Leaving) \/ Exit(c)
<1>1. CASE UNCHANGED listenerVars
  BY <1>1 DEF Still, listenerVars
<1>2. ASSUME NEW s \in Socks, AccLoop(s)
      PROVE  Kinds
  <2>1. CASE Accept(s)
    BY <2>1 DEF Accept, AccAt, AccGo, Fetch
  <2>2. CASE AcceptEnds(s)
    BY <2>2 DEF AcceptEnds, AccAt, AccGo, GiveUp
  <2>3. CASE CheckLimit(s)
    BY <2>3 DEF CheckLimit, AccAt, AccGo, CloseNew, Full, Refuse, Advance, PassOn, ListenerTypes
  <2>4. CASE CheckDraining(s)
    BY <2>4 DEF CheckDraining, AccAt, AccGo, CloseNew, Refuse, Advance, PassOn
  <2>5. CASE Count(s)
    BY <2>5 DEF Count, AccAt, AccGo, Enter, PassOn
  <2>6. CASE AddThenPost(s)
    BY <2>6 DEF AddThenPost, addConnection, PostServe, AccAt, AccGo, HandOver, Advance, PassOn
  <2> QED
    BY <1>2, <2>1, <2>2, <2>3, <2>4, <2>5, <2>6 DEF AccLoop
<1>3. ASSUME NEW c \in Clients, ServeLoop(c) \/ Request(c) \/ ClientLeaves(c)
      PROVE  Kinds
  <2>1. CASE ServeTop(c) \/ RecvCancelled(c) \/ removeConnection(c) \/ Request(c) \/ ClientLeaves(c)
    BY <2>1 DEF ServeTop, RecvCancelled, removeConnection, Request, ClientLeaves, Serve, GoOn, InServe
  <2>2. CASE TakeTimer(c) \/ NotifyDrain(c)
    BY <2>2 DEF TakeTimer, TakeTimerOf, NotifyDrain, Serve, GoOn, Leaving
  <2>3. CASE DropActive(c)
    BY <2>3 DEF DropActive, Serve, Exit, Leaving
  <2> QED
    BY <1>3, <2>1, <2>2, <2>3 DEF ServeLoop
<1>4. CASE closeListenSockets \/ TimerFires \/ WaitTimesOut \/ StopThread
  BY <1>4 DEF closeListenSockets, TimerFires, WaitTimesOut, TimeOut, StopThread, Drain, PostClose,
     Snapshot, CloseAll, ArmTimer, KeepTimer, WaitDrain, Look, Sleep, Awake, Stop, accVars, Still
<1> QED
  BY <1>1, <1>2, <1>3, <1>4 DEF ListenerNext

----------------------------------------------------------------------------
(* What is counted, and the loops past the check, can be counted.          *)
LEMMA InsideFinite ==
  /\ IsFiniteSet(Inside) /\ IsFiniteSet(Checked)
  /\ Cardinality(Inside) \in Nat /\ Cardinality(Checked) \in Nat
  /\ Cardinality(Socks) \in Nat \ {0}
  /\ Cardinality(Checked) <= Cardinality(Socks)
<1>1. Inside \subseteq Clients /\ Checked \subseteq Socks
  BY DEF Inside, Checked
<1>2. IsFiniteSet(Inside) /\ IsFiniteSet(Checked)
  BY <1>1, FS_Subset, ListenerAssumption
<1>3. Cardinality(Checked) <= Cardinality(Socks)
  BY <1>1, FS_Subset, ListenerAssumption
<1>4. Cardinality(Socks) \in Nat \ {0}
  BY FS_CardinalityType, FS_EmptySet, ListenerAssumption
<1> QED
  BY <1>2, <1>3, <1>4, FS_CardinalityType

(* The two sets after a step.                                              *)
LEMMA InsidePrime ==
  /\ Inside' = {c \in Clients : Counted(c)'}
  /\ Checked' = {s \in Socks : acc'[s].pc \in {"drain", "count"}}
BY DEF Inside, Checked

(* A step keeps the types.                                                 *)
LEMMA TypesStay ==
  ASSUME ListenerTypes, HeldApart, [ListenerNext]_listenerVars
  PROVE  ListenerTypes'
<1>1. ASSUME NEW s \in Socks, NEW c \in Clients, Fetch(s, c)
      PROVE  ListenerTypes'
  BY <1>1 DEF Fetch, ListenerTypes, Holding
<1>2. ASSUME NEW s \in Socks, GiveUp(s)
      PROVE  ListenerTypes'
  BY <1>2 DEF GiveUp, ListenerTypes
<1>3. ASSUME NEW s \in Socks, Refuse(s)
      PROVE  ListenerTypes'
  BY <1>3 DEF Refuse, ListenerTypes, HeldApart, Holding, Leaving
<1>4. ASSUME NEW s \in Socks, Advance(s) \/ Enter(s)
      PROVE  ListenerTypes'
  BY <1>4 DEF Advance, Enter, PassOn, ListenerTypes, Holding
<1>5. ASSUME NEW s \in Socks, HandOver(s)
      PROVE  ListenerTypes'
  BY <1>5 DEF HandOver, ListenerTypes, HeldApart, Holding, InServe
<1>6. ASSUME NEW c \in Clients, GoOn(c, InServe) \/ GoOn(c, Leaving) \/ Exit(c)
      PROVE  ListenerTypes'
  BY <1>6 DEF GoOn, Exit, ListenerTypes
<1>7. CASE Still
  BY <1>7 DEF Still, ListenerTypes
<1> QED
  BY StepKinds, <1>1, <1>2, <1>3, <1>4, <1>5, <1>6, <1>7, ListenerAssumption

(* A step keeps accepted connections in one hand each: accept gives a      *)
(* connection out once.                                                    *)
LEMMA HeldApartStays ==
  ASSUME ListenerTypes, HeldApart, [ListenerNext]_listenerVars
  PROVE  HeldApart'
<1>a. NoClient \notin Clients
  BY ListenerAssumption
<1>1. ASSUME NEW s \in Socks, NEW c \in Clients, Fetch(s, c)
      PROVE  HeldApart'
  BY <1>1, <1>a DEF Fetch, ListenerTypes, HeldApart, Holding
<1>2. ASSUME NEW s \in Socks, GiveUp(s)
      PROVE  HeldApart'
  BY <1>2, <1>a DEF GiveUp, ListenerTypes, HeldApart, Holding
<1>3. ASSUME NEW s \in Socks, Refuse(s)
      PROVE  HeldApart'
  BY <1>3, <1>a DEF Refuse, ListenerTypes, HeldApart, Holding
<1>4. ASSUME NEW s \in Socks, Advance(s) \/ Enter(s)
      PROVE  HeldApart'
  BY <1>4, <1>a DEF Advance, Enter, PassOn, ListenerTypes, HeldApart, Holding
<1>5. ASSUME NEW s \in Socks, HandOver(s)
      PROVE  HeldApart'
  BY <1>5, <1>a DEF HandOver, ListenerTypes, HeldApart, Holding
<1>6. ASSUME NEW c \in Clients, GoOn(c, InServe) \/ GoOn(c, Leaving) \/ Exit(c)
      PROVE  HeldApart'
  BY <1>6 DEF GoOn, Exit, ListenerTypes, HeldApart, InServe, Leaving
<1>7. CASE Still
  BY <1>7 DEF Still, HeldApart
<1> QED
  BY StepKinds, <1>1, <1>2, <1>3, <1>4, <1>5, <1>6, <1>7, ListenerAssumption

(* activeConn_ and the connections it stands for change together, by one.  *)
LEMMA InsideMoves ==
  ASSUME ListenerTypes, HeldApart, [ListenerNext]_listenerVars
  PROVE  \/ Inside' = Inside /\ active' = active
         \/ \E c \in Clients \ Inside : Inside' = Inside \cup {c} /\ active' = active + 1
         \/ \E c \in Inside : Inside' = Inside \ {c} /\ active' = active - 1
<1> DEFINE Kept == Inside' = Inside /\ active' = active
<1>a. NoClient \notin Clients
  BY ListenerAssumption
<1>1. ASSUME NEW s \in Socks, NEW c \in Clients, Fetch(s, c)
      PROVE  Kept
  <2>1. \A d \in Clients : Counted(d)' <=> Counted(d)
    BY <1>1, <1>a DEF Fetch, ListenerTypes, HeldApart, Holding, Counted
  <2> QED
    BY <1>1, <2>1, InsidePrime DEF Inside, Fetch
<1>2. ASSUME NEW s \in Socks, GiveUp(s)
      PROVE  Kept
  <2>1. \A d \in Clients : Counted(d)' <=> Counted(d)
    BY <1>2, <1>a DEF GiveUp, ListenerTypes, HeldApart, Holding, Counted
  <2> QED
    BY <1>2, <2>1, InsidePrime DEF Inside, GiveUp
<1>3. ASSUME NEW s \in Socks, Refuse(s)
      PROVE  Kept
  <2>1. \A d \in Clients : Counted(d)' <=> Counted(d)
    BY <1>3, <1>a DEF Refuse, ListenerTypes, HeldApart, Holding, Counted
  <2> QED
    BY <1>3, <2>1, InsidePrime DEF Inside, Refuse
<1>4. ASSUME NEW s \in Socks, Advance(s)
      PROVE  Kept
  <2>1. \A d \in Clients : Counted(d)' <=> Counted(d)
    BY <1>4, <1>a DEF Advance, PassOn, ListenerTypes, HeldApart, Holding, Counted
  <2>2. active' = active
    BY <1>4 DEF Advance
  <2> QED
    BY <2>1, <2>2, InsidePrime DEF Inside
<1>5. ASSUME NEW s \in Socks, HandOver(s)
      PROVE  Kept
  <2>1. \A d \in Clients : Counted(d)' <=> Counted(d)
    BY <1>5, <1>a DEF HandOver, ListenerTypes, HeldApart, Holding, Counted
  <2> QED
    BY <1>5, <2>1, InsidePrime DEF Inside, HandOver
<1>6. ASSUME NEW s \in Socks, Enter(s)
      PROVE  \E c \in Clients \ Inside : Inside' = Inside \cup {c} /\ active' = active + 1
  <2>0. PICK c \in Clients : c = acc[s].c
    BY <1>6 DEF Enter, PassOn, HeldApart, Holding
  <2>1. ~Counted(c) /\ Counted(c)'
    BY <1>6, <2>0, <1>a DEF Enter, PassOn, ListenerTypes, HeldApart, Holding, Counted
  <2>2. \A d \in Clients \ {c} : Counted(d)' <=> Counted(d)
    BY <1>6, <2>0, <1>a DEF Enter, PassOn, ListenerTypes, HeldApart, Holding, Counted
  <2>3. active' = active + 1
    BY <1>6 DEF Enter
  <2>4. Inside' = Inside \cup {c} /\ c \notin Inside
    BY <2>1, <2>2, InsidePrime DEF Inside
  <2> QED
    BY <2>1, <2>3, <2>4
<1>7. ASSUME NEW c \in Clients, GoOn(c, InServe) \/ GoOn(c, Leaving)
      PROVE  Kept
  <2>1. \A d \in Clients : Counted(d)' <=> Counted(d)
    BY <1>7, <1>a DEF GoOn, ListenerTypes, HeldApart, InServe, Leaving, Counted
  <2>2. active' = active
    BY <1>7 DEF GoOn
  <2> QED
    BY <2>1, <2>2, InsidePrime DEF Inside
<1>8. ASSUME NEW c \in Clients, Exit(c)
      PROVE  c \in Inside /\ Inside' = Inside \ {c} /\ active' = active - 1
  <2>1. Counted(c) /\ ~Counted(c)'
    BY <1>8, <1>a DEF Exit, ListenerTypes, HeldApart, Holding, Leaving, Counted
  <2>2. \A d \in Clients \ {c} : Counted(d)' <=> Counted(d)
    BY <1>8, <1>a DEF Exit, ListenerTypes, HeldApart, Counted
  <2>3. active' = active - 1
    BY <1>8 DEF Exit
  <2> QED
    BY <2>1, <2>2, <2>3, InsidePrime DEF Inside
<1>9. CASE Still
  <2>1. \A d \in Clients : Counted(d)' <=> Counted(d)
    BY <1>9 DEF Still, Counted
  <2> QED
    BY <1>9, <2>1, InsidePrime DEF Still, Inside
<1> QED
  BY StepKinds, <1>1, <1>2, <1>3, <1>4, <1>5, <1>6, <1>7, <1>8, <1>9, ListenerAssumption

(* activeConn_ stays the number of connections that are inside.            *)
LEMMA CountStays ==
  ASSUME ListenerTypes, HeldApart, [ListenerNext]_listenerVars, active = Cardinality(Inside)
  PROVE  (active = Cardinality(Inside))'
<1>1. IsFiniteSet(Inside)
  BY InsideFinite
<1>2. ASSUME NEW c \in Clients \ Inside, Inside' = Inside \cup {c}, active' = active + 1
      PROVE  active' = Cardinality(Inside')
  BY <1>1, <1>2, FS_AddElement
<1>3. ASSUME NEW c \in Inside, Inside' = Inside \ {c}, active' = active - 1
      PROVE  active' = Cardinality(Inside')
  BY <1>1, <1>3, FS_RemoveElement
<1> QED
  BY <1>2, <1>3, InsideMoves

(* The room stays within the limit: only a loop that sees active <         *)
(* MaxConnections joins the loops past the check, and then at most all the *)
(* other loops are there too.                                              *)
LEMMA RoomStays ==
  ASSUME ListenerInv, [ListenerNext]_listenerVars
  PROVE  RoomKept'
<1>1. /\ IsFiniteSet(Checked) /\ Cardinality(Checked) \in Nat /\ Cardinality(Socks) \in Nat \ {0}
      /\ Cardinality(Checked) <= Cardinality(Socks) /\ active \in Int /\ MaxConnections \in Nat
  BY InsideFinite, ListenerAssumption DEF ListenerInv, ListenerTypes
<1>2. \A S : S \subseteq Checked => Cardinality(S) \in Nat /\ Cardinality(S) <= Cardinality(Checked)
  BY <1>1, FS_Subset, FS_CardinalityType
<1>3. \A S : S \subseteq Socks => Cardinality(S) \in Nat /\ Cardinality(S) <= Cardinality(Socks)
  BY FS_Subset, FS_CardinalityType, ListenerAssumption
<1>4. RoomKept' <=> (active' + Cardinality(Checked') <= MaxConnections + Cardinality(Socks) - 1)
  BY DEF RoomKept
<1>5. active + Cardinality(Checked) <= MaxConnections + Cardinality(Socks) - 1
  BY DEF ListenerInv, RoomKept
<1>6. CASE /\ Checked' \subseteq Checked /\ (active' = active \/ active' = active - 1)
  BY <1>1, <1>2, <1>4, <1>5, <1>6
<1>7. ASSUME NEW s \in Socks, Advance(s)
      PROVE  RoomKept'
  <2>1. CASE PassOn(s, "limit", "drain") /\ active < MaxConnections /\ active' = active
    <3>1. Checked' \subseteq Socks
      BY InsidePrime
    <3> QED
      BY <2>1, <3>1, <1>1, <1>3, <1>4
  <2>2. CASE /\ PassOn(s, "drain", "count") \/ PassOn(s, "add", "post")
             /\ active' = active
    <3>1. Checked' \subseteq Checked
      BY <2>2, InsidePrime DEF PassOn, Checked, ListenerInv, ListenerTypes
    <3> QED
      BY <2>2, <3>1, <1>6
  <2> QED
    BY <1>7, <2>1, <2>2 DEF Advance
<1>8. ASSUME NEW s \in Socks, Enter(s)
      PROVE  RoomKept'
  <2>1. s \in Checked /\ Checked' = Checked \ {s} /\ active' = active + 1
    BY <1>8, InsidePrime DEF Enter, PassOn, Checked, ListenerInv, ListenerTypes
  <2>2. Cardinality(Checked') = Cardinality(Checked) - 1
    BY <2>1, <1>1, FS_RemoveElement
  <2> QED
    BY <2>1, <2>2, <1>1, <1>4, <1>5
<1>9. ASSUME NEW s \in Socks,
             (\E c \in Clients : Fetch(s, c)) \/ GiveUp(s) \/ Refuse(s) \/ HandOver(s)
      PROVE  RoomKept'
  <2>1. Checked' \subseteq Checked /\ active' = active
    BY <1>9, InsidePrime
       DEF Fetch, GiveUp, Refuse, HandOver, Checked, ListenerInv, ListenerTypes
  <2> QED
    BY <2>1, <1>6
<1>10. CASE acc' = acc /\ (active' = active \/ active' = active - 1)
  <2>1. Checked' \subseteq Checked
    BY <1>10, InsidePrime DEF Checked
  <2> QED
    BY <2>1, <1>10, <1>6
<1>11. ASSUME NEW c \in Clients, GoOn(c, InServe) \/ GoOn(c, Leaving) \/ Exit(c)
       PROVE  acc' = acc /\ (active' = active \/ active' = active - 1)
  BY <1>11 DEF GoOn, Exit
<1>12. CASE Still
  BY <1>12, <1>10 DEF Still
<1> QED
  BY StepKinds, <1>7, <1>8, <1>9, <1>10, <1>11, <1>12, ListenerAssumption DEF ListenerInv

(* Initially nobody is inside.                                             *)
LEMMA ListenerStarts ==
  ASSUME ListenerInit
  PROVE  ListenerInv
<1>1. ListenerTypes
  BY DEF ListenerInit, ListenerTypes
<1>2. HeldApart
  BY DEF ListenerInit, HeldApart, Holding
<1>3. Inside = {}
  BY DEF ListenerInit, Inside, Counted
<1>4. Checked = {}
  BY DEF ListenerInit, Checked
<1>5. active = Cardinality(Inside) /\ Cardinality(Checked) = 0
  BY <1>3, <1>4, FS_EmptySet DEF ListenerInit
<1>6. RoomKept
  BY <1>5, InsideFinite, ListenerAssumption DEF ListenerInit, RoomKept
<1> QED
  BY <1>1, <1>2, <1>5, <1>6 DEF ListenerInv

(* Every step of the listener keeps the invariant.                         *)
LEMMA ListenerInductive == ListenerSpec => []ListenerInv
<1>1. ListenerInit => ListenerInv
  BY ListenerStarts
<1>2. ListenerInv /\ [ListenerNext]_listenerVars => ListenerInv'
  BY TypesStay, HeldApartStays, CountStays, RoomStays DEF ListenerInv
<1> QED
  BY <1>1, <1>2, PTL DEF ListenerSpec

(* For every number of listening sockets, clients and every limit:         *)
(* activeConn_ is the number of connections that were counted in           *)
(* acceptLoop and not yet counted down in serveConnection, it is never     *)
(* negative, and the limit, which is read by each accept loop before it is *)
(* counted against, is overrun by less than the number of accept loops.    *)
THEOREM ConnectionsAreCounted == ListenerSpec => []ConnectionsCounted
<1>1. ListenerInv => ConnectionsCounted
  BY InsideFinite, ListenerAssumption DEF ListenerInv, ListenerTypes, RoomKept, ConnectionsCounted, Inside
<1> QED
  BY <1>1, ListenerInductive, PTL

----------------------------------------------------------------------------
(* The risk reporter                                                       *)

(* How often id i is in sequence s.                                        *)
CountIn(i, s) == Cardinality({k \in DOMAIN s : s[k] = i})
(* One if x is i.                                                          *)
One(i, x) == IF x = i THEN 1 ELSE 0

(* Where loop() may be.                                                    *)
SenderPcs ==
  {"off", "top", "empty", "wait", "due", "connect", "backoff", "pause", "resume", "drain",
   "send", "end", "finish", "over"}

(* What the sender may be.                                                 *)
SenderStates == [pc : SenderPcs, sock : BOOLEAN, hand : Ids \cup {NoId}]
(* What the callers may be.                                                *)
CallerStates == [Callers -> [pc : {"idle", "lock", "notify"}, id : Ids \cup {NoId}]]

(* The types of what holds a report and of what counts it.                 *)
ReporterTypes ==
  /\ queue \in Seq(Ids)
  /\ caller \in CallerStates
  /\ sender \in SenderStates
  /\ taken \in [Ids -> Nat] /\ sent \in [Ids -> Nat] /\ dropped \in [Ids -> Nat]

(* A caller on its way into tryReport has a report.                        *)
CallersSound == \A c \in Callers : caller[c].pc = "lock" => caller[c].id \in Ids

(* The sender has a report in hand while it sends, at no other time; then  *)
(* the queue had room for one once, which is why it can go back.           *)
HandSound ==
  IF sender.pc = "send" THEN sender.hand \in Ids /\ MaxQueue > 0 ELSE sender.hand = NoId

(* Every accepted report is in one place.                                  *)
Accounted ==
  /\ Len(queue) <= MaxQueue
  /\ \A i \in Ids :
       taken[i] = sent[i] + dropped[i] + CountIn(i, queue) + One(i, sender.hand)

(* stop() has cleared m_accepting.                                         *)
StopBegan == stopper \notin {"idle", "exchange", "early"}

(* The loop ends only when no report is accepted any more: it leaves its   *)
(* loop with m_accepting cleared, and m_running falls only after it or     *)
(* after stop() gave up. So what dropRest empties stays empty.             *)
EndSound ==
  /\ StopBegan => ~accepting
  /\ sender.pc # "off" /\ ~running => ~accepting
  /\ sender.pc \in {"end", "finish", "over"} => ~accepting
  /\ sender.pc \in {"finish", "over"} => queue = <<>>
  /\ done => sender.pc = "over"

(* The inductive invariant.                                                *)
ReporterInv == ReporterTypes /\ CallersSound /\ HandSound /\ Accounted /\ EndSound

----------------------------------------------------------------------------
(* A count is a number.                                                    *)
LEMMA CountType ==
  ASSUME NEW s \in Seq(Ids), NEW i
  PROVE  IsFiniteSet({k \in DOMAIN s : s[k] = i}) /\ CountIn(i, s) \in Nat
<1>1. Len(s) \in Nat /\ DOMAIN s = 1..Len(s)
  OBVIOUS
<1>2. IsFiniteSet(DOMAIN s)
  BY <1>1, FS_Interval
<1>3. IsFiniteSet({k \in DOMAIN s : s[k] = i})
  BY <1>2, FS_Subset
<1> QED
  BY <1>3, FS_CardinalityType DEF CountIn

(* Nothing is in the empty queue.                                          *)
LEMMA CountEmpty ==
  ASSUME NEW i
  PROVE  CountIn(i, <<>>) = 0
<1>1. {k \in DOMAIN <<>> : <<>>[k] = i} = {}
  OBVIOUS
<1> QED
  BY <1>1, FS_EmptySet DEF CountIn

(* Append adds one.                                                        *)
LEMMA CountAppend ==
  ASSUME NEW s \in Seq(Ids), NEW x \in Ids, NEW i
  PROVE  CountIn(i, Append(s, x)) = CountIn(i, s) + One(i, x)
<1> DEFINE S == {k \in DOMAIN s : s[k] = i}
           T == {k \in DOMAIN Append(s, x) : Append(s, x)[k] = i}
<1>1. /\ Len(s) \in Nat /\ DOMAIN s = 1..Len(s) /\ DOMAIN Append(s, x) = 1..(Len(s) + 1)
      /\ \A k \in 1..Len(s) : Append(s, x)[k] = s[k]
      /\ Append(s, x)[Len(s) + 1] = x
  OBVIOUS
<1>2. T = IF x = i THEN S \cup {Len(s) + 1} ELSE S
  BY <1>1
<1>3. Len(s) + 1 \notin S
  BY <1>1
<1>4. IsFiniteSet(S) /\ Cardinality(S) \in Nat
  BY CountType DEF CountIn
<1> HIDE DEF S, T
<1>5. Cardinality(S \cup {Len(s) + 1}) = Cardinality(S) + 1
  BY <1>3, <1>4, FS_AddElement
<1>6. Cardinality(T) = Cardinality(S) + One(i, x)
  BY <1>2, <1>4, <1>5 DEF One
<1> QED
  BY <1>6 DEF CountIn, S, T

(* A report at the front adds one.                                         *)
LEMMA CountCons ==
  ASSUME NEW s \in Seq(Ids), NEW x \in Ids, NEW i
  PROVE  CountIn(i, <<x>> \o s) = One(i, x) + CountIn(i, s)
<1> DEFINE r == <<x>> \o s
           S == {k \in DOMAIN s : s[k] = i}
           U == {k \in 2..(Len(s) + 1) : s[k - 1] = i}
           T == {k \in DOMAIN r : r[k] = i}
<1>1. /\ Len(s) \in Nat /\ DOMAIN s = 1..Len(s) /\ r \in Seq(Ids) /\ Len(r) = Len(s) + 1
      /\ DOMAIN r = 1..(Len(s) + 1) /\ r[1] = x
  OBVIOUS
<1>2. \A k \in 2..(Len(s) + 1) : r[k] = s[k - 1]
  OBVIOUS
<1> HIDE DEF r
<1>3. T = IF x = i THEN U \cup {1} ELSE U
  BY <1>1, <1>2
<1>4. IsFiniteSet(S) /\ Cardinality(S) \in Nat /\ S \subseteq 1..Len(s)
  BY <1>1, CountType DEF CountIn
<1>5. IsFiniteSet(U) /\ Cardinality(U) = Cardinality(S)
  <2> DEFINE f == [k \in S |-> k + 1]
  <2>1. f \in [S -> U]
    BY <1>1
  <2>2. \A k, m \in S : f[k] = f[m] => k = m
    BY <1>4
  <2>3. \A u \in U : \E k \in S : f[k] = u
    <3>1. ASSUME NEW u \in U
          PROVE  u - 1 \in S /\ f[u - 1] = u
      BY <1>1
    <3> QED
      BY <3>1
  <2>4. f \in Bijection(S, U)
    <3> HIDE DEF f, S, U
    <3>1. DOMAIN f = S
      BY <2>1
    <3> QED
      BY <2>1, <2>2, <2>3, <3>1 DEF Bijection, Injection, Surjection, IsInjective
  <2>5. ExistsBijection(S, U)
    BY <2>4 DEF ExistsBijection
  <2> HIDE DEF S, U
  <2> QED
    BY <1>4, <2>5, FS_Bijection
<1>6. 1 \notin U
  BY <1>1
<1> HIDE DEF S, T, U
<1>7. Cardinality(U \cup {1}) = Cardinality(U) + 1
  BY <1>5, <1>6, FS_AddElement
<1>8. Cardinality(T) = One(i, x) + Cardinality(S)
  BY <1>3, <1>4, <1>5, <1>7 DEF One
<1> QED
  BY <1>8 DEF CountIn, S, T, r

(* What leaves at the front is counted out.                                *)
LEMMA CountHead ==
  ASSUME NEW s \in Seq(Ids), s # <<>>, NEW i
  PROVE  /\ Head(s) \in Ids /\ Tail(s) \in Seq(Ids) /\ Len(Tail(s)) = Len(s) - 1
         /\ CountIn(i, s) = One(i, Head(s)) + CountIn(i, Tail(s))
<1>1. Head(s) \in Ids /\ Tail(s) \in Seq(Ids) /\ Len(Tail(s)) = Len(s) - 1
  OBVIOUS
<1>2. s = <<Head(s)>> \o Tail(s)
  OBVIOUS
<1>3. CountIn(i, <<Head(s)>> \o Tail(s)) = One(i, Head(s)) + CountIn(i, Tail(s))
  BY <1>1, CountCons
<1> QED
  BY <1>1, <1>2, <1>3

(* What leaves at the back is counted out.                                 *)
LEMMA CountLast ==
  ASSUME NEW s \in Seq(Ids), s # <<>>, NEW i
  PROVE  /\ Last(s) \in Ids /\ Front(s) \in Seq(Ids) /\ Len(Front(s)) = Len(s) - 1
         /\ CountIn(i, s) = CountIn(i, Front(s)) + One(i, Last(s))
<1>0. Len(s) \in Nat /\ Len(s) > 0 /\ DOMAIN s = 1..Len(s)
  OBVIOUS
<1>1. Last(s) \in Ids /\ Front(s) \in Seq(Ids) /\ Len(Front(s)) = Len(s) - 1
  BY <1>0 DEF Last, Front
<1>2. s = Append(Front(s), Last(s))
  BY <1>0 DEF Last, Front
<1>3. CountIn(i, Append(Front(s), Last(s))) = CountIn(i, Front(s)) + One(i, Last(s))
  BY <1>1, CountAppend
<1> QED
  BY <1>1, <1>2, <1>3

----------------------------------------------------------------------------
(* The sender goes to pc with h in hand.                                   *)
SenderTo(pc, h) == sender' \in SenderStates /\ sender'.pc = pc /\ sender'.hand = h

(* A step that moves no report.                                            *)
Moves ==
  /\ UNCHANGED <<queue, taken, sent, dropped>>
  /\ \/ sender' = sender
     \/ sender.pc # "send" /\ \E pc \in SenderPcs \ {"send"} : SenderTo(pc, sender.hand)

(* A report is accepted.                                                   *)
Pushes(i) ==
  /\ Len(queue) < MaxQueue /\ queue' = Append(queue, i)
  /\ taken' = [taken EXCEPT ![i] = @ + 1]
  /\ UNCHANGED <<sent, dropped, sender>>

(* The sender takes a report in hand.                                      *)
Takes ==
  /\ sender.pc = "drain" /\ queue # <<>> /\ SenderTo("send", Head(queue)) /\ queue' = Tail(queue)
  /\ UNCHANGED <<taken, sent, dropped>>

(* The report in hand is sent.                                             *)
Sends ==
  /\ sender.pc = "send" /\ SenderTo("drain", NoId)
  /\ sent' = [sent EXCEPT ![sender.hand] = @ + 1]
  /\ UNCHANGED <<queue, taken, dropped>>

(* The report in hand is dropped.                                          *)
Skips ==
  /\ sender.pc = "send" /\ SenderTo("drain", NoId)
  /\ dropped' = Drop(dropped, <<sender.hand>>)
  /\ UNCHANGED <<queue, taken, sent>>

(* The report in hand goes back to the queue.                              *)
PutsBack ==
  /\ sender.pc = "send" /\ SenderTo("top", NoId) /\ Requeue
  /\ UNCHANGED <<taken, sent>>

(* The rest of the queue is dropped, by the sender or by stop().           *)
Clears ==
  /\ DropRest /\ UNCHANGED <<taken, sent>>
  /\ sender' = sender \/ (sender.pc = "end" /\ SenderTo("finish", NoId))

(* The ways in which the sender goes on.                                   *)
LEMMA SenderGoes ==
  ASSUME sender \in SenderStates, NEW pc \in SenderPcs
  PROVE  /\ Go(pc) => SenderTo(pc, sender.hand)
         /\ GoOffline(pc) => SenderTo(pc, NoId)
         /\ sender' = [sender EXCEPT !.pc = pc, !.hand = NoId] => SenderTo(pc, NoId)
         /\ sender' = [sender EXCEPT !.pc = pc, !.sock = TRUE] => SenderTo(pc, sender.hand)
         /\ \A h \in Ids : sender' = [sender EXCEPT !.pc = pc, !.hand = h] => SenderTo(pc, h)
<1>1. Go(pc) => SenderTo(pc, sender.hand)
  BY DEF Go, SenderTo, SenderStates
<1>2. GoOffline(pc) => SenderTo(pc, NoId)
  <2>1. [pc |-> pc, sock |-> FALSE, hand |-> NoId] \in SenderStates
    BY DEF SenderStates
  <2> QED
    BY <2>1 DEF GoOffline, SenderTo
<1>3. sender' = [sender EXCEPT !.pc = pc, !.hand = NoId] => SenderTo(pc, NoId)
  BY DEF SenderTo, SenderStates
<1>4. sender' = [sender EXCEPT !.pc = pc, !.sock = TRUE] => SenderTo(pc, sender.hand)
  BY DEF SenderTo, SenderStates
<1>5. ASSUME NEW h \in Ids, sender' = [sender EXCEPT !.pc = pc, !.hand = h]
      PROVE  SenderTo(pc, h)
  BY <1>5 DEF SenderTo, SenderStates
<1> QED
  BY <1>1, <1>2, <1>3, <1>4, <1>5

(* Every step of the reporter does one of these things to the reports.     *)
LEMMA ReportKinds ==
  ASSUME ReporterTypes, CallersSound, HandSound, Next
  PROVE  Moves \/ (\E i \in Ids : Pushes(i)) \/ Takes \/ Sends \/ Skips \/ PutsBack \/ Clears
<1> DEFINE Kinds ==
      Moves \/ (\E i \in Ids : Pushes(i)) \/ Takes \/ Sends \/ Skips \/ PutsBack \/ Clears
<1> HIDE DEF Kinds
<1>0. sender \in SenderStates /\ queue \in Seq(Ids)
  BY DEF ReporterTypes
<1>a. ASSUME UNCHANGED <<queue, taken, sent, dropped>>, sender.pc # "send",
             NEW pc \in SenderPcs \ {"send"}, Go(pc)
      PROVE  Kinds
  BY <1>0, <1>a, SenderGoes DEF Kinds, Moves
<1>b. ASSUME UNCHANGED <<queue, taken, sent, dropped, sender>>
      PROVE  Kinds
  BY <1>b DEF Kinds, Moves
<1>1. ASSUME NEW c \in Callers, TryReport(c) \/ TryRefused(c) \/ TryPush(c) \/ TryNotify(c)
      PROVE  Kinds
  <2>1. CASE TryPush(c)
    <3>1. caller[c].id \in Ids
      BY <2>1 DEF TryPush, CallersSound
    <3>2. ~Refused(caller[c].id)
      BY <2>1 DEF TryPush
    <3>3. Len(queue) < MaxQueue
      BY <1>0, <3>2, ReporterAssumption DEF Refused
    <3>4. Pushes(caller[c].id)
      BY <2>1, <3>3 DEF TryPush, Pushes
    <3> QED
      BY <3>1, <3>4 DEF Kinds
  <2>2. CASE TryReport(c) \/ TryRefused(c) \/ TryNotify(c)
    BY <2>2, <1>b DEF TryReport, TryRefused, TryNotify, queueVars
  <2> QED
    BY <1>1, <2>1, <2>2
<1>2. ASSUME CoolDown \/ Start \/ BackoffOver \/ StopCalled \/ StopAccepting \/ StopDeadline \/ StopNotify
             \/ StopWaited \/ StopWakes \/ StopGivesUp \/ DeadlinePasses
      PROVE  Kinds
  BY <1>2, <1>b DEF CoolDown, Start, BackoffOver, StopCalled, StopAccepting, StopDeadline, StopNotify,
     StopWaited, StopWakes, StopGivesUp, DeadlinePasses, queueVars
<1>3. ASSUME StartLoop
      PROVE  Kinds
  BY <1>3, <1>a DEF StartLoop, Go, queueVars, SenderPcs
<1>4. ASSUME LoopTop \/ Empty \/ WaitForReport \/ Due \/ Pause \/ Resume \/ Backoff \/ Finish
      PROVE  Kinds
  BY <1>4, <1>a DEF LoopTop, Empty, WaitForReport, Due, Pause, Resume, Backoff, Finish, At,
     queueVars, SenderPcs
<1>5. ASSUME Connect
      PROVE  Kinds
  <2>1. CASE sender' = [sender EXCEPT !.pc = "drain", !.sock = TRUE]
    <3>1. SenderTo("drain", sender.hand)
      BY <1>0, <2>1, SenderGoes DEF SenderPcs
    <3> QED
      BY <1>5, <3>1 DEF Connect, At, Kinds, Moves, queueVars, SenderPcs
  <2>2. CASE Go("backoff")
    BY <1>5, <2>2, <1>a DEF Connect, At, queueVars, SenderPcs
  <2> QED
    BY <1>5, <2>1, <2>2 DEF Connect
<1>6. ASSUME Take
      PROVE  Kinds
  <2>1. sender.pc = "drain" /\ sender.hand = NoId /\ UNCHANGED <<taken, sent, dropped>>
    BY <1>6 DEF Take, At, HandSound
  <2>2. CASE GoOffline("top") /\ queue' = queue
    <3>1. SenderTo("top", NoId)
      BY <1>0, <2>2, SenderGoes DEF SenderPcs
    <3> QED
      BY <2>1, <2>2, <3>1 DEF Kinds, Moves, SenderPcs
  <2>3. CASE Go("top") /\ queue' = queue
    BY <2>1, <2>3, <1>a DEF SenderPcs
  <2>4. CASE /\ queue # <<>> /\ queue' = Tail(queue)
             /\ sender' = [sender EXCEPT !.pc = "send", !.hand = Head(queue)]
    <3>1. Head(queue) \in Ids
      BY <1>0, <2>4
    <3>2. SenderTo("send", Head(queue))
      BY <1>0, <2>4, <3>1, SenderGoes DEF SenderPcs
    <3> QED
      BY <2>1, <2>4, <3>2 DEF Kinds, Takes
  <2> QED
    BY <1>6, <2>2, <2>3, <2>4 DEF Take
<1>7. ASSUME SendOk \/ SendTooLarge
      PROVE  Kinds
  <2>1. SenderTo("drain", NoId)
    BY <1>0, <1>7, SenderGoes DEF SendOk, SendTooLarge, SenderPcs
  <2> QED
    BY <1>7, <2>1 DEF SendOk, SendTooLarge, At, Kinds, Sends, Skips, queueVars
<1>8. ASSUME SendFails
      PROVE  Kinds
  <2>1. SenderTo("top", NoId)
    BY <1>0, <1>8, SenderGoes DEF SendFails, SenderPcs
  <2> QED
    BY <1>8, <2>1 DEF SendFails, At, Kinds, PutsBack
<1>9. ASSUME LoopEnds
      PROVE  Kinds
  <2>1. SenderTo("finish", NoId)
    BY <1>0, <1>9, SenderGoes DEF LoopEnds, SenderPcs
  <2> QED
    BY <1>9, <2>1 DEF LoopEnds, At, Kinds, Clears
<1>10. ASSUME StopDrops
       PROVE  Kinds
  BY <1>10 DEF StopDrops, Kinds, Clears
<1>11. Kinds
  BY <1>1, <1>2, <1>3, <1>4, <1>5, <1>6, <1>7, <1>8, <1>9, <1>10 DEF Next, Loop, Stopping
<1> QED
  BY <1>11 DEF Kinds

(* Drop counts a sequence of reports.                                      *)
LEMMA DropAdds ==
  ASSUME dropped \in [Ids -> Nat], NEW s \in Seq(Ids), NEW i \in Ids
  PROVE  Drop(dropped, s) \in [Ids -> Nat] /\ Drop(dropped, s)[i] = dropped[i] + CountIn(i, s)
<1>1. \A j \in Ids : CountIn(j, s) \in Nat
  BY CountType
<1>2. Drop(dropped, s) = [j \in Ids |-> dropped[j] + CountIn(j, s)]
  BY DEF Drop, CountIn
<1> QED
  BY <1>1, <1>2

(* Drop counts one report.                                                 *)
LEMMA DropOne ==
  ASSUME dropped \in [Ids -> Nat], NEW x \in Ids, NEW i \in Ids
  PROVE  Drop(dropped, <<x>>) \in [Ids -> Nat] /\ Drop(dropped, <<x>>)[i] = dropped[i] + One(i, x)
<1>1. <<x>> \in Seq(Ids) /\ <<>> \in Seq(Ids) /\ <<x>> = Append(<<>>, x)
  OBVIOUS
<1>2. CountIn(i, <<x>>) = 0 + One(i, x)
  BY <1>1, CountAppend, CountEmpty
<1>3. One(i, x) \in Nat
  BY DEF One
<1>4. Drop(dropped, <<x>>) \in [Ids -> Nat]
  BY <1>1, DropAdds
<1>5. Drop(dropped, <<x>>)[i] = dropped[i] + CountIn(i, <<x>>)
  BY <1>1, DropAdds
<1>6. CountIn(i, <<x>>) = One(i, x)
  BY <1>2, <1>3
<1> QED
  BY <1>4, <1>5, <1>6

(* A step keeps every accepted report in one place, and the queue within   *)
(* its bound.                                                              *)
LEMMA ReportsStay ==
  ASSUME ReporterTypes, CallersSound, HandSound, Accounted, Next
  PROVE  /\ queue' \in Seq(Ids) /\ sender' \in SenderStates
         /\ taken' \in [Ids -> Nat] /\ sent' \in [Ids -> Nat] /\ dropped' \in [Ids -> Nat]
         /\ HandSound' /\ Accounted'
<1>0. /\ queue \in Seq(Ids) /\ sender \in SenderStates /\ MaxQueue \in Nat /\ NoId \notin Ids
      /\ taken \in [Ids -> Nat] /\ sent \in [Ids -> Nat] /\ dropped \in [Ids -> Nat]
      /\ Len(queue) \in Nat /\ Len(queue) <= MaxQueue
  BY ReporterAssumption DEF ReporterTypes, Accounted
<1>1. \A i \in Ids : /\ taken[i] = sent[i] + dropped[i] + CountIn(i, queue) + One(i, sender.hand)
                     /\ taken[i] \in Nat /\ sent[i] \in Nat /\ dropped[i] \in Nat
                     /\ CountIn(i, queue) \in Nat /\ One(i, NoId) = 0
  BY <1>0, CountType DEF Accounted, One
<1>2. \A i, x : One(i, x) \in Nat
  BY DEF One
<1> DEFINE Goal ==
         /\ queue' \in Seq(Ids) /\ sender' \in SenderStates
         /\ taken' \in [Ids -> Nat] /\ sent' \in [Ids -> Nat] /\ dropped' \in [Ids -> Nat]
         /\ HandSound' /\ Accounted'
           Sums == \A i \in Ids :
             taken'[i] = sent'[i] + dropped'[i] + CountIn(i, queue') + One(i, sender'.hand)
<1>3. ASSUME queue' \in Seq(Ids), sender' \in SenderStates, taken' \in [Ids -> Nat],
             sent' \in [Ids -> Nat], dropped' \in [Ids -> Nat], HandSound',
             Len(queue') <= MaxQueue, Sums
      PROVE  Goal
  BY <1>3 DEF Accounted
<1> HIDE DEF Goal
<1>4. ASSUME Moves
      PROVE  Goal
  <2>1. sender' \in SenderStates /\ sender'.hand = sender.hand
        /\ (sender'.pc = "send" <=> sender.pc = "send")
    BY <1>0, <1>4 DEF Moves, SenderTo
  <2>2. HandSound'
    BY <2>1 DEF HandSound
  <2>3. Sums
    BY <1>1, <1>4, <2>1 DEF Moves
  <2> QED
    BY <1>0, <1>3, <1>4, <2>1, <2>2, <2>3 DEF Moves
<1>5. ASSUME NEW x \in Ids, Pushes(x)
      PROVE  Goal
  <2>1. queue' \in Seq(Ids) /\ Len(queue') = Len(queue) + 1
    BY <1>0, <1>5 DEF Pushes
  <2>2. taken' \in [Ids -> Nat] /\ \A i \in Ids : taken'[i] = taken[i] + One(i, x)
    BY <1>0, <1>5 DEF Pushes, One
  <2>3. \A i \in Ids : CountIn(i, queue') = CountIn(i, queue) + One(i, x)
    BY <1>0, <1>5, CountAppend DEF Pushes
  <2>4. UNCHANGED <<sent, dropped, sender>> /\ Len(queue) < MaxQueue
    BY <1>5 DEF Pushes
  <2>5. Sums
    <3>1. ASSUME NEW i \in Ids
          PROVE  taken'[i] = sent'[i] + dropped'[i] + CountIn(i, queue') + One(i, sender'.hand)
      <4>1. /\ taken[i] = sent[i] + dropped[i] + CountIn(i, queue) + One(i, sender.hand)
            /\ taken[i] \in Nat /\ sent[i] \in Nat /\ dropped[i] \in Nat
            /\ CountIn(i, queue) \in Nat /\ One(i, sender.hand) \in Nat /\ One(i, x) \in Nat
        BY <1>1, <1>2
      <4>2. /\ taken'[i] = taken[i] + One(i, x) /\ sent'[i] = sent[i] /\ dropped'[i] = dropped[i]
            /\ CountIn(i, queue') = CountIn(i, queue) + One(i, x)
            /\ One(i, sender'.hand) = One(i, sender.hand)
        BY <2>2, <2>3, <2>4
      <4> QED
        BY <4>1, <4>2
    <3> QED
      BY <3>1
  <2>6. HandSound'
    BY <2>4 DEF HandSound
  <2> QED
    BY <1>0, <1>3, <2>1, <2>2, <2>4, <2>5, <2>6
<1>6. ASSUME Takes
      PROVE  Goal
  <2>1. /\ queue # <<>> /\ queue' = Tail(queue) /\ SenderTo("send", Head(queue))
        /\ UNCHANGED <<taken, sent, dropped>> /\ sender.hand = NoId
    BY <1>6 DEF Takes, HandSound
  <2>2. Head(queue) \in Ids /\ queue' \in Seq(Ids) /\ Len(queue') = Len(queue) - 1 /\ Len(queue) > 0
    BY <1>0, <2>1
  <2>3. \A i \in Ids : CountIn(i, queue) = One(i, Head(queue)) + CountIn(i, queue')
    BY <1>0, <2>1, CountHead
  <2>4. HandSound'
    BY <1>0, <2>1, <2>2 DEF HandSound, SenderTo
  <2>5. \A i \in Ids : CountIn(i, queue') \in Nat
    BY <2>2, CountType
  <2>6. Sums
    BY <1>1, <1>2, <2>1, <2>3, <2>5 DEF SenderTo
  <2> QED
    BY <1>0, <1>3, <2>1, <2>2, <2>4, <2>6 DEF SenderTo
<1>7. ASSUME Sends
      PROVE  Goal
  <2>0. PICK x \in Ids : x = sender.hand
    BY <1>7 DEF Sends, HandSound
  <2>1. /\ SenderTo("drain", NoId) /\ sent' = [sent EXCEPT ![x] = @ + 1]
        /\ UNCHANGED <<queue, taken, dropped>>
    BY <1>7, <2>0 DEF Sends
  <2>2. sent' \in [Ids -> Nat] /\ \A i \in Ids : sent'[i] = sent[i] + One(i, x)
    BY <1>0, <2>1 DEF One
  <2>3. HandSound'
    BY <2>1 DEF HandSound, SenderTo
  <2>4. Sums
    BY <1>1, <1>2, <2>0, <2>1, <2>2 DEF SenderTo
  <2> QED
    BY <1>0, <1>3, <2>1, <2>2, <2>3, <2>4 DEF SenderTo
<1>8. ASSUME Skips
      PROVE  Goal
  <2>0. PICK x \in Ids : x = sender.hand
    BY <1>8 DEF Skips, HandSound
  <2>1. /\ SenderTo("drain", NoId) /\ dropped' = Drop(dropped, <<x>>)
        /\ UNCHANGED <<queue, taken, sent>>
    BY <1>8, <2>0 DEF Skips
  <2>2. dropped' \in [Ids -> Nat] /\ \A i \in Ids : dropped'[i] = dropped[i] + One(i, x)
    BY <1>0, <2>0, <2>1, DropOne
  <2>3. HandSound'
    BY <2>1 DEF HandSound, SenderTo
  <2>4. Sums
    BY <1>1, <1>2, <2>0, <2>1, <2>2 DEF SenderTo
  <2> QED
    BY <1>0, <1>3, <2>1, <2>2, <2>3, <2>4 DEF SenderTo
<1>9. ASSUME PutsBack
      PROVE  Goal
  <2>0. PICK x \in Ids : x = sender.hand
    BY <1>9 DEF PutsBack, HandSound
  <2>1. SenderTo("top", NoId) /\ UNCHANGED <<taken, sent>> /\ MaxQueue > 0
    BY <1>9 DEF PutsBack, HandSound
  <2>2. HandSound'
    BY <2>1 DEF HandSound, SenderTo
  <2>3. CASE Len(queue) >= MaxQueue
    <3>1. queue' = <<x>> \o Front(queue) /\ dropped' = Drop(dropped, <<Last(queue)>>)
      BY <1>9, <2>0, <2>3 DEF PutsBack, Requeue
    <3>2. queue # <<>>
      BY <1>0, <2>1, <2>3
    <3>3. PICK y \in Ids : y = Last(queue)
      BY <1>0, <3>2, CountLast
    <3>4. PICK r \in Seq(Ids) : r = Front(queue)
      BY <1>0, <3>2, CountLast
    <3>5. /\ \A i \in Ids : CountIn(i, queue) = CountIn(i, r) + One(i, y)
          /\ Len(r) = Len(queue) - 1
      BY <1>0, <3>2, <3>3, <3>4, CountLast
    <3>6. \A i \in Ids : CountIn(i, queue') = One(i, x) + CountIn(i, r)
      BY <3>1, <3>4, CountCons
    <3>7. queue' \in Seq(Ids) /\ Len(queue') = Len(queue)
      BY <1>0, <3>1, <3>4, <3>5
    <3>8. dropped' \in [Ids -> Nat] /\ \A i \in Ids : dropped'[i] = dropped[i] + One(i, y)
      BY <1>0, <2>0, <3>1, <3>3, DropOne
    <3>9. \A i \in Ids : CountIn(i, r) \in Nat
      BY CountType
    <3>10. Sums
      <4>1. ASSUME NEW i \in Ids
            PROVE  taken'[i] = sent'[i] + dropped'[i] + CountIn(i, queue') + One(i, sender'.hand)
        <5>1. /\ taken[i] = sent[i] + dropped[i] + CountIn(i, queue) + One(i, x)
              /\ taken[i] \in Nat /\ sent[i] \in Nat /\ dropped[i] \in Nat
              /\ CountIn(i, r) \in Nat /\ One(i, x) \in Nat /\ One(i, y) \in Nat
          BY <1>1, <1>2, <2>0, <3>9
        <5>2. /\ taken'[i] = taken[i] /\ sent'[i] = sent[i] /\ dropped'[i] = dropped[i] + One(i, y)
              /\ CountIn(i, queue') = One(i, x) + CountIn(i, r)
              /\ CountIn(i, queue) = CountIn(i, r) + One(i, y)
          BY <2>1, <3>5, <3>6, <3>8
        <5>3. One(i, sender'.hand) = 0
          BY <1>1, <2>1 DEF SenderTo
        <5> QED
          BY <5>1, <5>2, <5>3
      <4> QED
        BY <4>1
    <3> QED
      BY <1>0, <1>3, <2>1, <2>2, <3>7, <3>8, <3>10 DEF SenderTo
  <2>4. CASE ~(Len(queue) >= MaxQueue)
    <3>1. queue' = <<x>> \o queue /\ dropped' = dropped
      BY <1>9, <2>0, <2>4 DEF PutsBack, Requeue
    <3>2. queue' \in Seq(Ids) /\ Len(queue') = Len(queue) + 1
      BY <1>0, <3>1
    <3>3. \A i \in Ids : CountIn(i, queue') = One(i, x) + CountIn(i, queue)
      BY <1>0, <3>1, CountCons
    <3>4. Sums
      BY <1>1, <1>2, <2>0, <2>1, <3>1, <3>3 DEF SenderTo
    <3>5. Len(queue') <= MaxQueue
      BY <1>0, <2>4, <3>2
    <3> QED
      BY <1>0, <1>3, <2>1, <2>2, <3>1, <3>2, <3>4, <3>5 DEF SenderTo
  <2> QED
    BY <2>3, <2>4
<1>10. ASSUME Clears
       PROVE  Goal
  <2>1. queue' = <<>> /\ dropped' = Drop(dropped, queue) /\ UNCHANGED <<taken, sent>>
    BY <1>10 DEF Clears, DropRest
  <2>2. sender' \in SenderStates /\ sender'.hand = sender.hand
        /\ (sender'.pc = "send" <=> sender.pc = "send")
    BY <1>0, <1>10 DEF Clears, SenderTo, HandSound
  <2>3. HandSound'
    BY <2>2 DEF HandSound
  <2>4. \A i \in Ids : CountIn(i, queue') = 0
    BY <2>1, CountEmpty
  <2>5. \A i \in Ids : dropped'[i] = dropped[i] + CountIn(i, queue)
    BY <1>0, <2>1, DropAdds
  <2>6. dropped' \in [Ids -> Nat]
    <3>1. \A j \in Ids : CountIn(j, queue) \in Nat
      BY <1>1
    <3>2. dropped' = [j \in Ids |-> dropped[j] + CountIn(j, queue)]
      BY <2>1 DEF Drop, CountIn
    <3> QED
      BY <1>0, <3>1, <3>2
  <2>7. Sums
    BY <1>1, <1>2, <2>1, <2>2, <2>4, <2>5
  <2>8. queue' \in Seq(Ids) /\ Len(queue') <= MaxQueue
    BY <1>0, <2>1
  <2> QED
    BY <1>0, <1>3, <2>1, <2>2, <2>3, <2>6, <2>7, <2>8
<1>11. Goal
  BY ReportKinds, <1>4, <1>5, <1>6, <1>7, <1>8, <1>9, <1>10
<1> QED
  BY <1>11 DEF Goal

(* A step keeps the callers sound.                                         *)
LEMMA CallersStay ==
  ASSUME ReporterTypes, CallersSound, Next
  PROVE  caller' \in CallerStates /\ CallersSound'
<1> DEFINE Sound == caller' \in CallerStates /\ CallersSound'
<1>1. ASSUME NEW c \in Callers, NEW pc \in {"idle", "lock", "notify"}, NEW i \in Ids \cup {NoId},
             CallerGo(c, pc, i), pc = "lock" => i \in Ids
      PROVE  Sound
  <2>1. caller \in CallerStates
    BY DEF ReporterTypes
  <2>2. /\ caller' \in CallerStates
        /\ \A d \in Callers : caller'[d] = IF d = c THEN [pc |-> pc, id |-> i] ELSE caller[d]
    BY <1>1, <2>1 DEF CallerGo, CallerStates
  <2>3. CallersSound'
    BY <1>1, <2>2 DEF CallersSound
  <2> QED
    BY <2>2, <2>3
<1>2. ASSUME caller' = caller
      PROVE  Sound
  BY <1>2 DEF ReporterTypes, CallersSound
<1> HIDE DEF Sound
<1>3. ASSUME NEW c \in Callers, TryReport(c)
      PROVE  Sound
  BY <1>1, <1>3 DEF TryReport
<1>4. ASSUME NEW c \in Callers, TryRefused(c) \/ TryPush(c) \/ TryNotify(c)
      PROVE  Sound
  BY <1>1, <1>4 DEF TryRefused, TryPush, TryNotify
<1>5. ASSUME CoolDown \/ Start \/ StartLoop \/ BackoffOver \/ StopCalled \/ Stopping \/ StopGivesUp
             \/ DeadlinePasses
      PROVE  Sound
  BY <1>2, <1>5 DEF CoolDown, Start, StartLoop, BackoffOver, StopCalled, Stopping, StopAccepting,
     StopDeadline, StopNotify, StopWaited, StopWakes, StopDrops, StopGivesUp, DeadlinePasses
<1>6. ASSUME Loop
      PROVE  Sound
  BY <1>2, <1>6 DEF Loop, LoopTop, Empty, WaitForReport, Due, Connect, Backoff, Pause, Resume,
     Take, SendOk, SendTooLarge, SendFails, LoopEnds, Finish
<1>7. Sound
  BY <1>3, <1>4, <1>5, <1>6 DEF Next
<1> QED
  BY <1>7 DEF Sound

(* A step keeps what the end of the sender rests on.                       *)
LEMMA EndStays ==
  ASSUME ReporterTypes, EndSound, Next
  PROVE  EndSound'
<1>0. sender \in SenderStates
  BY DEF ReporterTypes
<1>a. ASSUME NEW pc \in SenderPcs,
             \/ Go(pc) \/ GoOffline(pc) \/ sender' = [sender EXCEPT !.pc = pc, !.hand = NoId]
             \/ sender' = [sender EXCEPT !.pc = pc, !.sock = TRUE]
      PROVE  sender'.pc = pc
  BY <1>0, <1>a, SenderGoes DEF SenderTo
<1>1. ASSUME NEW c \in Callers, TryReport(c) \/ TryRefused(c) \/ TryNotify(c)
      PROVE  EndSound'
  BY <1>1 DEF TryReport, TryRefused, TryNotify, EndSound, StopBegan, flagVars, queueVars
<1>2. ASSUME NEW c \in Callers, TryPush(c)
      PROVE  EndSound'
  <2>1. accepting /\ UNCHANGED <<flagVars, sender, stopper>>
    BY <1>2 DEF TryPush, Refused
  <2> QED
    BY <2>1 DEF EndSound, StopBegan, flagVars
<1>3. ASSUME CoolDown \/ Start \/ BackoffOver \/ DeadlinePasses
      PROVE  EndSound'
  BY <1>3 DEF CoolDown, Start, BackoffOver, DeadlinePasses, EndSound, StopBegan, flagVars, queueVars
<1>4. ASSUME StartLoop
      PROVE  EndSound'
  <2>1. sender'.pc = "top"
    BY <1>4, <1>a DEF StartLoop, Go, SenderPcs
  <2> QED
    BY <1>4, <2>1 DEF StartLoop, EndSound, StopBegan, queueVars
<1>5. ASSUME StopCalled \/ StopAccepting \/ StopDeadline \/ StopNotify \/ StopWaited \/ StopWakes
             \/ StopGivesUp
      PROVE  EndSound'
  BY <1>5 DEF StopCalled, StopAccepting, StopDeadline, StopNotify, StopWaited, StopWakes, StopGivesUp,
     StopGo, EndSound, StopBegan, flagVars, queueVars
<1>6. ASSUME StopDrops
      PROVE  EndSound'
  BY <1>6 DEF StopDrops, DropRest, StopGo, EndSound, StopBegan, flagVars
<1>7. ASSUME LoopTop \/ Empty \/ WaitForReport \/ Due \/ Pause \/ Resume \/ Backoff
      PROVE  EndSound'
  <2>1. UNCHANGED <<flagVars, queueVars, stopper>> /\ sender.pc \notin {"off", "end", "finish", "over"}
    BY <1>7 DEF LoopTop, Empty, WaitForReport, Due, Pause, Resume, Backoff, At
  <2>2. sender'.pc \notin {"off", "finish", "over"} /\ (sender'.pc = "end" => ~running \/ ~accepting)
    BY <1>7, <1>a DEF LoopTop, Empty, WaitForReport, Due, Pause, Resume, Backoff, StopDue, SenderPcs
  <2> QED
    BY <2>1, <2>2 DEF EndSound, StopBegan, flagVars, queueVars
<1>8. ASSUME Connect \/ Take \/ SendOk \/ SendTooLarge \/ SendFails
      PROVE  EndSound'
  <2>1. UNCHANGED <<flagVars, stopper>> /\ sender.pc \in {"connect", "drain", "send"}
    BY <1>8 DEF Connect, Take, SendOk, SendTooLarge, SendFails, At
  <2>2. sender'.pc \in {"drain", "backoff", "top", "send"}
    <3>1. CASE Connect
      BY <3>1, <1>a DEF Connect, SenderPcs
    <3>2. CASE Take
      <4>1. CASE sender' = [sender EXCEPT !.pc = "send", !.hand = Head(queue)]
        BY <1>0, <4>1 DEF SenderStates
      <4>2. CASE GoOffline("top") \/ Go("top")
        BY <4>2, <1>a DEF SenderPcs
      <4> QED
        BY <3>2, <4>1, <4>2 DEF Take
    <3>3. CASE SendOk \/ SendTooLarge \/ SendFails
      BY <3>3, <1>a DEF SendOk, SendTooLarge, SendFails, SenderPcs
    <3> QED
      BY <1>8, <3>1, <3>2, <3>3
  <2> QED
    BY <2>1, <2>2 DEF EndSound, StopBegan, flagVars
<1>9. ASSUME LoopEnds
      PROVE  EndSound'
  <2>1. sender'.pc = "finish" /\ sender.pc = "end"
    BY <1>9, <1>a DEF LoopEnds, At, SenderPcs
  <2> QED
    BY <1>9, <2>1 DEF LoopEnds, DropRest, EndSound, StopBegan, flagVars
<1>10. ASSUME Finish
       PROVE  EndSound'
  <2>1. sender'.pc = "over" /\ sender.pc = "finish"
    BY <1>10, <1>a DEF Finish, At, SenderPcs
  <2> QED
    BY <1>10, <2>1 DEF Finish, EndSound, StopBegan, queueVars
<1> QED
  BY <1>1, <1>2, <1>3, <1>4, <1>5, <1>6, <1>7, <1>8, <1>9, <1>10 DEF Next, Loop, Stopping

(* Initially there is no report.                                           *)
LEMMA ReporterStarts ==
  ASSUME Init
  PROVE  ReporterInv
<1>1. ReporterTypes
  <2>1. caller \in CallerStates
    BY DEF Init, CallerStates
  <2>2. sender \in SenderStates
    BY DEF Init, SenderStates, SenderPcs
  <2> QED
    BY <2>1, <2>2 DEF Init, ReporterTypes, Zero
<1>2. CallersSound /\ HandSound /\ EndSound
  BY DEF Init, CallersSound, HandSound, EndSound, StopBegan
<1>3. Accounted
  <2>1. \A i \in Ids : One(i, sender.hand) = 0
    BY ReporterAssumption DEF Init, One
  <2>2. \A i \in Ids : CountIn(i, queue) = 0
    BY CountEmpty DEF Init
  <2>3. \A i \in Ids : taken[i] = 0 /\ sent[i] = 0 /\ dropped[i] = 0
    BY DEF Init, Zero
  <2>4. Len(queue) <= MaxQueue
    BY ReporterAssumption DEF Init
  <2> QED
    BY <2>1, <2>2, <2>3, <2>4 DEF Accounted
<1> QED
  BY <1>1, <1>2, <1>3 DEF ReporterInv

(* Every step of the reporter keeps the invariant.                         *)
LEMMA ReporterInductive == Spec => []ReporterInv
<1>1. ASSUME ReporterInv, [Next]_vars
      PROVE  ReporterInv'
  <2>1. CASE Next
    <3>1. ReporterTypes /\ CallersSound /\ HandSound /\ Accounted /\ EndSound
      BY <1>1 DEF ReporterInv
    <3>2. /\ queue' \in Seq(Ids) /\ sender' \in SenderStates
          /\ taken' \in [Ids -> Nat] /\ sent' \in [Ids -> Nat] /\ dropped' \in [Ids -> Nat]
          /\ HandSound' /\ Accounted'
      BY <2>1, <3>1, ReportsStay
    <3>3. caller' \in CallerStates /\ CallersSound'
      BY <2>1, <3>1, CallersStay
    <3>4. EndSound'
      BY <2>1, <3>1, EndStays
    <3>5. ReporterTypes'
      BY <3>2, <3>3 DEF ReporterTypes
    <3> QED
      BY <3>2, <3>3, <3>4, <3>5 DEF ReporterInv
  <2>2. CASE UNCHANGED vars
    BY <1>1, <2>2 DEF vars, ReporterInv, ReporterTypes, CallersSound, HandSound, Accounted, CountIn,
       EndSound, StopBegan
  <2> QED
    BY <1>1, <2>1, <2>2
<1> QED
  BY <1>1, ReporterStarts, PTL DEF Spec

(* For every number of callers, ids and every bound of the queue: each     *)
(* report that tryReport accepted is queued, in the hand of the sender,    *)
(* sent, or counted as dropped, exactly one of these; the queue keeps its  *)
(* bound when a report goes back to it; and nothing is queued once the     *)
(* sender has ended, although callers and stop() run beside it.            *)
THEOREM ReportsAreAccounted == Spec => []ReportsAccounted
<1>1. ReporterInv => ReportsAccounted
  <2>1. \A i : Queued(i) = CountIn(i, queue)
    BY DEF Queued, CountIn
  <2>2. \A i : One(i, sender.hand) = IF sender.hand = i THEN 1 ELSE 0
    BY DEF One
  <2> QED
    BY <2>1, <2>2 DEF ReporterInv, Accounted, EndSound, ReportsAccounted
<1> QED
  BY <1>1, ReporterInductive, PTL
=============================================================================
