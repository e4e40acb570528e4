--------------------------- MODULE HubDaemonProofs ---------------------------
(***************************************************************************)
(* HubDaemon is safe for any number of connections, callbacks and reactor  *)
(* threads. The argument: m_active is the number of users (Count); whoever *)
(* closes the database came to it after the count fell to zero (Order), and*)
(* from zero it never rises, because only accept loops, which are users    *)
(* themselves, take new ones. The expiry callback, which is not counted, is*)
(* kept away by m_editMtx: the stop clears m_running while it holds it.    *)
(***************************************************************************)
EXTENDS HubDaemon, FiniteSetTheorems, TLAPS

(* Where a coroutine is after it left the count.                           *)
Ends == {"last", "finish", "flush", "flushed", "gone"}
InEdit == {"offload", "wake"}
InFinish == {"finish", "flush", "flushed"}

SideAt == {"accept", "armed", "canceled", "serve", "add", "start", "look", "drop"}
RequestAt == {"begin", "recv", "armed", "canceled", "blocked", "offload", "wake", "close", "drop"}

(* Every kind of coroutine keeps to its own places.                        *)
Places ==
    /\ \A a \in Sides : pc[a] \in SideAt \cup Ends
    /\ \A a \in RequestSides : pc[a] \notin {"add", "start", "look"}
    /\ \A c \in Requests : pc[c] \in RequestAt \cup Ends \cup {"none"}
    /\ \A t \in Ticks : pc[t] \in InEdit \cup {"none", "blocked"}
    /\ \A s \in Subs : pc[s] \in {"none", "live", "leaked", "drop"} \cup Ends
    /\ pc[Main] \in InFinish \cup {"run", "shut", "closing", "stopAll", "check", "wait", "forcing",
                                   "end"}

(* The connection that an accept loop holds was not served before.         *)
Serves ==
    /\ pc["submit"] = "serve" => got["submit"] \in Submitters /\ pc[got["submit"]] = "none"
    /\ "admin" \in Sides /\ pc["admin"] = "serve" => got["admin"] \in Admins /\ pc[got["admin"]] = "none"
    /\ pc["sub"] \in {"serve", "add", "start"} =>
          got["sub"] \in Subs /\ pc[got["sub"]] = "none"
    /\ pc["sub"] = "look" => got["sub"] \in Subs

(* An edit under way holds m_editMtx, and the daemon runs as long as it is.*)
Locks ==
    /\ \A c \in Editors : pc[c] \in InEdit => editMtx = c /\ running
    /\ \A c \in Coros \cup {Main} : pc[c] \in {"flush", "flushed"} =>
          finishMtx = c /\ ~stopped

(* The order of a stop.                                                    *)
Order ==
    /\ (running <=> ~stopping) /\ (pc[Main] = "run" <=> running)
    /\ \A c \in Coros : pc[c] = "last" => active = 0
    /\ \A c \in Coros \cup {Main} : pc[c] \in InFinish => active = 0 /\ stopping
    /\ stopped => active = 0 /\ stopping
    /\ db <=> ~stopped
    /\ closes = IF stopped THEN 1 ELSE 0

(* A registered session is served, or about to be.                         *)
Entering(s) == pc["sub"] \in {"add", "start"} /\ got["sub"] = s
Registered == \A s \in registry : pc[s] \in {"live", "leaked"} \/ Entering(s)

(* m_active counts the users.                                              *)
Counted == {c \in Sides \cup Requests \cup Subs :
              \/ c \in Sides /\ pc[c] \in SideAt
              \/ c \in Requests /\ pc[c] \in RequestAt
              \/ c \in Subs /\ (pc[c] \in {"live", "leaked", "drop"} \/ Entering(c))}
Count == active = Cardinality(Counted)

DaemonInv == TypeOK /\ Places /\ Serves /\ Locks /\ Order /\ Registered /\ Count

-----------------------------------------------------------------------------
(* What the provers need to know of the count.                             *)

LEMMA CountedFinite == IsFiniteSet(Counted) /\ Cardinality(Counted) \in Nat
  <1>1. Counted \in SUBSET Coros
    BY DEF Counted, Coros, Editors
  <1>2. IsFiniteSet(Counted)
    BY <1>1, FS_Subset, DaemonAssumption
  <1> QED
    BY <1>2, FS_CardinalityType

LEMMA CountedGrows ==
  ASSUME Count, NEW x, x \notin Counted, Counted' = Counted \cup {x}, active' = active + 1
  PROVE  Count' /\ active' \in Nat
  BY CountedFinite, FS_AddElement DEF Count

LEMMA CountedShrinks ==
  ASSUME Count, NEW x, x \in Counted, Counted' = Counted \ {x}, active' = active - 1
  PROVE  Count' /\ active' \in Nat
  <1>1. Cardinality(Counted') = Cardinality(Counted) - 1 /\ IsFiniteSet(Counted')
    BY CountedFinite, FS_RemoveElement
  <1>2. Cardinality(Counted') \in Nat
    BY <1>1, FS_CardinalityType
  <1> QED
    BY <1>1, <1>2 DEF Count

LEMMA CountedStays ==
  ASSUME Count, Counted' = Counted, active' = active
  PROVE  Count' /\ active' \in Nat
  BY CountedFinite DEF Count

LEMMA NobodyAtZero ==
  ASSUME Count, active = 0
  PROVE  Counted = {}
  BY CountedFinite, FS_EmptySet DEF Count

LEMMA InitInv == Init => DaemonInv
  <1> SUFFICES ASSUME Init PROVE DaemonInv
    OBVIOUS
  <1> USE DaemonAssumption DEF Init
  <1>1. Counted = Sides
    BY DEF Counted, Entering, SideAt, RequestAt, Coros, Editors, Requests, Sides, RequestSides
  <1>2. Count
    BY <1>1 DEF Count
  <1>3. TypeOK
    BY <1>2, CountedFinite DEF TypeOK, Count, Coros, Editors, Requests, Sides, RequestSides
  <1>4. Places /\ Serves /\ Locks /\ Registered
    BY DEF Places, Serves, Locks, Registered, Coros, Editors, Requests, Sides,
           RequestSides, Ends, InEdit, InFinish, SideAt, RequestAt
  <1>5. Order
    BY DEF Order, Coros, Editors, Requests, Sides, RequestSides, InFinish
  <1> QED
    BY <1>2, <1>3, <1>4, <1>5 DEF DaemonInv

(* Every step keeps the invariant; first what it does to the count, then to*)
(* each part.                                                              *)
LEMMA StepInv == DaemonInv /\ [Next]_vars => DaemonInv'
  <1> SUFFICES ASSUME DaemonInv, [Next]_vars PROVE DaemonInv'
    OBVIOUS
  <1> USE DaemonAssumption
          DEF DaemonInv, Goto, flags, Coros, Editors, Requests, Sides,
              RequestSides, Ends, InEdit, InFinish, SideAt, RequestAt
  <1>1. ASSUME NEW a \in Sides, Accept(a) PROVE DaemonInv'
    <2> USE <1>1 DEF Accept, Peers
    <2>1. Counted' = Counted
      BY DEF TypeOK, Places, Serves, Counted, Entering
    <2>2. Count' /\ active' \in Nat
      BY <2>1, CountedStays
    <2>3. TypeOK'
      BY <2>2 DEF TypeOK, Places, Serves
    <2>4. Places' /\ Serves'
      BY DEF TypeOK, Places, Serves
    <2>5. Locks'
      BY DEF TypeOK, Places, Serves, Locks, Order
    <2>6. Registered'
      BY DEF TypeOK, Places, Serves, Registered, Entering
    <2>7. Order'
      BY DEF TypeOK, Places, Serves, Locks, Order
    <2> QED
      BY <2>2, <2>3, <2>4, <2>5, <2>6, <2>7
  <1>2. ASSUME NEW a \in Sides, AcceptEnds(a) PROVE DaemonInv'
    <2> USE <1>2 DEF AcceptEnds
    <2>1. Counted' = Counted
      BY DEF TypeOK, Places, Serves, Counted, Entering
    <2>2. Count' /\ active' \in Nat
      BY <2>1, CountedStays
    <2>3. TypeOK'
      BY <2>2 DEF TypeOK, Places, Serves
    <2>4. Places' /\ Serves'
      BY DEF TypeOK, Places, Serves
    <2>5. Locks'
      BY DEF TypeOK, Places, Serves, Locks, Order
    <2>6. Registered'
      BY DEF TypeOK, Places, Serves, Registered, Entering
    <2>7. Order'
      BY DEF TypeOK, Places, Serves, Locks, Order
    <2> QED
      BY <2>2, <2>3, <2>4, <2>5, <2>6, <2>7
  <1>3. ASSUME NEW a \in RequestSides, ServeRequest(a) PROVE DaemonInv'
    <2> USE <1>3 DEF ServeRequest
    <2>1. got[a] \notin Counted /\ Counted' = Counted \cup {got[a]}
      BY DEF TypeOK, Places, Serves, Counted, Entering
    <2>2. Count' /\ active' \in Nat
      BY <2>1, CountedGrows
    <2>8. active # 0
      <3>1. a \in Counted
        BY DEF TypeOK, Places, Counted
      <3> QED
        BY <3>1, NobodyAtZero
    <2>3. TypeOK'
      BY <2>2 DEF TypeOK, Places, Serves
    <2>4. Places' /\ Serves'
      BY DEF TypeOK, Places, Serves
    <2>5. Locks'
      BY DEF TypeOK, Places, Serves, Locks, Order
    <2>6. Registered'
      BY DEF TypeOK, Places, Serves, Registered, Entering
    <2>7. Order'
      BY <2>2, <2>8 DEF TypeOK, Places, Serves, Locks, Order
    <2> QED
      BY <2>2, <2>3, <2>4, <2>5, <2>6, <2>7
  <1>4. ASSUME HoldSession PROVE DaemonInv'
    <2> USE <1>4 DEF HoldSession
    <2>1. got["sub"] \notin Counted /\ Counted' = Counted \cup {got["sub"]}
      BY DEF TypeOK, Places, Serves, Counted, Entering
    <2>2. Count' /\ active' \in Nat
      BY <2>1, CountedGrows
    <2>8. active # 0
      <3>1. "sub" \in Counted
        BY DEF TypeOK, Places, Counted
      <3> QED
        BY <3>1, NobodyAtZero
    <2>3. TypeOK'
      BY <2>2 DEF TypeOK, Places, Serves
    <2>4. Places' /\ Serves'
      BY DEF TypeOK, Places, Serves
    <2>5. Locks'
      BY DEF TypeOK, Places, Serves, Locks, Order
    <2>6. Registered'
      BY DEF TypeOK, Places, Serves, Registered, Entering
    <2>7. Order'
      BY <2>2, <2>8 DEF TypeOK, Places, Serves, Locks, Order
    <2> QED
      BY <2>2, <2>3, <2>4, <2>5, <2>6, <2>7
  <1>5. ASSUME AddSession PROVE DaemonInv'
    <2> USE <1>5 DEF AddSession
    <2>1. Counted' = Counted
      BY DEF TypeOK, Places, Serves, Counted, Entering
    <2>2. Count' /\ active' \in Nat
      BY <2>1, CountedStays
    <2>3. TypeOK'
      BY <2>2 DEF TypeOK, Places, Serves
    <2>4. Places' /\ Serves'
      BY DEF TypeOK, Places, Serves
    <2>5. Locks'
      BY DEF TypeOK, Places, Serves, Locks, Order
    <2>6. Registered'
      BY DEF TypeOK, Places, Serves, Registered, Entering
    <2>7. Order'
      BY DEF TypeOK, Places, Serves, Locks, Order
    <2> QED
      BY <2>2, <2>3, <2>4, <2>5, <2>6, <2>7
  <1>6. ASSUME StartSession PROVE DaemonInv'
    <2> USE <1>6 DEF StartSession
    <2>1. Counted' = Counted
      BY DEF TypeOK, Places, Serves, Counted, Entering
    <2>2. Count' /\ active' \in Nat
      BY <2>1, CountedStays
    <2>3. TypeOK'
      BY <2>2 DEF TypeOK, Places, Serves
    <2>4. Places' /\ Serves'
      BY DEF TypeOK, Places, Serves
    <2>5. Locks'
      BY DEF TypeOK, Places, Serves, Locks, Order
    <2>6. Registered'
      BY DEF TypeOK, Places, Serves, Registered, Entering
    <2>7. Order'
      BY DEF TypeOK, Places, Serves, Locks, Order
    <2> QED
      BY <2>2, <2>3, <2>4, <2>5, <2>6, <2>7
  <1>7. ASSUME LookAgain PROVE DaemonInv'
    <2> USE <1>7 DEF LookAgain, Unleaked
    <2>1. Counted' = Counted
      BY DEF TypeOK, Places, Serves, Counted, Entering
    <2>2. Count' /\ active' \in Nat
      BY <2>1, CountedStays
    <2>3. TypeOK'
      BY <2>2 DEF TypeOK, Places, Serves
    <2>4. Places' /\ Serves'
      BY DEF TypeOK, Places, Serves
    <2>5. Locks'
      BY DEF TypeOK, Places, Serves, Locks, Order
    <2>6. Registered'
      BY DEF TypeOK, Places, Serves, Registered, Entering
    <2>7. Order'
      BY DEF TypeOK, Places, Serves, Locks, Order
    <2> QED
      BY <2>2, <2>3, <2>4, <2>5, <2>6, <2>7
  <1>8. ASSUME NEW c \in Coros, PeerCloses(c) PROVE DaemonInv'
    <2> USE <1>8 DEF PeerCloses
    <2>1. Counted' = Counted
      BY DEF TypeOK, Places, Serves, Counted, Entering
    <2>2. Count' /\ active' \in Nat
      BY <2>1, CountedStays
    <2>3. TypeOK'
      BY <2>2 DEF TypeOK, Places, Serves
    <2>4. Places' /\ Serves'
      BY DEF TypeOK, Places, Serves
    <2>5. Locks'
      BY DEF TypeOK, Places, Serves, Locks, Order
    <2>6. Registered'
      BY DEF TypeOK, Places, Serves, Registered, Entering
    <2>7. Order'
      BY DEF TypeOK, Places, Serves, Locks, Order
    <2> QED
      BY <2>2, <2>3, <2>4, <2>5, <2>6, <2>7
  <1>9. ASSUME NEW s \in Subs, SessionEnds(s) PROVE DaemonInv'
    <2> USE <1>9 DEF SessionEnds
    <2>1. Counted' = Counted
      BY DEF TypeOK, Places, Serves, Counted, Entering
    <2>2. Count' /\ active' \in Nat
      BY <2>1, CountedStays
    <2>3. TypeOK'
      BY <2>2 DEF TypeOK, Places, Serves
    <2>4. Places' /\ Serves'
      BY DEF TypeOK, Places, Serves
    <2>5. Locks'
      BY DEF TypeOK, Places, Serves, Locks, Order
    <2>6. Registered'
      BY DEF TypeOK, Places, Serves, Registered, Entering
    <2>7. Order'
      BY DEF TypeOK, Places, Serves, Locks, Order
    <2> QED
      BY <2>2, <2>3, <2>4, <2>5, <2>6, <2>7
  <1>10. ASSUME NEW c \in Requests, Begin(c) PROVE DaemonInv'
    <2> USE <1>10 DEF Begin
    <2>1. Counted' = Counted
      BY DEF TypeOK, Places, Serves, Counted, Entering
    <2>2. Count' /\ active' \in Nat
      BY <2>1, CountedStays
    <2>3. TypeOK'
      BY <2>2 DEF TypeOK, Places, Serves
    <2>4. Places' /\ Serves'
      BY DEF TypeOK, Places, Serves
    <2>5. Locks'
      BY DEF TypeOK, Places, Serves, Locks, Order
    <2>6. Registered'
      BY DEF TypeOK, Places, Serves, Registered, Entering
    <2>7. Order'
      BY DEF TypeOK, Places, Serves, Locks, Order
    <2> QED
      BY <2>2, <2>3, <2>4, <2>5, <2>6, <2>7
  <1>11. ASSUME NEW c \in Requests, RecvFails(c) PROVE DaemonInv'
    <2> USE <1>11 DEF RecvFails
    <2>1. Counted' = Counted
      BY DEF TypeOK, Places, Serves, Counted, Entering
    <2>2. Count' /\ active' \in Nat
      BY <2>1, CountedStays
    <2>3. TypeOK'
      BY <2>2 DEF TypeOK, Places, Serves
    <2>4. Places' /\ Serves'
      BY DEF TypeOK, Places, Serves
    <2>5. Locks'
      BY DEF TypeOK, Places, Serves, Locks, Order
    <2>6. Registered'
      BY DEF TypeOK, Places, Serves, Registered, Entering
    <2>7. Order'
      BY DEF TypeOK, Places, Serves, Locks, Order
    <2> QED
      BY <2>2, <2>3, <2>4, <2>5, <2>6, <2>7
  <1>12. ASSUME NEW c \in Requests, CloseRequest(c) PROVE DaemonInv'
    <2> USE <1>12 DEF CloseRequest
    <2>1. Counted' = Counted
      BY DEF TypeOK, Places, Serves, Counted, Entering
    <2>2. Count' /\ active' \in Nat
      BY <2>1, CountedStays
    <2>3. TypeOK'
      BY <2>2 DEF TypeOK, Places, Serves
    <2>4. Places' /\ Serves'
      BY DEF TypeOK, Places, Serves
    <2>5. Locks'
      BY DEF TypeOK, Places, Serves, Locks, Order
    <2>6. Registered'
      BY DEF TypeOK, Places, Serves, Registered, Entering
    <2>7. Order'
      BY DEF TypeOK, Places, Serves, Locks, Order
    <2> QED
      BY <2>2, <2>3, <2>4, <2>5, <2>6, <2>7
  <1>13. ASSUME NEW c \in Editors, LockEdit(c) PROVE DaemonInv'
    <2> USE <1>13 DEF LockEdit, Arrives, Enter, AfterEdit, Refuses
    <2>1. Counted' = Counted
      BY DEF TypeOK, Places, Serves, Counted, Entering
    <2>2. Count' /\ active' \in Nat
      BY <2>1, CountedStays
    <2>3. TypeOK'
      BY <2>2 DEF TypeOK, Places, Serves
    <2>4. Places' /\ Serves'
      BY DEF TypeOK, Places, Serves
    <2>5. Locks'
      BY DEF TypeOK, Places, Serves, Locks, Order
    <2>6. Registered'
      BY DEF TypeOK, Places, Serves, Registered, Entering
    <2>7. Order'
      BY DEF TypeOK, Places, Serves, Locks, Order
    <2> QED
      BY <2>2, <2>3, <2>4, <2>5, <2>6, <2>7
  <1>14. ASSUME NEW c \in Editors, GetEdit(c) PROVE DaemonInv'
    <2> USE <1>14 DEF GetEdit, Enter, AfterEdit, Refuses
    <2>1. Counted' = Counted
      BY DEF TypeOK, Places, Serves, Counted, Entering
    <2>2. Count' /\ active' \in Nat
      BY <2>1, CountedStays
    <2>3. TypeOK'
      BY <2>2 DEF TypeOK, Places, Serves
    <2>4. Places' /\ Serves'
      BY DEF TypeOK, Places, Serves
    <2>5. Locks'
      BY DEF TypeOK, Places, Serves, Locks, Order
    <2>6. Registered'
      BY DEF TypeOK, Places, Serves, Registered, Entering
    <2>7. Order'
      BY DEF TypeOK, Places, Serves, Locks, Order
    <2> QED
      BY <2>2, <2>3, <2>4, <2>5, <2>6, <2>7
  <1>15. ASSUME NEW c \in Editors, Resume(c) PROVE DaemonInv'
    <2> USE <1>15 DEF Resume, AfterEdit
    <2>1. Counted' = Counted
      BY DEF TypeOK, Places, Serves, Counted, Entering
    <2>2. Count' /\ active' \in Nat
      BY <2>1, CountedStays
    <2>3. TypeOK'
      BY <2>2 DEF TypeOK, Places, Serves
    <2>4. Places' /\ Serves'
      BY DEF TypeOK, Places, Serves
    <2>5. Locks'
      BY DEF TypeOK, Places, Serves, Locks, Order
    <2>6. Registered'
      BY DEF TypeOK, Places, Serves, Registered, Entering
    <2>7. Order'
      BY DEF TypeOK, Places, Serves, Locks, Order
    <2> QED
      BY <2>2, <2>3, <2>4, <2>5, <2>6, <2>7
  <1>16. ASSUME NEW c \in Coros \cup {Main}, PoolDone(c) PROVE DaemonInv'
    <2> USE <1>16 DEF PoolDone
    <2>1. Counted' = Counted
      BY DEF TypeOK, Places, Serves, Counted, Entering
    <2>2. Count' /\ active' \in Nat
      BY <2>1, CountedStays
    <2>3. TypeOK'
      BY <2>2 DEF TypeOK, Places, Serves
    <2>4. Places' /\ Serves'
      BY DEF TypeOK, Places, Serves
    <2>5. Locks'
      BY DEF TypeOK, Places, Serves, Locks, Order
    <2>6. Registered'
      BY DEF TypeOK, Places, Serves, Registered, Entering
    <2>7. Order'
      BY DEF TypeOK, Places, Serves, Locks, Order
    <2> QED
      BY <2>2, <2>3, <2>4, <2>5, <2>6, <2>7
  <1>17. ASSUME NEW c \in Coros, Drop(c) PROVE DaemonInv'
    <2> USE <1>17 DEF Drop
    <2>1. c \in Counted /\ Counted' = Counted \ {c}
      BY DEF TypeOK, Places, Serves, Counted, Entering
    <2>2. Count' /\ active' \in Nat
      BY <2>1, CountedShrinks
    <2>8. active # 0
      <3>1. c \in Counted
        BY DEF TypeOK, Places, Counted
      <3> QED
        BY <3>1, NobodyAtZero
    <2>3. TypeOK'
      BY <2>2 DEF TypeOK, Places, Serves
    <2>4. Places' /\ Serves'
      BY DEF TypeOK, Places, Serves
    <2>5. Locks'
      BY DEF TypeOK, Places, Serves, Locks, Order
    <2>6. Registered'
      BY DEF TypeOK, Places, Serves, Registered, Entering
    <2>7. Order'
      BY <2>2, <2>8 DEF TypeOK, Places, Serves, Locks, Order
    <2> QED
      BY <2>2, <2>3, <2>4, <2>5, <2>6, <2>7
  <1>18. ASSUME NEW c \in Coros, Last(c) PROVE DaemonInv'
    <2> USE <1>18 DEF Last
    <2>1. Counted' = Counted
      BY DEF TypeOK, Places, Serves, Counted, Entering
    <2>2. Count' /\ active' \in Nat
      BY <2>1, CountedStays
    <2>3. TypeOK'
      BY <2>2 DEF TypeOK, Places, Serves
    <2>4. Places' /\ Serves'
      BY DEF TypeOK, Places, Serves
    <2>5. Locks'
      BY DEF TypeOK, Places, Serves, Locks, Order
    <2>6. Registered'
      BY DEF TypeOK, Places, Serves, Registered, Entering
    <2>7. Order'
      BY DEF TypeOK, Places, Serves, Locks, Order
    <2> QED
      BY <2>2, <2>3, <2>4, <2>5, <2>6, <2>7
  <1>19. ASSUME NEW c \in Coros \cup {Main}, FinishLock(c) PROVE DaemonInv'
    <2> USE <1>19 DEF FinishLock, Finished
    <2>1. Counted' = Counted
      BY DEF TypeOK, Places, Serves, Counted, Entering
    <2>2. Count' /\ active' \in Nat
      BY <2>1, CountedStays
    <2>3. TypeOK'
      BY <2>2 DEF TypeOK, Places, Serves
    <2>4. Places' /\ Serves'
      BY DEF TypeOK, Places, Serves
    <2>5. Locks'
      BY DEF TypeOK, Places, Serves, Locks, Order
    <2>6. Registered'
      BY DEF TypeOK, Places, Serves, Registered, Entering
    <2>7. Order'
      BY DEF TypeOK, Places, Serves, Locks, Order
    <2> QED
      BY <2>2, <2>3, <2>4, <2>5, <2>6, <2>7
  <1>20. ASSUME NEW c \in Coros \cup {Main}, FinishEnds(c) PROVE DaemonInv'
    <2> USE <1>20 DEF FinishEnds
    <2>1. Finished(c) = (IF c = Main THEN "wait" ELSE "gone") /\ closes' \in Nat
      BY DEF TypeOK, Finished
    <2>2. Counted' = Counted
      BY <2>1 DEF TypeOK, Places, Serves, Counted, Entering
    <2>3. Count' /\ active' \in Nat
      BY <2>2, CountedStays
    <2>4. Finished(c) \in {"wait", "gone"}
      BY <2>1
    <2>5. TypeOK'
      BY <2>1, <2>3, <2>4 DEF TypeOK
    <2>6. Places' /\ Serves'
      BY <2>1 DEF TypeOK, Places, Serves
    <2>7. Locks'
      BY <2>1 DEF TypeOK, Places, Serves, Locks, Order
    <2>8. Registered'
      BY <2>1 DEF TypeOK, Places, Serves, Registered, Entering
    <2>9. Order'
      BY <2>1 DEF TypeOK, Places, Serves, Locks, Order
    <2> QED
      BY <2>3, <2>5, <2>6, <2>7, <2>8, <2>9
  <1>21. ASSUME BeginStop PROVE DaemonInv'
    <2> USE <1>21 DEF BeginStop
    <2>1. Counted' = Counted
      BY DEF TypeOK, Places, Serves, Counted, Entering
    <2>2. Count' /\ active' \in Nat
      BY <2>1, CountedStays
    <2>3. TypeOK'
      BY <2>2 DEF TypeOK, Places, Serves
    <2>4. Places' /\ Serves'
      BY DEF TypeOK, Places, Serves
    <2>5. Locks'
      BY DEF TypeOK, Places, Serves, Locks, Order
    <2>6. Registered'
      BY DEF TypeOK, Places, Serves, Registered, Entering
    <2>7. Order'
      BY DEF TypeOK, Places, Serves, Locks, Order
    <2> QED
      BY <2>2, <2>3, <2>4, <2>5, <2>6, <2>7
  <1>22. ASSUME Shut PROVE DaemonInv'
    <2> USE <1>22 DEF Shut, Aborted
    <2>1. Counted' = Counted
      BY DEF TypeOK, Places, Serves, Counted, Entering
    <2>2. Count' /\ active' \in Nat
      BY <2>1, CountedStays
    <2>3. TypeOK'
      BY <2>2 DEF TypeOK, Places, Serves
    <2>4. Places' /\ Serves'
      BY DEF TypeOK, Places, Serves
    <2>5. Locks'
      BY DEF TypeOK, Places, Serves, Locks, Order
    <2>6. Registered'
      BY DEF TypeOK, Places, Serves, Registered, Entering
    <2>7. Order'
      BY DEF TypeOK, Places, Serves, Locks, Order
    <2> QED
      BY <2>2, <2>3, <2>4, <2>5, <2>6, <2>7
  <1>23. ASSUME StopAll PROVE DaemonInv'
    <2> USE <1>23 DEF StopAll
    <2>1. Counted' = Counted
      BY DEF TypeOK, Places, Serves, Counted, Entering
    <2>2. Count' /\ active' \in Nat
      BY <2>1, CountedStays
    <2>3. TypeOK'
      BY <2>2 DEF TypeOK, Places, Serves
    <2>4. Places' /\ Serves'
      BY DEF TypeOK, Places, Serves
    <2>5. Locks'
      BY DEF TypeOK, Places, Serves, Locks, Order
    <2>6. Registered'
      BY DEF TypeOK, Places, Serves, Registered, Entering
    <2>7. Order'
      BY DEF TypeOK, Places, Serves, Locks, Order
    <2> QED
      BY <2>2, <2>3, <2>4, <2>5, <2>6, <2>7
  <1>24. ASSUME Check PROVE DaemonInv'
    <2> USE <1>24 DEF Check
    <2>1. Counted' = Counted
      BY DEF TypeOK, Places, Serves, Counted, Entering
    <2>2. Count' /\ active' \in Nat
      BY <2>1, CountedStays
    <2>3. TypeOK'
      BY <2>2 DEF TypeOK, Places, Serves
    <2>4. Places' /\ Serves'
      BY DEF TypeOK, Places, Serves
    <2>5. Locks'
      BY DEF TypeOK, Places, Serves, Locks, Order
    <2>6. Registered'
      BY DEF TypeOK, Places, Serves, Registered, Entering
    <2>7. Order'
      BY DEF TypeOK, Places, Serves, Locks, Order
    <2> QED
      BY <2>2, <2>3, <2>4, <2>5, <2>6, <2>7
  <1>25. ASSUME ForceStop PROVE DaemonInv'
    <2> USE <1>25 DEF ForceStop, Aborted, Serving
    <2>1. Counted' = Counted
      BY DEF TypeOK, Places, Serves, Counted, Entering
    <2>2. Count' /\ active' \in Nat
      BY <2>1, CountedStays
    <2>3. TypeOK'
      BY <2>2 DEF TypeOK, Places, Serves
    <2>4. Places' /\ Serves'
      BY DEF TypeOK, Places, Serves
    <2>5. Locks'
      BY DEF TypeOK, Places, Serves, Locks, Order
    <2>6. Registered'
      BY DEF TypeOK, Places, Serves, Registered, Entering
    <2>7. Order'
      BY DEF TypeOK, Places, Serves, Locks, Order
    <2> QED
      BY <2>2, <2>3, <2>4, <2>5, <2>6, <2>7
  <1>26. ASSUME Stopped PROVE DaemonInv'
    <2> USE <1>26 DEF Stopped
    <2>1. Counted' = Counted
      BY DEF TypeOK, Places, Serves, Counted, Entering
    <2>2. Count' /\ active' \in Nat
      BY <2>1, CountedStays
    <2>3. TypeOK'
      BY <2>2 DEF TypeOK, Places, Serves
    <2>4. Places' /\ Serves'
      BY DEF TypeOK, Places, Serves
    <2>5. Locks'
      BY DEF TypeOK, Places, Serves, Locks, Order
    <2>6. Registered'
      BY DEF TypeOK, Places, Serves, Registered, Entering
    <2>7. Order'
      BY DEF TypeOK, Places, Serves, Locks, Order
    <2> QED
      BY <2>2, <2>3, <2>4, <2>5, <2>6, <2>7
  <1>28. ASSUME NEW c \in Sleepers, Arms(c) PROVE DaemonInv'
    <2> USE <1>28 DEF Arms, Sleepers
    <2>1. Counted' = Counted
      BY DEF TypeOK, Places, Serves, Counted, Entering
    <2>2. Count' /\ active' \in Nat
      BY <2>1, CountedStays
    <2>3. TypeOK'
      BY <2>2 DEF TypeOK, Places, Serves
    <2>4. Places' /\ Serves'
      BY DEF TypeOK, Places, Serves
    <2>5. Locks'
      BY DEF TypeOK, Places, Serves, Locks, Order
    <2>6. Registered'
      BY DEF TypeOK, Places, Serves, Registered, Entering
    <2>7. Order'
      BY DEF TypeOK, Places, Serves, Locks, Order
    <2> QED
      BY <2>2, <2>3, <2>4, <2>5, <2>6, <2>7
  <1>29. ASSUME NEW c \in Sleepers, Roused(c) PROVE DaemonInv'
    <2> USE <1>29 DEF Roused, Sleepers
    <2>1. Counted' = Counted
      BY DEF TypeOK, Places, Serves, Counted, Entering
    <2>2. Count' /\ active' \in Nat
      BY <2>1, CountedStays
    <2>3. TypeOK'
      BY <2>2 DEF TypeOK, Places, Serves
    <2>4. Places' /\ Serves'
      BY DEF TypeOK, Places, Serves
    <2>5. Locks'
      BY DEF TypeOK, Places, Serves, Locks, Order
    <2>6. Registered'
      BY DEF TypeOK, Places, Serves, Registered, Entering
    <2>7. Order'
      BY DEF TypeOK, Places, Serves, Locks, Order
    <2> QED
      BY <2>2, <2>3, <2>4, <2>5, <2>6, <2>7
  <1>30. ASSUME NEW s \in Subs, SessionLeaks(s) PROVE DaemonInv'
    <2> USE <1>30 DEF SessionLeaks
    <2>1. Counted' = Counted
      BY DEF TypeOK, Places, Serves, Counted, Entering
    <2>2. Count' /\ active' \in Nat
      BY <2>1, CountedStays
    <2>3. TypeOK'
      BY <2>2 DEF TypeOK, Places, Serves
    <2>4. Places' /\ Serves'
      BY DEF TypeOK, Places, Serves
    <2>5. Locks'
      BY DEF TypeOK, Places, Serves, Locks, Order
    <2>6. Registered'
      BY DEF TypeOK, Places, Serves, Registered, Entering
    <2>7. Order'
      BY DEF TypeOK, Places, Serves, Locks, Order
    <2> QED
      BY <2>2, <2>3, <2>4, <2>5, <2>6, <2>7
  <1>31. ASSUME CloseListeners PROVE DaemonInv'
    <2> USE <1>31 DEF CloseListeners, Sleepers
    <2>1. Counted' = Counted
      BY DEF TypeOK, Places, Serves, Counted, Entering
    <2>2. Count' /\ active' \in Nat
      BY <2>1, CountedStays
    <2>3. TypeOK'
      BY <2>2 DEF TypeOK, Places, Serves
    <2>4. Places' /\ Serves'
      BY DEF TypeOK, Places, Serves
    <2>5. Locks'
      BY DEF TypeOK, Places, Serves, Locks, Order
    <2>6. Registered'
      BY DEF TypeOK, Places, Serves, Registered, Entering
    <2>7. Order'
      BY DEF TypeOK, Places, Serves, Locks, Order
    <2> QED
      BY <2>2, <2>3, <2>4, <2>5, <2>6, <2>7
  <1>32. ASSUME ForceAll PROVE DaemonInv'
    <2> USE <1>32 DEF ForceAll, Unleaked, Serving, Sleepers
    <2>1. Counted' = Counted
      BY DEF TypeOK, Places, Serves, Counted, Entering
    <2>2. Count' /\ active' \in Nat
      BY <2>1, CountedStays
    <2>8. cut' \subseteq Sleepers /\ open' \subseteq Subs \cup Requests
      BY DEF TypeOK
    <2>9. pc' \in [Coros \cup {Main} ->
                 {"none", "accept", "serve", "add", "start", "look", "live", "leaked", "begin",
                  "recv", "armed", "canceled", "blocked", "offload", "wake", "close", "drop",
                  "last", "finish", "flush", "flushed", "gone", "run", "shut", "closing", "stopAll",
                  "check", "wait", "forcing", "end"}]
      BY DEF TypeOK
    <2>3. TypeOK'
      BY <2>2, <2>8, <2>9 DEF TypeOK
    <2>4. Places' /\ Serves'
      BY DEF TypeOK, Places, Serves
    <2>5. Locks'
      BY DEF TypeOK, Places, Serves, Locks, Order
    <2>6. Registered'
      BY DEF TypeOK, Places, Serves, Registered, Entering
    <2>7. Order'
      BY DEF TypeOK, Places, Serves, Locks, Order
    <2> QED
      BY <2>2, <2>3, <2>4, <2>5, <2>6, <2>7
  <1>27. CASE UNCHANGED vars
    <2>1. Counted' = Counted
      BY <1>27 DEF vars, Counted, Entering
    <2>2. Count' /\ active' \in Nat
      BY <1>27, <2>1, CountedStays DEF vars
    <2> QED
      BY <1>27, <2>2 DEF vars, TypeOK, Places, Serves, Locks, Order, Registered, Entering
  <1> QED
    BY <1>1, <1>2, <1>3, <1>4, <1>5, <1>6, <1>7, <1>8, <1>9, <1>10, <1>11, <1>12, <1>13,
       <1>14, <1>15, <1>16, <1>17, <1>18, <1>19, <1>20, <1>21, <1>22, <1>23, <1>24, <1>25, <1>26,
       <1>27, <1>28, <1>29, <1>30, <1>31, <1>32 DEF Next, CoroStep, StopStep

(* The invariant, and the properties that follow from it.                  *)
THEOREM DaemonInvariant == Spec => []DaemonInv
  BY InitInv, StepInv, PTL DEF Spec

(* Type correctness; in particular m_active never wraps below zero.        *)
THEOREM DaemonTypes == Spec => []TypeOK
  <1>1. DaemonInv => TypeOK
    BY DEF DaemonInv
  <1> QED
    BY <1>1, DaemonInvariant, PTL

(* No edit is under way once finishStop has closed the database, whatever  *)
(* the number of requests, expiry callbacks and threads.                   *)
THEOREM DaemonNoEditAfterClose == Spec => []NoEditAfterClose
  <1>1. DaemonInv => NoEditAfterClose
    BY DEF DaemonInv, TypeOK, Locks, Order, NoEditAfterClose, InEdit
  <1> QED
    BY <1>1, DaemonInvariant, PTL

(* finishStop closes the database at most once.                            *)
THEOREM DaemonClosedOnce == Spec => []ClosedOnce
  <1>1. DaemonInv => ClosedOnce
    BY DEF DaemonInv, Order, ClosedOnce
  <1> QED
    BY <1>1, DaemonInvariant, PTL

(* When the daemon says it has stopped, no request, session or accept loop *)
(* is left: m_active counts them exactly.                                  *)
THEOREM DaemonStoppedIsQuiet == Spec => []StoppedIsQuiet
  <1>1. ASSUME DaemonInv, stopped PROVE Users = {} /\ registry = {}
    <2>1. Counted = {}
      BY <1>1, NobodyAtZero DEF DaemonInv, Order
    <2>2. Users = {}
      BY <1>1, <2>1, DaemonAssumption
         DEF DaemonInv, Places, Users, Counted, SideAt, RequestAt, Ends
    <2>3. registry = {}
      BY <1>1, <2>1 DEF DaemonInv, TypeOK, Registered, Counted
    <2> QED
      BY <2>2, <2>3
  <1>2. DaemonInv => StoppedIsQuiet
    BY <1>1 DEF StoppedIsQuiet
  <1> QED
    BY <1>2, DaemonInvariant, PTL
=============================================================================
