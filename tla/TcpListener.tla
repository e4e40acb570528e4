---------------------------- MODULE TcpListener ----------------------------
(***************************************************************************)
(* BxTcpServer (tcp_listener.cpp): accept loops, the coroutines that serve *)
(* connections, and the thread that stops the server with drain, waitDrain *)
(* and stop (gw.cpp).  onConnection is GatewayConnection::process reduced  *)
(* to what a drain meets: it looks at isDraining before every request and  *)
(* otherwise waits for the client, which may stay silent for ever.         *)
(* A step is what happens between two accesses to shared state.            *)
(***************************************************************************)
EXTENDS Integers, FiniteSets

CONSTANTS
  Socks,           \* listening sockets, one accept loop each
  Clients,         \* connections that clients open
  MaxConnections   \* options_.maxConnections

VARIABLES
  isStop, draining,
  socks,       \* listening sockets that are still open
  closeTasks,  \* closeListenSockets calls posted to the accept worker
  acc,         \* Socks -> [pc, c]: the accept loops
  active,      \* activeConn_
  connections, \* connections_: sockets that closeAllConnections would reach
  shut,        \* client sockets closed by the server
  serve,       \* Clients -> where serveConnection is
  drainer,     \* [pc, snap]: the thread that calls drain and waitDrain
  timer,       \* the drain timer: "none", "armed", "over"
  drainTimer,  \* drainTimer_ holds it
  woken        \* the sleeping waitDrain has been notified

listenerVars == <<isStop, draining, socks, closeTasks, acc, active, connections, shut, serve,
                  drainer, timer, drainTimer, woken>>

accVars == <<acc, active, connections, shut, serve>>
drainVars == <<drainer, timer, drainTimer, woken>>
stopVars == <<isStop, draining, socks, closeTasks>>

NoClient == "none"

\* What the listener is started with: finitely many listening sockets, at
\* least one, and a limit that is a number (a size_t).
ASSUME ListenerAssumption ==
  /\ IsFiniteSet(Socks) /\ Socks # {}
  /\ IsFiniteSet(Clients) /\ NoClient \notin Clients
  /\ MaxConnections \in Nat

\* start(): one accept loop is posted for every bound socket.
ListenerInit ==
  /\ isStop = FALSE /\ draining = FALSE /\ socks = Socks /\ closeTasks = 0
  /\ acc = [s \in Socks |-> [pc |-> "accept", c |-> NoClient]]
  /\ active = 0 /\ connections = {} /\ shut = {}
  /\ serve = [c \in Clients |-> "away"]
  /\ drainer = [pc |-> "idle", snap |-> {}]
  /\ timer = "none" /\ drainTimer = FALSE /\ woken = FALSE

----------------------------------------------------------------------------
(* acceptLoop                                                              *)

AccAt(s, pc) == acc[s].pc = pc
AccGo(s, pc, c) == acc' = [acc EXCEPT ![s] = [pc |-> pc, c |-> c]]

Accept(s) ==
  /\ AccAt(s, "accept") /\ ~isStop /\ s \in socks
  /\ \E c \in Clients :
       /\ serve[c] = "away"
       /\ serve' = [serve EXCEPT ![c] = "accepted"]
       /\ AccGo(s, "limit", c)
  /\ UNCHANGED <<stopVars, active, connections, shut, drainVars>>

\* The loop ends when the server stops, or when accept fails and the socket
\* was closed or a drain is on.  Any other failure is tried again.
AcceptEnds(s) ==
  /\ AccAt(s, "accept") /\ (isStop \/ draining \/ s \notin socks)
  /\ AccGo(s, "ended", NoClient)
  /\ UNCHANGED <<stopVars, active, connections, shut, serve, drainVars>>

CloseNew(s) ==
  /\ shut' = shut \cup {acc[s].c}
  /\ serve' = [serve EXCEPT ![acc[s].c] = "gone"]
  /\ AccGo(s, "accept", NoClient)

\* The two checks, then the count, the table and the post: five steps that
\* a drain can come between.
Full == active >= MaxConnections

CheckLimit(s) ==
  /\ AccAt(s, "limit")
  /\ \/ Full /\ CloseNew(s)
     \/ ~Full /\ AccGo(s, "drain", acc[s].c) /\ UNCHANGED <<shut, serve>>
  /\ UNCHANGED <<stopVars, active, connections, drainVars>>

CheckDraining(s) ==
  /\ AccAt(s, "drain")
  /\ \/ draining /\ CloseNew(s)
     \/ ~draining /\ AccGo(s, "count", acc[s].c) /\ UNCHANGED <<shut, serve>>
  /\ UNCHANGED <<stopVars, active, connections, drainVars>>

Count(s) ==
  /\ AccAt(s, "count")
  /\ active' = active + 1
  /\ AccGo(s, "add", acc[s].c)
  /\ UNCHANGED <<stopVars, connections, shut, serve, drainVars>>

PostServe(s, next) ==
  /\ serve' = [serve EXCEPT ![acc[s].c] = "top"]
  /\ AccGo(s, next, IF next = "accept" THEN NoClient ELSE acc[s].c)
  /\ UNCHANGED <<stopVars, active, connections, shut, drainVars>>

addConnection(s, next) ==
  /\ connections' = connections \cup {acc[s].c}
  /\ AccGo(s, next, IF next = "accept" THEN NoClient ELSE acc[s].c)
  /\ UNCHANGED <<stopVars, active, shut, serve, drainVars>>

AddThenPost(s) ==
  \/ AccAt(s, "add") /\ addConnection(s, "post")
  \/ AccAt(s, "post") /\ PostServe(s, "accept")

----------------------------------------------------------------------------
(* serveConnection                                                         *)

Serve(c, from, to) == serve[c] = from /\ serve' = [serve EXCEPT ![c] = to]

ServeTop(c) ==
  /\ Serve(c, "top", IF draining THEN "leave" ELSE "recv")
  /\ UNCHANGED <<stopVars, acc, active, connections, shut, drainVars>>

\* A request is read and handled; recv fails on a closed socket, and the
\* client may go away.
Request(c) ==
  /\ c \notin shut /\ Serve(c, "recv", "top")
  /\ UNCHANGED <<stopVars, acc, active, connections, shut, drainVars>>
ClientLeaves(c) ==
  /\ c \notin shut /\ Serve(c, "recv", "leave")
  /\ UNCHANGED <<stopVars, acc, active, connections, shut, drainVars>>
\* A slip: a connection that was cancelled leaves without being taken off.
RecvCancelledOut(c) ==
  /\ c \in shut /\ Serve(c, "recv", "gone")
  /\ UNCHANGED <<stopVars, acc, active, connections, shut, drainVars>>

RecvCancelled(c) ==
  /\ c \in shut /\ Serve(c, "recv", "leave")
  /\ UNCHANGED <<stopVars, acc, active, connections, shut, drainVars>>

removeConnection(c) ==
  /\ Serve(c, "leave", "drop")
  /\ connections' = connections \ {c}
  /\ UNCHANGED <<stopVars, acc, active, shut, drainVars>>

DropActive(c) ==
  /\ Serve(c, "drop", IF active = 1 THEN "last" ELSE "notify")
  /\ active' = active - 1
  /\ UNCHANGED <<stopVars, acc, connections, shut, drainVars>>

\* The last connection takes drainMutex_, which waitDrain holds from its
\* look at activeConn_ until it sleeps.
TakeTimerOf(c) ==
  /\ Serve(c, "last", "notify")
  /\ drainTimer' = FALSE
  /\ timer' = IF drainTimer THEN "over" ELSE timer
  /\ UNCHANGED <<stopVars, acc, active, connections, shut, drainer, woken>>

TakeTimer(c) == drainer.pc \notin {"doze", "nod"} /\ TakeTimerOf(c)

NotifyDrain(c) ==
  /\ Serve(c, "notify", "gone")
  /\ woken' = (woken \/ drainer.pc \in {"asleep", "again"})
  /\ UNCHANGED <<stopVars, acc, active, connections, shut, drainer, timer, drainTimer>>

----------------------------------------------------------------------------
(* drain, waitDrain and stop                                               *)

DrainAt(pc) == drainer.pc = pc
DrainGo(pc) == drainer' = [drainer EXCEPT !.pc = pc]

Drain ==
  /\ DrainAt("idle")
  /\ draining' = TRUE /\ DrainGo("post")
  /\ UNCHANGED <<isStop, socks, closeTasks, accVars, timer, drainTimer, woken>>

PostClose ==
  /\ DrainAt("post")
  /\ closeTasks' = closeTasks + 1 /\ DrainGo("snap")
  /\ UNCHANGED <<isStop, draining, socks, accVars, timer, drainTimer, woken>>

\* closeListenSockets on the accept worker; closing wakes the accept loops.
closeListenSockets ==
  /\ closeTasks > 0
  /\ closeTasks' = closeTasks - 1 /\ socks' = {}
  /\ UNCHANGED <<isStop, draining, accVars, drainVars>>

\* closeAllConnections takes its list under the lock and closes it outside.
Snapshot(from, to) ==
  /\ DrainAt(from)
  /\ drainer' = [pc |-> to, snap |-> connections]
  /\ UNCHANGED <<stopVars, accVars, timer, drainTimer, woken>>

CloseAll(from, to) ==
  /\ DrainAt(from)
  /\ shut' = shut \cup drainer.snap
  /\ drainer' = [pc |-> to, snap |-> {}]
  /\ UNCHANGED <<stopVars, acc, active, connections, serve, timer, drainTimer, woken>>

\* Nobody left: no timer.  Otherwise it is armed, and kept only when there
\* is still somebody under the lock.
ArmTimer ==
  /\ DrainAt("look")
  /\ \/ active = 0 /\ DrainGo("wait") /\ UNCHANGED timer
     \/ active > 0 /\ DrainGo("keep") /\ timer' = "armed"
  /\ UNCHANGED <<stopVars, accVars, drainTimer, woken>>

KeepTimer ==
  /\ DrainAt("keep") /\ DrainGo("wait")
  /\ IF active = 0 THEN timer' = "over" /\ UNCHANGED drainTimer
     ELSE drainTimer' = TRUE /\ UNCHANGED timer
  /\ UNCHANGED <<stopVars, accVars, woken>>

TimerFires ==
  /\ timer = "armed" /\ timer' = "over"
  /\ shut' = IF active > 0 THEN shut \cup connections ELSE shut
  /\ UNCHANGED <<stopVars, acc, active, connections, serve, drainer, drainTimer, woken>>

\* waitDrain: the condition is looked at under the lock, which a sleeper
\* gives up; a successful wait takes the timer.
Look(from, none) ==
  /\ DrainAt(from)
  /\ \/ /\ active = 0 /\ DrainGo("drained")
        /\ drainTimer' = FALSE
        /\ timer' = IF drainTimer THEN "over" ELSE timer
     \/ active > 0 /\ DrainGo(none) /\ UNCHANGED <<timer, drainTimer>>
  /\ UNCHANGED <<stopVars, accVars, woken>>

Sleep(from, to) ==
  /\ DrainAt(from) /\ DrainGo(to)
  /\ UNCHANGED <<stopVars, accVars, timer, drainTimer, woken>>

\* Woken by a notification, or by the end of the time.
Awake(from, to) ==
  /\ DrainAt(from) /\ woken
  /\ DrainGo(to) /\ woken' = FALSE
  /\ UNCHANGED <<stopVars, accVars, timer, drainTimer>>
TimeOut(from, to) ==
  /\ DrainAt(from)
  /\ DrainGo(to) /\ woken' = FALSE
  /\ UNCHANGED <<stopVars, accVars, timer, drainTimer>>

WaitDrain ==
  \/ Look("wait", "doze") \/ Sleep("doze", "asleep") \/ Awake("asleep", "wait")
  \/ Look("late", "force") \/ Snapshot("force", "forcing") \/ CloseAll("forcing", "retry")
  \/ Look("retry", "nod") \/ Sleep("nod", "again") \/ Awake("again", "retry")
  \/ Look("final", "undrained")

WaitTimesOut == TimeOut("asleep", "late") \/ TimeOut("again", "final")

\* stop: the flag, one more close of the listening sockets and of everything
\* in the table.
Stop ==
  /\ drainer.pc \in {"drained", "undrained"} /\ ~isStop
  /\ isStop' = TRUE /\ closeTasks' = closeTasks + 1
  /\ shut' = shut \cup connections
  /\ UNCHANGED <<draining, socks, acc, active, connections, serve, drainVars>>

----------------------------------------------------------------------------
AccLoop(s) == Accept(s) \/ AcceptEnds(s) \/ CheckLimit(s) \/ CheckDraining(s) \/ Count(s)
                \/ AddThenPost(s)
ServeLoop(c) == ServeTop(c) \/ RecvCancelled(c) \/ removeConnection(c) \/ DropActive(c)
                  \/ TakeTimer(c) \/ NotifyDrain(c)
StopThread == Drain \/ PostClose \/ Snapshot("snap", "closing") \/ CloseAll("closing", "look")
                \/ ArmTimer \/ KeepTimer \/ WaitDrain \/ Stop

ListenerNext ==
  \/ \E s \in Socks : AccLoop(s)
  \/ \E c \in Clients : ServeLoop(c) \/ Request(c) \/ ClientLeaves(c)
  \/ closeListenSockets \/ TimerFires \/ WaitTimesOut \/ StopThread

\* The threads run on.  Clients owe nothing, and neither the drain timer nor
\* the end of a wait is counted on: the first round of closes has to do.
ListenerFairness ==
  /\ \A s \in Socks : WF_listenerVars(AccLoop(s))
  /\ \A c \in Clients : WF_listenerVars(ServeLoop(c))
  /\ WF_listenerVars(closeListenSockets) /\ WF_listenerVars(StopThread)

ListenerSpec == ListenerInit /\ [][ListenerNext]_listenerVars /\ ListenerFairness

----------------------------------------------------------------------------
(* Properties.                                                             *)

Counted(c) ==
  \/ serve[c] \in {"top", "recv", "leave", "drop"}
  \/ \E s \in Socks : acc[s].c = c /\ acc[s].pc \in {"add", "post"}

\* activeConn_ is exactly the number of connections that are between the
\* accept loop's count and serveConnection's, so that it reaches 0 when and
\* only when nobody is left; the check of maxConnections and the count are
\* two steps, so every accept loop but one may let one connection too many in.
ConnectionsCounted ==
  /\ active = Cardinality({c \in Clients : Counted(c)})
  /\ active <= MaxConnections + Cardinality(Socks) - 1

\* Whatever the accept loops were doing when drain was called, and however
\* silent the clients are, in the end no connection is left and the stopping
\* thread is through.  notify_all is called without drainMutex_: only the
\* mutex that serveConnection takes for the timer just before keeps it from
\* coming too early for a waitDrain that is about to sleep.
DrainEnds == draining ~> [](active = 0 /\ isStop)
=============================================================================
