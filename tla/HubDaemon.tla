------------------------------ MODULE HubDaemon ------------------------------
(***************************************************************************)
(* The life of the hub daemon (ipban/daemon.cpp): accept loops, one        *)
(* coroutine per request connection, subscriber sessions, the expiry timer,*)
(* the count of users (m_active) and the ordered stop. Coroutines run on a *)
(* fixed number of reactor threads. m_editMtx is a std::mutex: a coroutine *)
(* that waits for it blocks its thread, while the holder of the mutex is   *)
(* suspended in offload (its SQLite write) and needs a thread to go on.    *)
(***************************************************************************)
EXTENDS Integers, FiniteSets

CONSTANTS Submitters,  \* connections to the submit socket (gateways)
          Admins,      \* connections to the admin socket
          Ticks,       \* expiry callbacks that may be due at the same time
          Subs,        \* subscriber connections
          Main,        \* the thread that stops the daemon
          None,
          NWorkers     \* threads of the reactor (iom_workers)

Requests == Submitters \cup Admins
Editors == Requests \cup Ticks

(* The accept loops, one per listening socket. The admin socket is optional*)
RequestSides == {"submit"} \cup (IF Admins = {} THEN {} ELSE {"admin"})
Sides == RequestSides \cup {"sub"}
Coros == Editors \cup Subs \cup Sides

ASSUME DaemonAssumption ==
    /\ NWorkers \in Nat \ {0}
    /\ IsFiniteSet(Coros)
    /\ Submitters \cap Admins = {} /\ Requests \cap Ticks = {} /\ Editors \cap Subs = {}
    /\ (Editors \cup Subs) \cap Sides = {}
    /\ Main \notin Coros /\ None \notin Coros \cup {Main}

VARIABLES
    running, stopping, stopped,  \* m_running, m_stopping, m_stopped
    cut,         \* listening and request sockets that Main has closed
    timer,       \* m_expiryTimer is armed
    active,      \* m_active
    editMtx,     \* holder of m_editMtx, or None
    finishMtx,   \* holder of m_finishMtx, or None
    db,          \* m_db is open
    closes,      \* how often the database was closed (ghost)
    pc,          \* per coroutine and for Main: where it is
    got,         \* per accept loop: the connection it serves, or None
    open,        \* connections whose socket is open
    registry,    \* m_reg: sessions that stopAll and forceAll reach
    forced       \* m_forceOnce

flags == <<running, stopping, stopped>>
vars == <<flags, cut, timer, active, editMtx, finishMtx, db, closes, pc,
          got, open, registry, forced>>

(* Coroutines whose thread waits for a mutex, and is lost to the others.   *)
Blocked == {c \in Coros : pc[c] \in {"blocked", "finish"}}
CanRun == Cardinality(Blocked) < NWorkers

Init ==
    /\ running = TRUE /\ stopping = FALSE /\ stopped = FALSE
    /\ cut = {} /\ timer = TRUE
    /\ active = Cardinality(Sides)
    /\ editMtx = None /\ finishMtx = None
    /\ db = TRUE /\ closes = 0
    /\ pc = [c \in Coros \cup {Main} |->
               IF c = Main THEN "run" ELSE IF c \in Sides THEN "accept" ELSE "none"]
    /\ got = [a \in Sides |-> None]
    /\ open = {} /\ registry = {} /\ forced = FALSE

Goto(c, l) == pc' = [pc EXCEPT ![c] = l]

(* A coroutine that finds nothing to accept or to read arms its socket and *)
(* sleeps; neither kind of socket has a time-out. BxSocket::close wakes    *)
(* what is armed (abortAll) and then closes the descriptor: one that arms  *)
(* in between sleeps for ever.                                             *)
Sleepers == Sides \cup Requests
Arms(c) ==
    /\ pc[c] \in {"accept", "recv"} /\ c \notin cut /\ (c \in Requests => c \in open) /\ CanRun
    /\ Goto(c, "armed")
    /\ UNCHANGED <<flags, cut, timer, active, editMtx, finishMtx, db, closes, got, open,
                   registry, forced>>

(* Somebody connects, or some bytes come: the coroutine tries again.       *)
Roused(c) ==
    /\ pc[c] = "armed" /\ c \notin cut /\ CanRun
    /\ Goto(c, IF c \in Sides THEN "accept" ELSE "recv")
    /\ UNCHANGED <<flags, cut, timer, active, editMtx, finishMtx, db, closes, got, open,
                   registry, forced>>

(* abortAll on the sockets of C.                                           *)
Aborted(C) == [c \in DOMAIN pc |-> IF c \in C /\ pc[c] = "armed" THEN "canceled" ELSE pc[c]]

-----------------------------------------------------------------------------
(* acceptLoop. A connection is taken only after a second look at m_running.*)
Peers(a) == CASE a = "submit" -> Submitters [] a = "admin" -> Admins [] a = "sub" -> Subs

Accept(a) ==
    /\ pc[a] = "accept" /\ CanRun /\ running /\ a \notin cut
    /\ \E c \in Peers(a) :
         /\ pc[c] = "none"
         /\ got' = [got EXCEPT ![a] = c]
         /\ open' = open \cup {c}
    /\ Goto(a, "serve")
    /\ UNCHANGED <<flags, cut, timer, active, editMtx, finishMtx, db, closes,
                   registry, forced>>

(* hold, then post serveSubmit or serveAdmin.                              *)
ServeRequest(a) ==
    /\ pc[a] = "serve" /\ CanRun
    /\ active' = active + 1
    /\ pc' = [pc EXCEPT ![a] = "accept", ![got[a]] = "begin"]
    /\ got' = [got EXCEPT ![a] = None]
    /\ UNCHANGED <<flags, cut, timer, editMtx, finishMtx, db, closes, open,
                   registry, forced>>

(* Mutant: the session is not counted.                                     *)
HoldSessionNot ==
    /\ pc["sub"] = "serve" /\ CanRun
    /\ Goto("sub", "add")
    /\ UNCHANGED <<flags, cut, timer, active, editMtx, finishMtx, db, closes, got,
                   open, registry, forced>>

(* serveSubscribe: hold and add, start the loops, look at m_running again. *)
HoldSession ==
    /\ pc["sub"] = "serve" /\ CanRun
    /\ active' = active + 1
    /\ Goto("sub", "add")
    /\ UNCHANGED <<flags, cut, timer, editMtx, finishMtx, db, closes, got, open,
                   registry, forced>>

AddSession ==
    /\ pc["sub"] = "add" /\ CanRun
    /\ registry' = registry \cup {got["sub"]}
    /\ Goto("sub", "start")
    /\ UNCHANGED <<flags, cut, timer, active, editMtx, finishMtx, db, closes, got,
                   open, forced>>

StartSession ==
    /\ pc["sub"] = "start" /\ CanRun
    /\ pc' = [pc EXCEPT !["sub"] = "look", ![got["sub"]] = "live"]
    /\ UNCHANGED <<flags, cut, timer, active, editMtx, finishMtx, db, closes, got,
                   open, registry, forced>>

(* Mutant: a session that came too late for stopAll is left alone.         *)
LookAgainNot ==
    /\ pc["sub"] = "look" /\ CanRun
    /\ got' = [got EXCEPT !["sub"] = None]
    /\ Goto("sub", "accept")
    /\ UNCHANGED <<flags, cut, timer, active, editMtx, finishMtx, db, closes, open,
                   registry, forced>>

(* beginStop without drain and forceStop also end a session that leaked.   *)
Unleaked(C) == [c \in DOMAIN pc |-> IF c \in C /\ pc[c] = "leaked" THEN "live" ELSE pc[c]]

LookAgain ==
    /\ pc["sub"] = "look" /\ CanRun
    /\ open' = IF running THEN open ELSE open \ {got["sub"]}
    /\ got' = [got EXCEPT !["sub"] = None]
    /\ pc' = [(IF running THEN pc ELSE Unleaked({got["sub"]})) EXCEPT !["sub"] = "accept"]
    /\ UNCHANGED <<flags, cut, timer, active, editMtx, finishMtx, db, closes,
                   registry, forced>>

(* The loop ends at m_running, with ECANCELED or with EBADF.               *)
AcceptEnds(a) ==
    /\ \/ pc[a] = "canceled"
       \/ pc[a] = "accept" /\ (~running \/ a \in cut)
    /\ CanRun
    /\ Goto(a, "drop")
    /\ UNCHANGED <<flags, cut, timer, active, editMtx, finishMtx, db, closes, got,
                   open, registry, forced>>

(* The peer closes its end. (A session also closes by itself, when it has  *)
(* drained or failed; here this is the same.)                              *)
PeerCloses(c) ==
    /\ c \in open /\ pc[c] \in {"begin", "recv", "armed", "live"}
    /\ open' = open \ {c}
    /\ UNCHANGED <<flags, cut, timer, active, editMtx, finishMtx, db, closes, pc,
                   got, registry, forced>>

(* A session, whose loops have time-outs, ends when its socket is closed.  *)
SessionEnds(s) ==
    /\ pc[s] = "live" /\ s \notin open /\ CanRun
    /\ registry' = registry \ {s}
    /\ Goto(s, "drop")
    /\ UNCHANGED <<flags, cut, timer, active, editMtx, finishMtx, db, closes, got,
                   open, forced>>

(* It leaks if it was about to push when it was told to close: then its    *)
(* sending loop sleeps for ever (RuleSync: Leaked).                        *)
SessionLeaks(s) ==
    /\ pc[s] = "live" /\ s \notin open /\ CanRun
    /\ Goto(s, "leaked")
    /\ UNCHANGED <<flags, cut, timer, active, editMtx, finishMtx, db, closes, got,
                   open, registry, forced>>

-----------------------------------------------------------------------------
(* serveSubmit, serveAdmin and the expiry callback.                        *)

(* The head of the loop: leave if the daemon stops, else wait for a frame. *)
Begin(c) ==
    /\ pc[c] = "begin" /\ CanRun
    /\ Goto(c, IF running THEN "recv" ELSE "close")
    /\ UNCHANGED <<flags, cut, timer, active, editMtx, finishMtx, db, closes, got,
                   open, registry, forced>>

(* The end of the stream wakes the coroutine too, ECANCELED and EBADF come *)
(* from forceStop.                                                         *)
RecvFails(c) ==
    /\ \/ pc[c] = "canceled"
       \/ c \notin open /\ (pc[c] = "recv" \/ (pc[c] = "armed" /\ c \notin cut))
    /\ CanRun
    /\ Goto(c, "close")
    /\ UNCHANGED <<flags, cut, timer, active, editMtx, finishMtx, db, closes, got,
                   open, registry, forced>>

AfterEdit(c) == IF c \in Submitters THEN "begin" ELSE IF c \in Admins THEN "close" ELSE "none"
Refuses(c) == IF c \in Ticks THEN "none" ELSE "close"

(* With m_editMtx in hand: nothing is edited once the daemon stops; an edit*)
(* either has nothing to write, or is suspended until the pool wrote it.   *)
Enter(c) ==
    \/ /\ Goto(c, IF running THEN AfterEdit(c) ELSE Refuses(c))
       /\ UNCHANGED editMtx
    \/ /\ running
       /\ Goto(c, "offload")
       /\ editMtx' = c

Arrives(c) == \/ c \in Requests /\ pc[c] = "recv" /\ c \in open
              \/ c \in Ticks /\ pc[c] = "none" /\ timer

(* A frame, or the timer, makes the coroutine lock m_editMtx.              *)
LockEdit(c) ==
    /\ Arrives(c) /\ CanRun
    /\ IF editMtx = None THEN Enter(c) ELSE Goto(c, "blocked") /\ UNCHANGED editMtx
    /\ UNCHANGED <<flags, cut, timer, active, finishMtx, db, closes, got, open,
                   registry, forced>>

GetEdit(c) ==
    /\ pc[c] = "blocked" /\ editMtx = None
    /\ Enter(c)
    /\ UNCHANGED <<flags, cut, timer, active, finishMtx, db, closes, got, open,
                   registry, forced>>

(* The pool thread is done and makes the eventfd readable.                 *)
PoolDone(c) ==
    /\ pc[c] \in {"offload", "flush"}
    /\ Goto(c, IF pc[c] = "offload" THEN "wake" ELSE "flushed")
    /\ UNCHANGED <<flags, cut, timer, active, editMtx, finishMtx, db, closes, got,
                   open, registry, forced>>

(* A thread resumes the coroutine, which answers and releases the mutex.   *)
Resume(c) ==
    /\ pc[c] = "wake" /\ CanRun
    /\ editMtx' = None
    /\ Goto(c, AfterEdit(c))
    /\ UNCHANGED <<flags, cut, timer, active, finishMtx, db, closes, got, open,
                   registry, forced>>

CloseRequest(c) ==
    /\ pc[c] = "close" /\ CanRun
    /\ open' = open \ {c}
    /\ Goto(c, "drop")
    /\ UNCHANGED <<flags, cut, timer, active, editMtx, finishMtx, db, closes, got,
                   registry, forced>>

-----------------------------------------------------------------------------
(* drop and finishStop.                                                    *)

Drop(c) ==
    /\ pc[c] = "drop" /\ CanRun
    /\ active' = active - 1
    /\ Goto(c, IF active = 1 THEN "last" ELSE "gone")
    /\ UNCHANGED <<flags, cut, timer, editMtx, finishMtx, db, closes, got, open,
                   registry, forced>>

Last(c) ==
    /\ pc[c] = "last" /\ CanRun
    /\ Goto(c, IF stopping THEN "finish" ELSE "gone")
    /\ UNCHANGED <<flags, cut, timer, active, editMtx, finishMtx, db, closes, got,
                   open, registry, forced>>

(* Mutant: whoever gets the lock closes the database.                      *)
FinishLockAgain(c) ==
    /\ pc[c] = "finish" /\ finishMtx = None
    /\ Goto(c, "flush") /\ finishMtx' = c
    /\ UNCHANGED <<flags, cut, timer, active, editMtx, db, closes, got, open,
                   registry, forced>>

(* finishStop: the first one in flushes the queue and closes the database. *)
(* The flush suspends a coroutine; in Main it runs inline.                 *)
Finished(c) == IF c = Main THEN "wait" ELSE "gone"
FinishLock(c) ==
    /\ pc[c] = "finish" /\ finishMtx = None
    /\ IF stopped
       THEN Goto(c, Finished(c)) /\ UNCHANGED finishMtx
       ELSE Goto(c, "flush") /\ finishMtx' = c
    /\ UNCHANGED <<flags, cut, timer, active, editMtx, db, closes, got, open,
                   registry, forced>>

FinishEnds(c) ==
    /\ pc[c] = "flushed" /\ (c = Main \/ CanRun)
    /\ db' = FALSE /\ closes' = closes + 1
    /\ stopped' = TRUE
    /\ finishMtx' = None
    /\ Goto(c, Finished(c))
    /\ UNCHANGED <<running, stopping, cut, timer, active, editMtx, got, open,
                   registry, forced>>

-----------------------------------------------------------------------------
(* Daemon::stop on the main thread.                                        *)

(* Mutant: the stop does not wait for an edit under way.                   *)
BeginStopUnlocked ==
    /\ pc[Main] = "run"
    /\ stopping' = TRUE /\ running' = FALSE
    /\ Goto(Main, "shut")
    /\ UNCHANGED <<stopped, cut, timer, active, editMtx, finishMtx, db, closes, got,
                   open, registry, forced>>

BeginStop ==
    /\ pc[Main] = "run" /\ editMtx = None
    /\ stopping' = TRUE /\ running' = FALSE
    /\ Goto(Main, "shut")
    /\ UNCHANGED <<stopped, cut, timer, active, editMtx, finishMtx, db, closes, got,
                   open, registry, forced>>

(* The listening sockets: abort, then close.                               *)
Shut ==
    /\ pc[Main] = "shut"
    /\ timer' = FALSE
    /\ pc' = [Aborted(Sides) EXCEPT ![Main] = "closing"]
    /\ UNCHANGED <<flags, cut, active, editMtx, finishMtx, db, closes, got, open, registry,
                   forced>>

CloseListeners ==
    /\ pc[Main] = "closing"
    /\ cut' = cut \cup Sides
    /\ Goto(Main, "stopAll")
    /\ UNCHANGED <<flags, timer, active, editMtx, finishMtx, db, closes, got, open, registry,
                   forced>>

(* A session that is past its hello drains, another one is closed.         *)
StopAll ==
    /\ pc[Main] = "stopAll"
    /\ \E D \in SUBSET registry : open' = open \ (registry \ D)
    /\ Goto(Main, "check")
    /\ UNCHANGED <<flags, cut, timer, active, editMtx, finishMtx, db, closes, got,
                   registry, forced>>

Check ==
    /\ pc[Main] = "check"
    /\ Goto(Main, IF active = 0 THEN "finish" ELSE "wait")
    /\ UNCHANGED <<flags, cut, timer, active, editMtx, finishMtx, db, closes, got,
                   open, registry, forced>>

(* waitStop timed out: forceStop calls beginStop, which locks m_editMtx and*)
(* returns, and then closes every request (m_reqConns) and every session.  *)
Serving == {c \in Requests : pc[c] \in {"recv", "armed", "canceled", "blocked", "offload", "wake"}}

ForceStop ==
    /\ pc[Main] = "wait" /\ ~stopped /\ ~forced /\ editMtx = None
    /\ forced' = TRUE
    /\ pc' = [Aborted(Serving) EXCEPT ![Main] = "forcing"]
    /\ UNCHANGED <<flags, cut, timer, active, editMtx, finishMtx, db, closes, got, open,
                   registry>>

ForceAll ==
    /\ pc[Main] = "forcing"
    /\ cut' = cut \cup Serving
    /\ open' = open \ (Serving \cup registry)
    /\ pc' = [Unleaked(registry) EXCEPT ![Main] = "wait"]
    /\ UNCHANGED <<flags, timer, active, editMtx, finishMtx, db, closes, got, registry,
                   forced>>

Stopped ==
    /\ pc[Main] = "wait" /\ (stopped \/ forced)
    /\ Goto(Main, "end")
    /\ UNCHANGED <<flags, cut, timer, active, editMtx, finishMtx, db, closes, got,
                   open, registry, forced>>

CoroStep(c) ==
    \/ c \in Sides /\ (Accept(c) \/ AcceptEnds(c))
    \/ c \in Sleepers /\ Arms(c)
    \/ c \in RequestSides /\ ServeRequest(c)
    \/ c = "sub" /\ (HoldSession \/ AddSession \/ StartSession \/ LookAgain)
    \/ c \in Subs /\ SessionEnds(c)
    \/ c \in Requests /\ (Begin(c) \/ RecvFails(c) \/ CloseRequest(c))
    \/ c \in Editors /\ (GetEdit(c) \/ Resume(c))
    \/ Drop(c) \/ Last(c) \/ FinishLock(c) \/ FinishEnds(c) \/ PoolDone(c)
StopStep == \/ Shut \/ CloseListeners \/ StopAll \/ Check \/ ForceStop \/ ForceAll \/ Stopped
            \/ FinishLock(Main) \/ FinishEnds(Main) \/ PoolDone(Main)

Next == \/ \E c \in Coros : CoroStep(c)
        \/ \E c \in Editors : LockEdit(c)
        \/ \E c \in Sleepers : Roused(c)
        \/ \E c \in Coros : PeerCloses(c)
        \/ \E s \in Subs : SessionLeaks(s)
        \/ BeginStop \/ StopStep

Spec == Init /\ [][Next]_vars

(* Threads run what they can run, the pool finishes its tasks, and a stop  *)
(* that has begun goes on: whoever waits for a mutex gets it in the end, if*)
(* it is free again and again. Nobody need send, close or stop anything,   *)
(* and no session need leak.                                               *)
FairSpec == Spec /\ (\A c \in Coros : SF_vars(CoroStep(c))) /\ SF_vars(StopStep)

-----------------------------------------------------------------------------
(* Properties.                                                             *)

(* Every variable has its type.                                            *)
TypeOK ==
    /\ running \in BOOLEAN /\ stopping \in BOOLEAN /\ stopped \in BOOLEAN
    /\ cut \subseteq Sleepers /\ timer \in BOOLEAN /\ db \in BOOLEAN /\ forced \in BOOLEAN
    /\ active \in Nat /\ closes \in Nat
    /\ editMtx \in Editors \cup {None} /\ finishMtx \in Coros \cup {Main, None}
    /\ pc \in [Coros \cup {Main} ->
                 {"none", "accept", "serve", "add", "start", "look", "live", "leaked", "begin",
                  "recv", "armed", "canceled", "blocked", "offload", "wake", "close", "drop",
                  "last", "finish", "flush", "flushed", "gone", "run", "shut", "closing", "stopAll",
                  "check", "wait", "forcing", "end"}]
    /\ got \in [Sides -> Subs \cup Requests \cup {None}]
    /\ open \subseteq Subs \cup Requests /\ registry \subseteq Subs

(* The database is open as long as an edit is under way: requests are      *)
(* counted in m_active, the expiry callback is not and relies on m_editMtx *)
(* and m_running alone.                                                    *)
NoEditAfterClose ==
    \A c \in Editors : pc[c] \in {"offload", "wake"} => db

(* finishStop runs its body once, whoever comes to it: the last user to    *)
(* leave and the thread that stops may both do so.                         *)
ClosedOnce == closes <= 1

(* The daemon reports itself stopped only when nobody uses it any more: no *)
(* request, no session and no accept loop.                                 *)
Users == {c \in Sides \cup Requests \cup Subs :
            pc[c] \notin {"none", "last", "finish", "flush", "flushed", "gone"}}
StoppedIsQuiet == stopped => Users = {} /\ registry = {}

(* A stop completes, by itself or after forceStop, if the reactor has a    *)
(* thread for every edit that may be under way: unless one coroutine armed *)
(* its socket just before the socket was closed, or a session leaked even  *)
(* from forceStop.                                                         *)
Stranded == \/ \E c \in cut : pc[c] = "armed"
            \/ forced /\ \E s \in Subs : pc[s] = "leaked"
StopCompletes == stopping ~> (stopped \/ Stranded)

(* README.md: SQLite writes leave the reactor through offload, for a lock  *)
(* held across SQLite I/O would deadlock. So an edit that was written gets *)
(* to answer and to release the lock.                                      *)
WrittenEditEnds == \A c \in Editors : (pc[c] = "wake") ~> (pc[c] # "wake")
=============================================================================
