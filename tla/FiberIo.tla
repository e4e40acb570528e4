------------------------------- MODULE FiberIo -------------------------------
(***************************************************************************)
(* The coroutine runtime: worker threads that take coroutines from one     *)
(* queue (exec.cpp), coroutines that read from a socket through the hooked *)
(* recv (do_io in io_hook.cpp), the reactor that wakes them (reactor.cpp), *)
(* the timer of a read (timer.cpp) and a thread outside the runtime that   *)
(* closes sockets (BxSocket::close) and stops it.                          *)
(*                                                                         *)
(* Every coroutine owns one socket, so both have one name.  What is done   *)
(* under a mutex is one step.  epoll_wait gives up after 5 s at the        *)
(* latest; the pipe that wakes it earlier is left out.                     *)
(***************************************************************************)
EXTENDS Integers, Sequences, FiniteSets, SequencesExt

CONSTANTS
  Threads,   \* workers of the I/O manager
  Fibers,    \* coroutines, each with its socket
  Closable,  \* sockets that the outside thread closes
  Timed,     \* sockets with a receive time-out
  MaxData    \* messages that a peer may send

\* There is a worker thread, and finitely many coroutines.
ASSUME FiberAssumption == IsFiniteSet(Fibers) /\ Threads # {}

VARIABLES
  tasks,      \* tasks_
  worker,     \* Threads -> [pc, f]
  state,      \* BxFiber::state_
  saved,      \* the context in ctx_ is the one the coroutine stopped with
  io,         \* Fibers -> where the coroutine is in do_io
  sample,     \* cancel_gen as do_io read it
  outcome,    \* what the last recv returned
  events,     \* coroutines whose EV_IN is armed (also counted as pending)
  owner,      \* sockets whose BxFdCtx names the manager
  gen,        \* readCancelGen_
  timers,     \* timers_: coroutines whose read has a timer there
  cancelled,  \* timer_info::cancelled is ETIMEDOUT
  data, sent, \* messages that can be read, messages the peer has sent
  closing,    \* Fibers -> where BxSocket::close is
  stopping,   \* stopping_
  clash       \* a coroutine was resumed from a context that is not its last

vars == <<tasks, worker, state, saved, io, sample, outcome, events, owner, gen, timers,
          cancelled, data, sent, closing, stopping, clash>>

fdVars == <<events, owner, gen>>
timeVars == <<timers, cancelled>>
peerVars == <<data, sent>>
outVars == <<closing, stopping>>

Open(f) == closing[f] # "closed"

Init ==
  /\ tasks = SetToSeq(Fibers)
  /\ worker = [t \in Threads |-> [pc |-> "scan", f |-> "none"]]
  /\ state = [f \in Fibers |-> "SUSPENDED"] /\ saved = [f \in Fibers |-> TRUE]
  /\ io = [f \in Fibers |-> "call"] /\ sample = [f \in Fibers |-> 0]
  /\ outcome = [f \in Fibers |-> "none"]
  /\ events = {} /\ owner = {} /\ gen = [f \in Fibers |-> 0]
  /\ timers = {} /\ cancelled = {}
  /\ data = [f \in Fibers |-> 0] /\ sent = [f \in Fibers |-> 0]
  /\ closing = [f \in Fibers |-> "idle"] /\ stopping = FALSE /\ clash = FALSE

----------------------------------------------------------------------------
(* BxScheduler::run                                                        *)

At(t, pc) == worker[t].pc = pc
Go(t, pc) == worker' = [worker EXCEPT ![t] = [pc |-> pc, f |-> "none"]]
Hold(t, pc, f) == worker' = [worker EXCEPT ![t] = [pc |-> pc, f |-> f]]

activeThreadCount ==
  Cardinality({t \in Threads : worker[t].pc \in {"resume", "run", "expired", "mark"}})

\* The first task whose coroutine is not ACTIVE is taken; without one the
\* worker turns to its idle coroutine.
Ready(i) == state[tasks[i]] # "ACTIVE"
First == CHOOSE i \in DOMAIN tasks : Ready(i) /\ \A j \in 1..(i - 1) : ~Ready(j)

Scan(t) ==
  /\ At(t, "scan")
  /\ IF \E i \in DOMAIN tasks : Ready(i)
     THEN Hold(t, "resume", tasks[First]) /\ tasks' = RemoveAt(tasks, First)
     ELSE Go(t, "idle") /\ UNCHANGED tasks
  /\ UNCHANGED <<state, saved, io, sample, outcome, fdVars, timeVars, peerVars, outVars, clash>>

\* BxFiber::resume.  A context that is still being saved by another thread
\* cannot be resumed meaningfully: the model stops there.
Resume(t) ==
  /\ At(t, "resume")
  /\ LET f == worker[t].f
     IN /\ clash' = (clash \/ ~saved[f])
        /\ state' = [state EXCEPT ![f] = "ACTIVE"] /\ saved' = [saved EXCEPT ![f] = FALSE]
        /\ Hold(t, "run", f)
  /\ UNCHANGED <<tasks, io, sample, outcome, fdVars, timeVars, peerVars, outVars>>

\* BxFiber::yield marks the coroutine first and saves its context after.
YieldMark(t) ==
  /\ At(t, "run") /\ io[worker[t].f] = "yield"
  /\ state' = [state EXCEPT ![worker[t].f] = "SUSPENDED"]
  /\ io' = [io EXCEPT ![worker[t].f] = "swap"]
  /\ UNCHANGED <<tasks, worker, saved, sample, outcome, fdVars, timeVars, peerVars, outVars, clash>>

YieldSwap(t) ==
  /\ At(t, "run") /\ io[worker[t].f] = "swap"
  /\ saved' = [saved EXCEPT ![worker[t].f] = TRUE]
  /\ io' = [io EXCEPT ![worker[t].f] = "woken"]
  /\ Go(t, "scan")
  /\ UNCHANGED <<tasks, state, sample, outcome, fdVars, timeVars, peerVars, outVars, clash>>

\* The callback is through: entryTrampoline marks the coroutine FINISHED.
Finish(t) ==
  /\ At(t, "run") /\ io[worker[t].f] = "return"
  /\ state' = [state EXCEPT ![worker[t].f] = "FINISHED"]
  /\ Go(t, "scan")
  /\ UNCHANGED <<tasks, saved, io, sample, outcome, fdVars, timeVars, peerVars, outVars, clash>>

\* BxIoManager::stopped looks at the scheduler first, under its mutex, then at
\* the pending events, and at the one-shot timers last.
LookIdle(t) ==
  /\ At(t, "idle")
  /\ Go(t, IF stopping /\ tasks = <<>> /\ activeThreadCount = 0 THEN "stop" ELSE "epoll")
  /\ UNCHANGED <<tasks, state, saved, io, sample, outcome, fdVars, timeVars, peerVars, outVars, clash>>

\* A slip: a read that waits is not looked at.
LookPendingBlind(t) ==
  /\ At(t, "stop")
  /\ Go(t, "oneshot")
  /\ UNCHANGED <<tasks, state, saved, io, sample, outcome, fdVars, timeVars, peerVars, outVars, clash>>

LookPending(t) ==
  /\ At(t, "stop")
  /\ Go(t, IF events = {} THEN "oneshot" ELSE "epoll")
  /\ UNCHANGED <<tasks, state, saved, io, sample, outcome, fdVars, timeVars, peerVars, outVars, clash>>

LookTimers(t) ==
  /\ At(t, "oneshot")
  /\ Go(t, IF timers = {} THEN "exited" ELSE "epoll")
  /\ UNCHANGED <<tasks, state, saved, io, sample, outcome, fdVars, timeVars, peerVars, outVars, clash>>

----------------------------------------------------------------------------
(* do_io, run by the worker that holds the coroutine                       *)

Running(t, pc) == At(t, "run") /\ io[worker[t].f] = pc
IoGo(f, pc) == io' = [io EXCEPT ![f] = pc]
Returns(f, what) == IoGo(f, "return") /\ outcome' = [outcome EXCEPT ![f] = what]

\* The system call.  On EAGAIN the cancel generation is read and the timer
\* is added before the event is armed.
SysCall(t) ==
  /\ Running(t, "call")
  /\ LET f == worker[t].f
     IN \/ /\ ~Open(f) /\ Returns(f, "EBADF")
           /\ UNCHANGED <<sample, timeVars, peerVars>>
        \/ /\ Open(f) /\ data[f] > 0
           /\ data' = [data EXCEPT ![f] = @ - 1] /\ Returns(f, "data")
           /\ UNCHANGED <<sample, timeVars, sent>>
        \/ /\ Open(f) /\ data[f] = 0
           /\ sample' = [sample EXCEPT ![f] = gen[f]]
           /\ timers' = timers \cup ({f} \cap Timed)
           /\ IoGo(f, "arm")
           /\ UNCHANGED <<outcome, cancelled, peerVars>>
  /\ UNCHANGED <<tasks, worker, state, saved, fdVars, outVars, clash>>

\* armEvent, under the mutex of the descriptor's slot; epoll_ctl refuses a
\* closed descriptor.
armEvent(t) ==
  /\ Running(t, "arm")
  /\ LET f == worker[t].f
     IN \/ /\ ~Open(f) /\ Returns(f, "EBADF")
           /\ timers' = timers \ {f}
           /\ UNCHANGED <<events, owner>>
        \/ /\ Open(f) /\ IoGo(f, "yield")
           /\ events' = events \cup {f} /\ owner' = owner \cup {f}
           /\ UNCHANGED <<outcome, timers>>
  /\ UNCHANGED <<tasks, worker, state, saved, sample, gen, cancelled, peerVars, outVars, clash>>

\* Awake again: timer first, then time-out, cancel, or another try.
Woken(t) ==
  /\ Running(t, "woken")
  /\ LET f == worker[t].f
     IN /\ timers' = timers \ {f}
        /\ \/ f \in cancelled /\ Returns(f, "ETIMEDOUT")
           \/ f \notin cancelled /\ gen[f] # sample[f] /\ Returns(f, "ECANCELED")
           \/ f \notin cancelled /\ gen[f] = sample[f] /\ IoGo(f, "call") /\ UNCHANGED outcome
  /\ UNCHANGED <<tasks, worker, state, saved, sample, fdVars, cancelled, peerVars, outVars, clash>>

----------------------------------------------------------------------------
(* BxIoManager                                                             *)

\* A slip: a coroutine that has not yielded yet is taken to be awake.
FireIdle(f) ==
  /\ tasks' = IF state[f] = "ACTIVE" THEN tasks ELSE Append(tasks, f)
  /\ events' = events \ {f} /\ owner' = owner \ {f}

\* fireEvent: the coroutine goes back to the queue, the event is used up.
Fire(f) ==
  /\ tasks' = Append(tasks, f)
  /\ events' = events \ {f} /\ owner' = owner \ {f}

\* epoll_wait reports a socket that can be read, or gives up.
EpollEvent(t) ==
  /\ At(t, "epoll") /\ Go(t, "scan")
  /\ \E f \in events : data[f] > 0 /\ Open(f) /\ Fire(f)
  /\ UNCHANGED <<state, saved, io, sample, outcome, gen, timeVars, peerVars, outVars, clash>>
EpollTimeout(t) ==
  /\ At(t, "epoll") /\ Go(t, "scan")
  /\ UNCHANGED <<tasks, state, saved, io, sample, outcome, fdVars, timeVars, peerVars, outVars, clash>>

\* abortEvent and abortAll: nothing when no event is armed or when epoll_ctl
\* no longer knows the descriptor; otherwise the generation moves first.
Abortable(f) == f \in events /\ Open(f)
Abort(f) ==
  IF Abortable(f) THEN Fire(f) /\ gen' = [gen EXCEPT ![f] = @ + 1]
  ELSE UNCHANGED <<tasks, fdVars>>

\* collectExpired takes a timer that is due and posts its callback; the
\* worker that runs it counts as active.
TimerExpires(t) ==
  /\ At(t, "epoll")
  /\ \E f \in timers : timers' = timers \ {f} /\ Hold(t, "expired", f)
  /\ UNCHANGED <<tasks, state, saved, io, sample, outcome, fdVars, cancelled, peerVars, outVars, clash>>

\* The callback: it aborts the read, if that is still going on, and marks the
\* time-out after that and only if the abort woke the coroutine.
InRead(f) == io[f] # "return"

\* A slip: the time-out is marked whether or not the abort woke anybody.
ToMarkBlind(f) == InRead(f)

ToMark(f) == InRead(f) /\ Abortable(f)

TimerAborts(t) ==
  /\ At(t, "expired")
  /\ LET f == worker[t].f
     IN /\ IF ToMark(f) THEN Hold(t, "mark", f) ELSE Go(t, "scan")
        /\ IF InRead(f) THEN Abort(f) ELSE UNCHANGED <<tasks, fdVars>>
  /\ UNCHANGED <<state, saved, io, sample, outcome, timeVars, peerVars, outVars, clash>>
TimerMarks(t) ==
  /\ At(t, "mark")
  /\ cancelled' = cancelled \cup {worker[t].f} /\ Go(t, "scan")
  /\ UNCHANGED <<tasks, state, saved, io, sample, outcome, fdVars, timers, peerVars, outVars, clash>>

----------------------------------------------------------------------------
(* The outside.                                                            *)

Send(f) ==
  /\ sent[f] < MaxData /\ Open(f)
  /\ sent' = [sent EXCEPT ![f] = @ + 1] /\ data' = [data EXCEPT ![f] = @ + 1]
  /\ UNCHANGED <<tasks, worker, state, saved, io, sample, outcome, fdVars, timeVars, outVars, clash>>

CloseGo(f, from, to) == closing[f] = from /\ closing' = [closing EXCEPT ![f] = to]

\* BxSocket::close reads the owner; the outside thread has no manager of its
\* own to fall back on.  Then it aborts, and then the descriptor is closed.
CloseRead(f) ==
  /\ f \in Closable /\ ~stopping
  /\ CloseGo(f, "idle", IF f \in owner THEN "abort" ELSE "close")
  /\ UNCHANGED <<tasks, worker, state, saved, io, sample, outcome, fdVars, timeVars, peerVars,
                 stopping, clash>>
CloseAbort(f) ==
  /\ CloseGo(f, "abort", "close") /\ Abort(f)
  /\ UNCHANGED <<worker, state, saved, io, sample, outcome, timeVars, peerVars, stopping, clash>>
CloseFd(f) ==
  /\ CloseGo(f, "close", "closed")
  /\ UNCHANGED <<tasks, worker, state, saved, io, sample, outcome, fdVars, timeVars, peerVars,
                 stopping, clash>>

\* BxScheduler::stop, by the same thread, after its closes.
StopRuntime ==
  /\ ~stopping /\ stopping' = TRUE
  /\ \A f \in Fibers : closing[f] \in {"idle", "closed"}
  /\ UNCHANGED <<tasks, worker, state, saved, io, sample, outcome, fdVars, timeVars, peerVars,
                 closing, clash>>

----------------------------------------------------------------------------
Worker(t) ==
  \/ Scan(t) \/ Resume(t) \/ YieldMark(t) \/ YieldSwap(t) \/ Finish(t)
  \/ LookIdle(t) \/ LookPending(t) \/ LookTimers(t)
  \/ SysCall(t) \/ armEvent(t) \/ Woken(t)
  \/ EpollEvent(t) \/ EpollTimeout(t)
  \/ TimerExpires(t) \/ TimerAborts(t) \/ TimerMarks(t)

Close(f) == CloseRead(f) \/ CloseAbort(f) \/ CloseFd(f)

Next ==
  /\ ~clash
  /\ \/ \E t \in Threads : Worker(t)
     \/ \E f \in Fibers : Close(f) \/ Send(f)
     \/ StopRuntime

\* Workers run on and a close that was begun is finished; an event that stays
\* ready is reported and a timer that stays in the heap is collected.
Fairness ==
  /\ \A t \in Threads : WF_vars(~clash /\ Worker(t))
  /\ \A t \in Threads : SF_vars(~clash /\ EpollEvent(t)) /\ SF_vars(~clash /\ TimerExpires(t))
  /\ \A f \in Fibers : WF_vars(~clash /\ (CloseAbort(f) \/ CloseFd(f)))

Spec == Init /\ [][Next]_vars /\ Fairness

----------------------------------------------------------------------------
(* Properties.                                                             *)

Queued(f) == \E i \in DOMAIN tasks : tasks[i] = f
Held(f) == \E t \in Threads : worker[t].pc \in {"resume", "run"} /\ worker[t].f = f

\* A coroutine is never resumed by one thread while another one has not yet
\* saved its context: the comment in BxScheduler::run (exec.cpp:145) says
\* that skipping ACTIVE coroutines keeps two threads from resuming one.
OneRunner == ~clash

\* Whatever wakes a waiting coroutine (data, its timer, a close), it is
\* queued once: it is waiting for its event, or queued, or held by a worker,
\* never in two of these places once it waits, and none is lost; the workers
\* leave only when no coroutine is left, although stopped() reads the queue,
\* the pending events and the timers one after the other.
WokenOnce ==
  /\ \A f \in Fibers :
       /\ Cardinality({i \in DOMAIN tasks : tasks[i] = f}) <= 1
       /\ ~(Queued(f) /\ f \in events)
       /\ ~clash /\ state[f] # "FINISHED" => Queued(f) \/ f \in events \/ Held(f)
  /\ (\A t \in Threads : At(t, "exited")) => \A f \in Fibers : state[f] = "FINISHED"

\* recv reports a time-out only when its timer really woke it: data that
\* arrived in time is never dropped for a time-out that came too late.
TimeoutIsReal ==
  \A f \in Fibers : outcome[f] = "ETIMEDOUT" => gen[f] # sample[f]

DataWaits(f) == data[f] > 0
WaitOver(f) == data[f] = 0 \/ state[f] = "FINISHED" \/ ~Open(f) \/ clash

\* Data for a coroutine that waits is read in the end, unless the wait is
\* ended otherwise.
DataIsRead == \A f \in Fibers : DataWaits(f) ~> WaitOver(f)
=============================================================================
