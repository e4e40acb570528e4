------------------------------ MODULE Reporter ------------------------------
(***************************************************************************)
(* The gateway's risk reporter (report.cpp): request coroutines queue      *)
(* reports, one coroutine sends them to the hub, and stop() ends it within *)
(* a deadline.  What is done under m_mtx is one step, and every write to   *)
(* an atomic is one.  A report is known by its id, which cools down after  *)
(* it was accepted; whether a connect or a send succeeds is the network's  *)
(* choice, and both give up after two seconds.                             *)
(***************************************************************************)
EXTENDS Integers, Sequences, FiniteSets, SequencesExt

CONSTANTS
  Callers,    \* coroutines that call tryReport
  Ids,        \* ids of reports
  MaxQueue,   \* opts.maxQueue
  MaxTaken    \* reports that are accepted

VARIABLES
  accepting, running, started, stopAt, done,   \* the atomics; stopAt: "none", "set" or "over"
  queue, seen,   \* m_queue, m_seen
  cooling,       \* ids whose last report is younger than kRiskCoolMs
  token,         \* the counter of m_waker is not 0
  caller,        \* Callers -> [pc, id]
  sender,        \* [pc, sock, hand]: loop() and what it is sending
  backoff,       \* the back-off timer is armed
  stopper,       \* where stop() is
  taken, sent, dropped   \* per id: reports accepted, sent, given up

vars == <<accepting, running, started, stopAt, done, queue, seen, cooling, token, caller,
          sender, backoff, stopper, taken, sent, dropped>>

flagVars == <<accepting, running, started, stopAt, done>>
queueVars == <<queue, seen, cooling, taken, dropped>>

NoId == "none"

\* NoId marks an empty hand, and the bound of the queue is a size_t.
ASSUME ReporterAssumption == NoId \notin Ids /\ MaxQueue \in Nat
Zero == [i \in Ids |-> 0]
Queued(i) == Cardinality({k \in DOMAIN queue : queue[k] = i})

Init ==
  /\ accepting = TRUE /\ running = FALSE /\ started = FALSE /\ stopAt = "none" /\ done = FALSE
  /\ queue = <<>> /\ seen = {} /\ cooling = {} /\ token = FALSE
  /\ caller = [c \in Callers |-> [pc |-> "idle", id |-> NoId]]
  /\ sender = [pc |-> "off", sock |-> FALSE, hand |-> NoId] /\ backoff = FALSE
  /\ stopper = "idle"
  /\ taken = Zero /\ sent = Zero /\ dropped = Zero

----------------------------------------------------------------------------
(* tryReport                                                               *)

CallerGo(c, pc, i) == caller' = [caller EXCEPT ![c] = [pc |-> pc, id |-> i]]

TryReport(c) ==
  /\ caller[c].pc = "idle" /\ accepting
  /\ \E i \in Ids : CallerGo(c, "lock", i)
  /\ UNCHANGED <<flagVars, queueVars, token, sender, backoff, stopper, sent>>

\* Refused: stopping, full, or the same id a moment ago.
Refused(i) == ~accepting \/ Len(queue) >= MaxQueue \/ i \in cooling

TryRefused(c) ==
  /\ caller[c].pc = "lock" /\ Refused(caller[c].id)
  /\ CallerGo(c, "idle", NoId)
  /\ UNCHANGED <<flagVars, queueVars, token, sender, backoff, stopper, sent>>

\* Any entry of a full m_seen makes room for the new one.
TryPush(c) ==
  /\ caller[c].pc = "lock"
  /\ LET i == caller[c].id
     IN /\ ~Refused(i) /\ taken[i] < MaxTaken
        /\ \E out \in IF Cardinality(seen) >= MaxQueue THEN {{j} : j \in seen} ELSE {{}} :
             /\ seen' = (seen \ out) \cup {i}
             /\ cooling' = (cooling \ out) \cup {i}
        /\ queue' = Append(queue, i)
        /\ taken' = [taken EXCEPT ![i] = @ + 1]
        /\ CallerGo(c, "notify", NoId)
  /\ UNCHANGED <<flagVars, dropped, token, sender, backoff, stopper, sent>>

TryNotify(c) ==
  /\ caller[c].pc = "notify" /\ CallerGo(c, "idle", NoId)
  /\ token' = TRUE
  /\ UNCHANGED <<flagVars, queueVars, sender, backoff, stopper, sent>>

CoolDown ==
  /\ \E i \in cooling : cooling' = cooling \ {i}
  /\ UNCHANGED <<flagVars, queue, seen, taken, dropped, token, caller, sender, backoff, stopper, sent>>

----------------------------------------------------------------------------
(* start                                                                   *)

Start ==
  /\ ~started /\ started' = TRUE
  /\ UNCHANGED <<accepting, running, stopAt, done, queueVars, token, caller, sender, backoff,
                 stopper, sent>>

StartLoop ==
  /\ started /\ sender.pc = "off"
  /\ running' = TRUE /\ sender' = [sender EXCEPT !.pc = "top"]
  /\ token' = (token \/ queue # <<>>)
  /\ UNCHANGED <<accepting, started, stopAt, done, queueVars, caller, backoff, stopper, sent>>

----------------------------------------------------------------------------
(* loop, drainOnce and waitBackoff                                         *)

At(pc) == sender.pc = pc
Go(pc) == sender' = [sender EXCEPT !.pc = pc]
GoOffline(pc) == sender' = [pc |-> pc, sock |-> FALSE, hand |-> NoId]

\* stopDue: with no deadline yet, a stop is due at once.
StopDue == ~accepting /\ stopAt # "set"

LoopTop ==
  /\ At("top")
  /\ Go(IF ~running THEN "end" ELSE IF queue = <<>> THEN "empty" ELSE "due")
  /\ UNCHANGED <<flagVars, queueVars, token, caller, backoff, stopper, sent>>

Empty ==
  /\ At("empty") /\ Go(IF accepting THEN "wait" ELSE "end")
  /\ UNCHANGED <<flagVars, queueVars, token, caller, backoff, stopper, sent>>

WaitForReport ==
  /\ At("wait") /\ token
  /\ token' = FALSE /\ Go("top")
  /\ UNCHANGED <<flagVars, queueVars, caller, backoff, stopper, sent>>

Due ==
  /\ At("due") /\ Go(IF StopDue THEN "end" ELSE IF sender.sock THEN "drain" ELSE "connect")
  /\ UNCHANGED <<flagVars, queueVars, token, caller, backoff, stopper, sent>>

Connect ==
  /\ At("connect")
  /\ \/ sender' = [sender EXCEPT !.pc = "drain", !.sock = TRUE]
     \/ Go("backoff")
  /\ UNCHANGED <<flagVars, queueVars, token, caller, backoff, stopper, sent>>

\* waitBackoff: any notification ends the wait, also one of a new report.
Backoff ==
  /\ At("backoff")
  /\ IF StopDue THEN Go("end") /\ UNCHANGED backoff ELSE Go("pause") /\ backoff' = TRUE
  /\ UNCHANGED <<flagVars, queueVars, token, caller, stopper, sent>>

Pause ==
  /\ At("pause") /\ token
  /\ token' = FALSE /\ backoff' = FALSE /\ Go("resume")
  /\ UNCHANGED <<flagVars, queueVars, caller, stopper, sent>>

Resume ==
  /\ At("resume") /\ Go(IF running /\ ~StopDue THEN "top" ELSE "end")
  /\ UNCHANGED <<flagVars, queueVars, token, caller, backoff, stopper, sent>>

BackoffOver ==
  /\ backoff /\ backoff' = FALSE /\ token' = TRUE
  /\ UNCHANGED <<flagVars, queueVars, caller, sender, stopper, sent>>

\* drainOnce takes one report at a time and sends it outside the lock.
Take ==
  /\ At("drain")
  /\ \/ /\ ~running /\ GoOffline("top") /\ UNCHANGED queue
     \/ /\ running /\ (StopDue \/ queue = <<>>) /\ Go("top") /\ UNCHANGED queue
     \/ /\ running /\ ~StopDue /\ queue # <<>>
        /\ sender' = [sender EXCEPT !.pc = "send", !.hand = Head(queue)]
        /\ queue' = Tail(queue)
  /\ UNCHANGED <<flagVars, seen, cooling, taken, dropped, token, caller, backoff, stopper, sent>>

Drop(d, s) == [i \in Ids |-> d[i] + Cardinality({k \in DOMAIN s : s[k] = i})]

SendOk ==
  /\ At("send")
  /\ sent' = [sent EXCEPT ![sender.hand] = @ + 1]
  /\ sender' = [sender EXCEPT !.pc = "drain", !.hand = NoId]
  /\ UNCHANGED <<flagVars, queueVars, token, caller, backoff, stopper>>

\* More than kMaxBody of JSON.
SendTooLarge ==
  /\ At("send")
  /\ dropped' = Drop(dropped, <<sender.hand>>)
  /\ sender' = [sender EXCEPT !.pc = "drain", !.hand = NoId]
  /\ UNCHANGED <<flagVars, queue, seen, cooling, taken, token, caller, backoff, stopper, sent>>

\* A slip: the report goes back to the front of a queue that is full.
RequeueOver == queue' = <<sender.hand>> \o queue /\ UNCHANGED dropped

\* The report goes back to the front; the last of a full queue makes room.
Requeue ==
  IF Len(queue) >= MaxQueue
  THEN /\ queue' = <<sender.hand>> \o Front(queue)
       /\ dropped' = Drop(dropped, <<Last(queue)>>)
  ELSE queue' = <<sender.hand>> \o queue /\ UNCHANGED dropped

SendFails ==
  /\ At("send") /\ Requeue
  /\ GoOffline("top")
  /\ UNCHANGED <<flagVars, seen, cooling, taken, token, caller, backoff, stopper, sent>>

\* dropRest, and finish, which sets m_done without m_doneMtx.
DropRest == queue' = <<>> /\ dropped' = Drop(dropped, queue)

LoopEnds ==
  /\ At("end") /\ DropRest /\ GoOffline("finish")
  /\ UNCHANGED <<flagVars, seen, cooling, taken, token, caller, backoff, stopper, sent>>

Finish ==
  /\ At("finish") /\ Go("over")
  /\ running' = FALSE /\ done' = TRUE
  /\ UNCHANGED <<accepting, started, stopAt, queueVars, token, caller, backoff, stopper, sent>>

----------------------------------------------------------------------------
(* stop                                                                    *)

StopGo(from, to) == stopper = from /\ stopper' = to

\* m_started is read before m_accepting is cleared.
StopCalled ==
  /\ StopGo("idle", IF started THEN "exchange" ELSE "early")
  /\ UNCHANGED <<flagVars, queueVars, token, caller, sender, backoff, sent>>

StopAccepting ==
  /\ StopGo("exchange", "deadline") \/ StopGo("early", "drop")
  /\ accepting' = FALSE
  /\ UNCHANGED <<running, started, stopAt, done, queueVars, token, caller, sender, backoff, sent>>

StopDeadline ==
  /\ StopGo("deadline", "notify") /\ stopAt' = "set"
  /\ UNCHANGED <<accepting, running, started, done, queueVars, token, caller, sender, backoff, sent>>

\* A slip: the sender is not woken.
StopNotifyNot ==
  /\ \E here \in BOOLEAN : StopGo("notify", IF here THEN "left" ELSE "waiting")
  /\ UNCHANGED <<flagVars, queueVars, token, caller, sender, backoff, sent>>

\* Called on the reporter's own manager, stop does not wait.
StopNotify ==
  /\ \E here \in BOOLEAN : StopGo("notify", IF here THEN "left" ELSE "waiting")
  /\ token' = TRUE
  /\ UNCHANGED <<flagVars, queueVars, caller, sender, backoff, sent>>

StopWaited ==
  /\ done /\ StopGo("waiting", "left")
  /\ UNCHANGED <<flagVars, queueVars, token, caller, sender, backoff, sent>>

\* The wait is 100 ms longer than the deadline.
StopGivesUp ==
  /\ stopAt = "over" /\ StopGo("waiting", "wake") /\ running' = FALSE
  /\ UNCHANGED <<accepting, started, stopAt, done, queueVars, token, caller, sender, backoff, sent>>

StopWakes ==
  /\ StopGo("wake", "drop") /\ token' = TRUE
  /\ UNCHANGED <<flagVars, queueVars, caller, sender, backoff, sent>>

StopDrops ==
  /\ StopGo("drop", "left") /\ DropRest
  /\ UNCHANGED <<flagVars, seen, cooling, taken, token, caller, sender, backoff, sent>>

DeadlinePasses ==
  /\ stopAt = "set" /\ stopAt' = "over"
  /\ UNCHANGED <<accepting, running, started, done, queueVars, token, caller, sender, backoff,
                 stopper, sent>>

----------------------------------------------------------------------------
Loop == LoopTop \/ Empty \/ WaitForReport \/ Due \/ Connect \/ Backoff \/ Pause \/ Resume
          \/ Take \/ SendOk \/ SendTooLarge \/ SendFails \/ LoopEnds \/ Finish
Stopping == StopAccepting \/ StopDeadline \/ StopNotify \/ StopWaited \/ StopWakes \/ StopDrops

Next ==
  \/ \E c \in Callers : TryReport(c) \/ TryRefused(c) \/ TryPush(c) \/ TryNotify(c)
  \/ CoolDown \/ Start \/ StartLoop \/ Loop \/ BackoffOver
  \/ StopCalled \/ Stopping \/ StopGivesUp \/ DeadlinePasses

\* The coroutine is run on, a stop that was begun goes on, time passes and
\* the back-off timer fires.  Neither connects nor sends owe anything.
Fairness ==
  /\ WF_vars(Loop) /\ WF_vars(StartLoop) /\ WF_vars(Stopping)
  /\ WF_vars(BackoffOver) /\ WF_vars(DeadlinePasses)

Spec == Init /\ [][Next]_vars /\ Fairness

----------------------------------------------------------------------------
(* Properties.                                                             *)

\* A report that tryReport accepted is in one place: in the queue, which
\* keeps its bound also when a report that could not be sent goes back to
\* it, in the hand of the sender, sent, or counted as dropped; and when the
\* sender is through, none is left that nobody would ever send or count.
ReportsAccounted ==
  /\ Len(queue) <= MaxQueue
  /\ \A i \in Ids :
       taken[i] = sent[i] + dropped[i] + Queued(i) + (IF sender.hand = i THEN 1 ELSE 0)
  /\ done => queue = <<>>

Ended == stopper = "left" /\ (started => done)

\* A stop() that found the reporter started, or that cleared m_accepting
\* before the loop began, returns and ends the sender, wherever it is:
\* asleep on an empty queue, in a back-off, in a connect or a send that
\* fails again and again, or not yet running.
ReporterStops == stopper = "deadline" \/ (~accepting /\ At("off")) ~> Ended
=============================================================================
