------------------------------ MODULE RuleSync ------------------------------
(***************************************************************************)
(* How a gateway's copy of the rules (Guard) follows the hub: the hub side *)
(* of a subscription (ipban/session.cpp: a receiving and a sending loop    *)
(* that share the session under its mutex), the gateway side               *)
(* (ipban/pull.cpp: SyncClient) and the stream socket between them. The    *)
(* hub edits rules, fires its broadcaster, restarts under a new epoch or   *)
(* drains its sessions; links break, answers come too late, and a gateway  *)
(* may dial again while the hub still serves its previous connection.      *)
(***************************************************************************)
EXTENDS RuleHub

CONSTANTS Conns,      \* connections that may exist at the same time
          None,
          MaxEpoch, MaxFault, MaxPing    \* bounds on what is explored

ASSUME SyncAssumption == /\ None \notin Conns
                         /\ MaxEpoch \in Nat \ {0} /\ MaxFault \in Nat /\ MaxPing \in Nat

VARIABLES
    announced,     \* version up to which the broadcaster was fired
    draining,      \* Daemon::beginStop was called
    hist,          \* ghost: the rules at every version of every epoch
    sess,          \* hub side of each connection (Session)
    out,           \* sendCurrent's local push of each session, or None
    toGw, toHub,   \* the two directions of each connection
    gwOpen,        \* the gateway's end of the socket is open
    hubOpen,       \* the hub's end of the socket is open
    conn,          \* SyncClient::m_sock
    client,        \* SyncClient::m_state
    linkEpoch,     \* the epoch READY named
    badSync,       \* pushes refused in a row on this connection
    gEpoch, gVer, gRules,   \* Guard: m_remoteEpoch, m_remoteVer, m_remote
    faults         \* broken links and timeouts so far

hubSide == <<announced, draining, hist, hubVars>>
guardVars == <<gEpoch, gVer, gRules>>
clientVars == <<conn, client, linkEpoch, badSync>>
wires == <<toGw, toHub, gwOpen, hubOpen>>
vars == <<hubSide, sess, out, wires, clientVars, guardVars, faults>>

(* Session::State, in the order the code compares them by.                 *)
Rank == [NEW |-> 0, HELLO |-> 1, SYNC |-> 2, OPEN |-> 3, DRAIN |-> 4,
         CLOSING |-> 5, CLOSED |-> 6]
Before(s, st) == Rank[sess[s].st] < Rank[st]

(* send, recv: where the two loops are; token: the waker's eventfd is      *)
(* readable; sync, ping: sequence number awaiting its answer, 0 if none;   *)
(* timed: the deadline of the pending push is running (m_sync.due); due:   *)
(* who has listed the session to stop it (None is the daemon); shut: who   *)
(* has set it CLOSING and has not yet closed its socket.                   *)
NewSession(st, pos) ==
    [st |-> st, send |-> pos, recv |-> IF pos = "wait" THEN "hello" ELSE "done",
     token |-> FALSE, ready |-> FALSE, target |-> 0, known |-> FALSE,
     sync |-> 0, syncVer |-> 0, timed |-> FALSE, sentVer |-> 0, sentOnce |-> FALSE,
     pushDue |-> FALSE, dirty |-> FALSE, forceFull |-> FALSE, pingDue |-> FALSE,
     ping |-> 0, pings |-> 0, nextSeq |-> 1, err |-> FALSE, acked |-> 0,
     due |-> {}, shut |-> {}]

(* A message: its kind, its sequence number and what it carries.           *)
Msg(kind, seq, body) == [kind |-> kind, seq |-> seq, body |-> body]

ClosedSession == NewSession("CLOSED", "done")

SyncInit ==
    /\ HubInit
    /\ announced = 0 /\ draining = FALSE
    /\ hist = [e \in 1 .. MaxEpoch |-> [v \in 0 .. MaxVer |-> [i \in Ids |-> NoRule]]]
    /\ sess = [s \in Conns |-> ClosedSession]
    /\ out = [s \in Conns |-> None]
    /\ toGw = [s \in Conns |-> << >>] /\ toHub = [s \in Conns |-> << >>]
    /\ gwOpen = [s \in Conns |-> FALSE] /\ hubOpen = [s \in Conns |-> FALSE]
    /\ conn = None /\ client = "DOWN" /\ linkEpoch = 0 /\ badSync = 0
    /\ gEpoch = 0 /\ gVer = 0 /\ gRules = [i \in Ids |-> NoRule]
    /\ faults = 0

-----------------------------------------------------------------------------
(* The hub: edits, the broadcaster, restart, drain.                        *)

Remembered == hist' = [hist EXCEPT ![epoch'][ver'] = rules']

EditRule ==
    /\ ~draining /\ ver < MaxVer
    /\ \/ \E i \in Ids, r \in Rules : Put(i, r)
       \/ \E i \in Ids : Erase(i)
    /\ Remembered
    /\ UNCHANGED <<announced, draining, sess, out, wires, clientVars, guardVars, faults>>

(* Mutant: a wake during a push is ignored.                                *)
WokenIdle(x) == IF Rank[x.st] >= Rank["DRAIN"] \/ x.sync # 0 THEN x
                ELSE [x EXCEPT !.pushDue = TRUE, !.token = TRUE]

(* Session::wake on every session of the registry (Broadcaster::publish).  *)
Woken(x) == IF Rank[x.st] >= Rank["DRAIN"] THEN x
            ELSE [x EXCEPT !.pushDue = TRUE, !.dirty = @ \/ x.sync # 0, !.token = TRUE]

Publish ==
    /\ announced < ver
    /\ announced' = ver
    /\ sess' = [s \in Conns |-> Woken(sess[s])]
    /\ UNCHANGED <<draining, hist, hubVars, out, wires, clientVars, guardVars, faults>>

(* The process dies and comes back: its ends of the sockets are closed.    *)
Restart ==
    /\ epoch < MaxEpoch
    /\ HubRestart
    /\ Remembered
    /\ announced' = ver' /\ draining' = FALSE
    /\ sess' = [s \in Conns |-> ClosedSession]
    /\ out' = [s \in Conns |-> None]
    /\ hubOpen' = [s \in Conns |-> FALSE]
    /\ toHub' = [s \in Conns |-> << >>]
    /\ UNCHANGED <<toGw, gwOpen, clientVars, guardVars, faults>>

(* Session::beginStop, called by c: the daemon (None) lets a session drain,*)
(* a newer connection of the same gateway does not. Who sets CLOSING also  *)
(* closes the socket, but only after it has let go of the mutex.           *)
Stopped(x, c) ==
    IF c = None /\ x.st \in {"SYNC", "OPEN"} THEN [x EXCEPT !.st = "DRAIN", !.token = TRUE]
    ELSE IF Rank[x.st] < Rank["CLOSING"]
    THEN [x EXCEPT !.st = "CLOSING", !.token = TRUE, !.shut = @ \cup {c}]
    ELSE [x EXCEPT !.token = TRUE]

(* SessionRegistry::stopAll lists the sessions ...                         *)
BeginStop ==
    /\ ~draining /\ epoch < MaxEpoch
    /\ draining' = TRUE
    /\ sess' = [s \in Conns |-> IF sess[s].st = "CLOSED" THEN sess[s]
                               ELSE [sess[s] EXCEPT !.due = @ \cup {None}]]
    /\ UNCHANGED <<announced, hist, hubVars, out, wires, clientVars, guardVars, faults>>

Elsewhere == <<hubSide, clientVars, guardVars, faults>>

(* ... and stops them one by one, as the elders of a session are stopped.  *)
Stop(c, s) ==
    /\ c \in sess[s].due /\ \A p \in Conns : c \notin sess[p].shut
    /\ sess' = [sess EXCEPT ![s] = Stopped([sess[s] EXCEPT !.due = @ \ {c}], c)]
    /\ UNCHANGED <<out, wires, Elsewhere>>

(* The closeNow at the end of beginStop and forceStop. In between the      *)
(* session's loops go on.                                                  *)
CloseNow(c, s) ==
    /\ c \in sess[s].shut
    /\ sess' = [sess EXCEPT ![s].token = TRUE, ![s].shut = @ \ {c}]
    /\ hubOpen' = [hubOpen EXCEPT ![s] = FALSE]
    /\ UNCHANGED <<out, toGw, toHub, gwOpen, Elsewhere>>

(* SessionRegistry::forceAll, when the drain took longer than stopTimeout. *)
ForceStop(s) ==
    /\ draining /\ \A p \in Conns : None \notin sess[p].due \cup sess[p].shut
    /\ sess[s].st # "CLOSED" /\ (sess[s].st # "CLOSING" \/ hubOpen[s])
    /\ sess' = [sess EXCEPT ![s].st = "CLOSING", ![s].shut = @ \cup {None}]
    /\ UNCHANGED <<out, wires, Elsewhere>>

-----------------------------------------------------------------------------
(* The sending loop of a session. A step is a section under the session's  *)
(* mutex, together with the send that follows it, or the call to nextPush. *)

Wired(s) == gwOpen[s] /\ hubOpen[s]

(* loopDone: the second loop to end closes the session and its socket.     *)
Ended(x) == IF x.send = "done" /\ x.recv = "done" THEN ClosedSession ELSE x
Closing(x) == IF Rank[x.st] < Rank["CLOSING"] THEN [x EXCEPT !.st = "CLOSING"] ELSE x

SendEnds(s, x) == /\ sess' = [sess EXCEPT ![s] = Ended([x EXCEPT !.send = "done"])]
                  /\ hubOpen' = [hubOpen EXCEPT ![s] = FALSE]

(* Send m and go on with session x, or, if the socket is gone, fail.       *)
SendOrFail(s, m, x) ==
    /\ IF Wired(s)
       THEN /\ toGw' = [toGw EXCEPT ![s] = Append(@, m)]
            /\ sess' = [sess EXCEPT ![s] = x]
            /\ UNCHANGED hubOpen
       ELSE SendEnds(s, Closing(x)) /\ UNCHANGED toGw
    /\ UNCHANGED <<toHub, gwOpen>>

SendWake(s) ==
    LET x == [sess[s] EXCEPT !.token = FALSE]
    IN  /\ x.send = "wait" /\ sess[s].token
        /\ IF x.err
           THEN /\ toGw' = IF Wired(s) THEN [toGw EXCEPT ![s] = Append(@, Msg("ERR", 0, None))]
                           ELSE toGw
                /\ SendEnds(s, x)
           ELSE IF x.st = "CLOSING"
           THEN SendEnds(s, x) /\ UNCHANGED toGw
           ELSE /\ sess' = [sess EXCEPT ![s] =
                               [x EXCEPT !.send = IF x.ready THEN "ready" ELSE "cur"]]
                /\ UNCHANGED <<hubOpen, toGw>>
        /\ UNCHANGED <<out, toHub, gwOpen, Elsewhere>>

SendReady(s) ==
    LET x == sess[s]
    IN  /\ x.send = "ready"
        /\ SendOrFail(s, Msg("READY", 1, [epoch |-> epoch, version |-> x.target]),
                      [x EXCEPT !.ready = FALSE, !.send = "readied"])
        /\ UNCHANGED <<out, Elsewhere>>

SendReadied(s) ==
    LET x == [sess[s] EXCEPT !.send = "cur"]
    IN  /\ sess[s].send = "readied"
        /\ sess' = [sess EXCEPT ![s] =
              IF Rank[x.st] >= Rank["DRAIN"] THEN x
              ELSE IF x.sentOnce /\ x.sentVer = x.target THEN [x EXCEPT !.st = "OPEN"]
              ELSE [x EXCEPT !.st = "SYNC", !.pushDue = TRUE]]
        /\ UNCHANGED <<out, wires, Elsewhere>>

(* sendCurrent, first section: is there something to push, and from where? *)
SendCurrent(s) ==
    LET x == sess[s]
    IN  /\ x.send = "cur"
        /\ IF \/ Rank[x.st] >= Rank["DRAIN"]
              \/ x.sync # 0
              \/ ~x.pushDue /\ ~x.forceFull
           THEN /\ sess' = [sess EXCEPT ![s] =
                      IF Rank[x.st] < Rank["DRAIN"] /\ x.sync # 0
                      THEN [x EXCEPT !.send = "ping", !.dirty = @ \/ x.pushDue,
                                     !.pushDue = FALSE]
                      ELSE [x EXCEPT !.send = "ping"]]
                /\ UNCHANGED out
           ELSE /\ sess' = [sess EXCEPT ![s] =
                      [x EXCEPT !.send = "push", !.pushDue = FALSE, !.forceFull = FALSE,
                                !.sentOnce = @ /\ ~x.forceFull]]
                /\ out' = [out EXCEPT ![s] = [from |-> x.sentVer,
                                            once |-> x.sentOnce /\ ~x.forceFull]]
        /\ UNCHANGED <<wires, Elsewhere>>

(* The call to nextPush, with no session lock held.                        *)
SendPush(s) ==
    /\ sess[s].send = "push"
    /\ IF NothingToPush(out[s].from, out[s].once)
       THEN /\ sess' = [sess EXCEPT ![s].send = "ping",
                                    ![s].st = IF Before(s, "DRAIN") THEN "OPEN" ELSE @]
            /\ out' = [out EXCEPT ![s] = None]
       ELSE /\ sess' = [sess EXCEPT ![s].send = "mark"]
            /\ out' = [out EXCEPT ![s] = NextPush(out[s].from, out[s].once)]
    /\ UNCHANGED <<wires, Elsewhere>>

(* Mutant: a wake between the two sections is dropped.                     *)
SendMarkForgets(s) ==
    LET x == sess[s]
    IN  /\ x.send = "mark"
        /\ sess' = [sess EXCEPT ![s] =
              [x EXCEPT !.send = "emit", !.sync = x.nextSeq, !.nextSeq = @ + 1,
                        !.syncVer = out[s].version, !.timed = FALSE,
                        !.dirty = FALSE, !.pushDue = FALSE, !.st = "SYNC"]]
        /\ UNCHANGED <<out, wires, Elsewhere>>

(* sendCurrent, second section: the push counts as in flight. A wake that  *)
(* came since the first section must not be lost. The state is set without *)
(* a look at it, so a CLOSING that came meanwhile is overwritten.          *)
SendMark(s) ==
    LET x == sess[s]
    IN  /\ x.send = "mark"
        /\ sess' = [sess EXCEPT ![s] =
              [x EXCEPT !.send = "emit", !.sync = x.nextSeq, !.nextSeq = @ + 1,
                        !.syncVer = out[s].version, !.timed = FALSE,
                        !.dirty = @ \/ x.pushDue, !.pushDue = FALSE, !.st = "SYNC"]]
        /\ UNCHANGED <<out, wires, Elsewhere>>

(* The send itself, with the number taken above.                           *)
SendEmit(s) ==
    LET x == sess[s]
    IN  /\ x.send = "emit"
        /\ SendOrFail(s, Msg(out[s].kind, x.nextSeq - 1, out[s]), [x EXCEPT !.send = "sent"])
        /\ out' = IF Wired(s) THEN out ELSE [out EXCEPT ![s] = None]
        /\ UNCHANGED Elsewhere

(* sendCurrent, last section; the answer may already have been handled.    *)
SendSent(s) ==
    LET x == sess[s]
    IN  /\ x.send = "sent"
        /\ sess' = [sess EXCEPT ![s] =
              [x EXCEPT !.send = "ping", !.sentVer = out[s].version, !.sentOnce = TRUE,
                        !.timed = x.sync # 0]]
        /\ out' = [out EXCEPT ![s] = None]
        /\ UNCHANGED <<wires, Elsewhere>>

SendPing(s) ==
    LET x == [sess[s] EXCEPT !.send = "bye"]
    IN  /\ sess[s].send = "ping"
        /\ IF ~x.pingDue \/ x.ping # 0 \/ x.sync # 0 \/ Rank[x.st] >= Rank["DRAIN"]
           THEN sess' = [sess EXCEPT ![s] = x] /\ UNCHANGED wires
           ELSE SendOrFail(s, Msg("PING", x.nextSeq, None),
                  [x EXCEPT !.pingDue = FALSE, !.ping = x.nextSeq, !.nextSeq = @ + 1,
                            !.pings = @ + 1])
        /\ UNCHANGED <<out, Elsewhere>>

SendBye(s) ==
    LET x == sess[s]
    IN  /\ x.send = "bye"
        /\ IF x.st = "DRAIN" /\ x.sync = 0
           THEN /\ toGw' = IF Wired(s) THEN [toGw EXCEPT ![s] = Append(@, Msg("BYE", 0, None))]
                           ELSE toGw
                /\ SendEnds(s, [x EXCEPT !.st = "CLOSING"])
           ELSE sess' = [sess EXCEPT ![s].send = "wait"] /\ UNCHANGED <<toGw, hubOpen>>
        /\ UNCHANGED <<out, toHub, gwOpen, Elsewhere>>

SendStep(s) == \/ SendWake(s) \/ SendReady(s) \/ SendReadied(s) \/ SendCurrent(s)
               \/ SendPush(s) \/ SendMark(s) \/ SendEmit(s) \/ SendSent(s)
               \/ SendPing(s) \/ SendBye(s)

-----------------------------------------------------------------------------
(* The receiving loop of a session.                                        *)

(* recvLoop reads HELLO and the hub's version before it takes the mutex.   *)
RecvHello(s) ==
    /\ sess[s].recv = "hello" /\ hubOpen[s] /\ toHub[s] # << >>
    /\ sess' = [sess EXCEPT ![s].recv = "bind", ![s].target = ver]
    /\ UNCHANGED <<out, wires, Elsewhere>>

(* Mutant: a version of another epoch is taken for one of this epoch.      *)
ResumesAny(x, m) == m.version <= x.target

(* Resume from the gateway's version if it is of this epoch, and ask for   *)
(* READY; from here on the session is known by the gateway's name.         *)
Resumes(x, m) == m.epoch = epoch /\ m.version <= x.target

RecvBind(s) ==
    LET x == sess[s]
        m == Head(toHub[s]).body
    IN  /\ x.recv = "bind"
        /\ sess' = [sess EXCEPT ![s] =
              [x EXCEPT !.recv = "replace", !.known = TRUE, !.ready = TRUE,
                        !.sentVer = IF Resumes(x, m) THEN m.version ELSE @,
                        !.sentOnce = @ \/ Resumes(x, m),
                        !.acked = IF Resumes(x, m) THEN m.version ELSE @]]
        /\ toHub' = [toHub EXCEPT ![s] = Tail(@)]
        /\ UNCHANGED <<out, toGw, gwOpen, hubOpen, Elsewhere>>

(* readyFn lists the other sessions of this gateway, to stop them (Stop,   *)
(* CloseNow), and then wakes the sender. Two that do this at the same time *)
(* stop each other.                                                        *)
Older(s, p) == p # s /\ sess[p].known

RecvReplace(s) ==
    /\ sess[s].recv = "replace"
    /\ sess' = [p \in Conns |-> IF p = s THEN [sess[s] EXCEPT !.recv = "replacing"]
                                ELSE IF Older(s, p) THEN [sess[p] EXCEPT !.due = @ \cup {s}]
                                ELSE sess[p]]
    /\ UNCHANGED <<out, wires, Elsewhere>>

RecvReplaced(s) ==
    /\ sess[s].recv = "replacing" /\ \A p \in Conns : s \notin sess[p].due \cup sess[p].shut
    /\ sess' = [sess EXCEPT ![s].recv = "loop", ![s].token = TRUE]
    /\ UNCHANGED <<out, wires, Elsewhere>>

RecvEnds(s, x) == /\ sess' = [sess EXCEPT ![s] = Ended([x EXCEPT !.recv = "done", !.token = TRUE])]
                  /\ hubOpen' = [hubOpen EXCEPT ![s] = FALSE]

(* failProto sets CLOSING under the mutex, and closes the socket after it. *)
RecvFails(s) == sess' = [sess EXCEPT ![s] = [Closing(@) EXCEPT !.recv = "fail"]]

RecvClose(s) ==
    /\ sess[s].recv = "fail"
    /\ RecvEnds(s, sess[s])
    /\ UNCHANGED <<out, toGw, toHub, gwOpen, Elsewhere>>

(* failMsg: the sending loop reports the error and closes.                 *)
Refused(x) == [Closing(x) EXCEPT !.err = TRUE, !.token = TRUE]

(* onMsg: ACK, SNAP_REQ and PONG, each only if it is what is waited for.   *)
Answered(x, m) ==
    CASE m.kind = "ACK" /\ x.sync # 0 /\ m.seq = x.sync
                        /\ m.body.epoch = epoch /\ m.body.version = x.syncVer ->
           [x EXCEPT !.acked = x.syncVer, !.sync = 0, !.syncVer = 0, !.timed = FALSE,
                     !.st = IF Rank[x.st] < Rank["DRAIN"] THEN "OPEN" ELSE @,
                     !.pushDue = @ \/ x.dirty, !.dirty = FALSE, !.token = TRUE]
      [] m.kind = "SNAP_REQ" /\ x.st = "SYNC" ->
           [x EXCEPT !.sync = 0, !.syncVer = 0, !.timed = FALSE, !.forceFull = TRUE,
                     !.pushDue = TRUE, !.token = TRUE]
      [] m.kind = "PONG" /\ x.ping # 0 /\ m.seq = x.ping -> [x EXCEPT !.ping = 0]
      [] OTHER -> Refused(x)

RecvMsg(s) ==
    /\ sess[s].recv = "loop" /\ Before(s, "CLOSING") /\ hubOpen[s] /\ toHub[s] # << >>
    /\ sess' = [sess EXCEPT ![s] = Answered(sess[s], Head(toHub[s]))]
    /\ toHub' = [toHub EXCEPT ![s] = Tail(@)]
    /\ UNCHANGED <<out, toGw, gwOpen, hubOpen, Elsewhere>>

(* The loop ends when the session closes or the stream does.               *)
RecvEnd(s) ==
    /\ \/ sess[s].recv = "loop" /\ ~Before(s, "CLOSING")
          /\ sess' = [sess EXCEPT ![s] = Ended([@ EXCEPT !.recv = "done"])]
          /\ hubOpen' = [hubOpen EXCEPT ![s] = @ /\ sess[s].send # "done"]
       \/ /\ sess[s].recv \in {"hello", "loop"}
          /\ ~hubOpen[s] \/ (~gwOpen[s] /\ toHub[s] = << >>)
          /\ RecvFails(s) /\ UNCHANGED hubOpen
    /\ UNCHANGED <<out, toGw, toHub, gwOpen, Elsewhere>>

(* No frame within the receive timeout (one may arrive just as it fires):  *)
(* no HELLO in time; an answer that is overdue ends the session with ERR; a*)
(* draining session is woken; an idle one is pinged.                       *)
RecvTimeout(s) ==
    LET x == sess[s]
        overdue == (x.sync # 0 /\ x.timed) \/ x.ping # 0
    IN  /\ Wired(s)
        /\ \/ /\ x.recv = "hello" /\ faults < MaxFault
              /\ faults' = faults + 1
              /\ RecvFails(s) /\ UNCHANGED hubOpen
           \/ /\ x.recv = "loop" /\ Before(s, "CLOSING") /\ overdue /\ faults < MaxFault
              /\ faults' = faults + 1
              /\ sess' = [sess EXCEPT ![s] = [x EXCEPT !.st = "CLOSING", !.err = TRUE,
                                                      !.token = TRUE]]
              /\ UNCHANGED hubOpen
           \/ /\ x.recv = "loop" /\ Before(s, "CLOSING") /\ UNCHANGED <<faults, hubOpen>>
              /\ IF x.st = "DRAIN"
                 THEN sess' = [sess EXCEPT ![s].token = TRUE]
                 ELSE /\ x.sync = 0 /\ x.ping = 0 /\ x.pings < MaxPing
                      /\ sess' = [sess EXCEPT ![s].pingDue = TRUE, ![s].token = TRUE]
    /\ UNCHANGED <<out, toGw, toHub, gwOpen, hubSide, clientVars, guardVars>>

RecvStep(s) == \/ RecvHello(s) \/ RecvBind(s) \/ RecvReplace(s) \/ RecvReplaced(s)
               \/ RecvMsg(s) \/ RecvEnd(s) \/ RecvClose(s)

(* The stopping of a session, by the daemon or by another session.         *)
StopStep(s) == \E c \in Conns \cup {None} : Stop(c, s) \/ CloseNow(c, s)

-----------------------------------------------------------------------------
(* The gateway: SyncClient::session and Guard.                             *)

(* Nothing is left of the session but its sending loop, asleep: its state  *)
(* went from CLOSING back to SYNC when the receiving loop had left. It has *)
(* no socket, and only the daemon's stop or a newer session wakes it to    *)
(* end.                                                                    *)
Leaked(s) == /\ sess[s].recv = "done" /\ sess[s].send = "wait" /\ Before(s, "DRAIN")
             /\ ~sess[s].token /\ ~hubOpen[s] /\ sess[s].due = {} /\ sess[s].shut = {}

(* Connect and send HELLO; the hub accepts, registers and starts a session.*)
(* The name of a leaked session is used again.                             *)
Dial(s) ==
    /\ client \in {"DOWN", "BACKOFF"} /\ ~draining
    /\ sess[s].st = "CLOSED" \/ Leaked(s)
    /\ ~gwOpen[s]
    /\ sess' = [sess EXCEPT ![s] = NewSession("HELLO", "wait")]
    /\ toGw' = [toGw EXCEPT ![s] = << >>]
    /\ toHub' = [toHub EXCEPT ![s] =
          <<Msg("HELLO", 1, [epoch |-> gEpoch, version |-> gVer])>>]
    /\ gwOpen' = [gwOpen EXCEPT ![s] = TRUE] /\ hubOpen' = [hubOpen EXCEPT ![s] = TRUE]
    /\ conn' = s /\ client' = "HELLO" /\ linkEpoch' = 0 /\ badSync' = 0
    /\ UNCHANGED <<hubSide, out, guardVars, faults>>

(* clearSock, and the wait before the next dial (none after BYE).          *)
Hangup(next) ==
    /\ gwOpen' = [gwOpen EXCEPT ![conn] = FALSE]
    /\ toGw' = [toGw EXCEPT ![conn] = << >>]
    /\ conn' = None /\ client' = next /\ linkEpoch' = 0 /\ badSync' = 0
    /\ UNCHANGED toHub

(* The first message must be READY.                                        *)
GwReady ==
    /\ client = "HELLO" /\ toGw[conn] # << >>
    /\ LET m == Head(toGw[conn])
       IN  IF m.kind = "READY"
           THEN /\ linkEpoch' = m.body.epoch
                /\ client' = IF m.body.epoch = gEpoch /\ m.body.version = gVer
                             THEN "OPEN" ELSE "SYNC"
                /\ toGw' = [toGw EXCEPT ![conn] = Tail(@)]
                /\ UNCHANGED <<conn, badSync, toHub, gwOpen>>
           ELSE Hangup("BACKOFF")
    /\ UNCHANGED <<hubSide, sess, out, hubOpen, guardVars, faults>>

(* The rules after a delta: the last operation on an id decides.           *)
ApplyOps(old, ops) ==
    [i \in Ids |->
       IF \E e \in ops : e.id = i
       THEN (CHOOSE e \in ops : e.id = i /\ \A f \in ops : f.id = i => f.version <= e.version).rule
       ELSE old[i]]

(* Guard::applyRemote and Guard::applyDelta: whether a push is accepted.   *)
AcceptsSnap(p) == gEpoch # p.epoch \/ p.version > gVer
AcceptsDelta(p) == gEpoch = p.epoch /\ gVer = p.prev /\ p.version > p.prev
Accepted(p) == /\ p.epoch = linkEpoch
               /\ IF p.kind = "SNAP" THEN AcceptsSnap(p) ELSE AcceptsDelta(p)

Reply(m) == IF hubOpen[conn] THEN [toHub EXCEPT ![conn] = Append(@, m)] ELSE toHub

GwPush ==
    /\ client \in {"SYNC", "OPEN"} /\ toGw[conn] # << >>
    /\ LET m == Head(toGw[conn])
           p == m.body
       IN  /\ m.kind \in {"SNAP", "DELTA"}
           /\ IF Accepted(p)
              THEN /\ gEpoch' = p.epoch /\ gVer' = p.version
                   /\ gRules' = IF p.kind = "SNAP" THEN p.rules ELSE ApplyOps(gRules, p.ops)
              ELSE UNCHANGED guardVars
           /\ IF hubOpen[conn] /\ (Accepted(p) \/ badSync = 0)
              THEN /\ client' = IF Accepted(p) THEN "OPEN" ELSE "SYNC"
                   /\ badSync' = IF Accepted(p) THEN 0 ELSE 1
                   /\ toHub' = Reply(IF Accepted(p)
                                     THEN Msg("ACK", m.seq, [epoch |-> p.epoch,
                                                             version |-> p.version])
                                     ELSE Msg("SNAP_REQ", 0, None))
                   /\ toGw' = [toGw EXCEPT ![conn] = Tail(@)]
                   /\ UNCHANGED <<conn, linkEpoch, gwOpen>>
              ELSE Hangup("BACKOFF")
    /\ UNCHANGED <<hubSide, sess, out, hubOpen, faults>>

GwControl ==
    /\ client \in {"SYNC", "OPEN"} /\ toGw[conn] # << >>
    /\ LET m == Head(toGw[conn])
       IN  /\ m.kind \notin {"SNAP", "DELTA"}
           /\ IF m.kind = "PING" /\ hubOpen[conn]
              THEN /\ toHub' = Reply(Msg("PONG", m.seq, None))
                   /\ toGw' = [toGw EXCEPT ![conn] = Tail(@)]
                   /\ UNCHANGED <<clientVars, gwOpen>>
              ELSE Hangup(IF m.kind = "BYE" THEN "DOWN" ELSE "BACKOFF")
    /\ UNCHANGED <<hubSide, sess, out, hubOpen, guardVars, faults>>

GwEof ==
    /\ conn # None /\ toGw[conn] = << >> /\ ~hubOpen[conn]
    /\ Hangup("BACKOFF")
    /\ UNCHANGED <<hubSide, sess, out, hubOpen, guardVars, faults>>

(* The link breaks, or nothing came within the receive timeout.            *)
GwBreak ==
    /\ conn # None /\ faults < MaxFault
    /\ faults' = faults + 1
    /\ Hangup("BACKOFF")
    /\ UNCHANGED <<hubSide, sess, out, hubOpen, guardVars>>

(* The gateway process restarts with an empty copy.                        *)
GwRestart ==
    /\ faults < MaxFault
    /\ faults' = faults + 1
    /\ gEpoch' = 0 /\ gVer' = 0 /\ gRules' = [i \in Ids |-> NoRule]
    /\ IF conn = None
       THEN client' = "DOWN" /\ UNCHANGED <<toGw, toHub, gwOpen, conn, linkEpoch, badSync>>
       ELSE Hangup("DOWN")
    /\ UNCHANGED <<hubSide, sess, out, hubOpen>>

(* Guard::tickExpiry: a rule with an expiry time leaves the copy by the    *)
(* gateway's own clock, before or after it leaves the hub.                 *)
GwExpire(i) ==
    /\ gRules[i] # NoRule /\ gRules[i].timed
    /\ gRules' = [gRules EXCEPT ![i] = NoRule]
    /\ UNCHANGED <<hubSide, sess, out, wires, clientVars, gEpoch, gVer, faults>>

GwStep == GwReady \/ GwPush \/ GwControl \/ GwEof

SyncNext ==
    \/ EditRule \/ Publish \/ Restart \/ BeginStop
    \/ \E s \in Conns : \/ SendStep(s) \/ RecvStep(s) \/ RecvTimeout(s) \/ Dial(s)
                        \/ StopStep(s) \/ ForceStop(s)
    \/ GwStep \/ GwBreak \/ GwRestart
    \/ \E i \in Ids : GwExpire(i)

SyncSpec == SyncInit /\ [][SyncNext]_vars

(* The reactor runs every ready coroutine, the broadcaster and timers fire,*)
(* the client dials again, and a hub that stops is started again.          *)
SyncFairness ==
    /\ WF_vars(Publish) /\ WF_vars(GwStep)
    /\ \A s \in Conns : /\ WF_vars(SendStep(s)) /\ WF_vars(RecvStep(s))
                        /\ WF_vars(StopStep(s)) /\ WF_vars(ForceStop(s))
    /\ WF_vars(\E s \in Conns : Dial(s))
    /\ WF_vars(draining /\ Restart)

FairSyncSpec == SyncSpec /\ SyncFairness

-----------------------------------------------------------------------------
(* Properties.                                                             *)

(* Every variable has its type.                                            *)
SyncTypeOK ==
    /\ HubTypeOK
    /\ announced \in Nat /\ draining \in BOOLEAN
    /\ sess \in [Conns -> [st : DOMAIN Rank,
                send : {"wait", "ready", "readied", "cur", "push", "mark", "emit", "sent",
                        "ping", "bye", "done"},
                recv : {"hello", "bind", "replace", "replacing", "loop", "fail", "done"},
                token : BOOLEAN, ready : BOOLEAN, target : Nat, known : BOOLEAN,
                sync : Nat, syncVer : Nat, timed : BOOLEAN, sentVer : Nat,
                sentOnce : BOOLEAN, pushDue : BOOLEAN, dirty : BOOLEAN,
                forceFull : BOOLEAN, pingDue : BOOLEAN, ping : Nat, pings : Nat,
                nextSeq : Nat, err : BOOLEAN, acked : Nat,
                due : SUBSET (Conns \cup {None}), shut : SUBSET (Conns \cup {None})]]
    /\ conn \in Conns \cup {None}
    /\ client \in {"DOWN", "HELLO", "SYNC", "OPEN", "BACKOFF"}
    /\ gwOpen \in [Conns -> BOOLEAN] /\ hubOpen \in [Conns -> BOOLEAN]
    /\ gEpoch \in Nat /\ gVer \in Nat /\ gRules \in [Ids -> Rules \cup {NoRule}]

(* The gateway's copy is never torn: it is the rule set the hub had at the *)
(* copy's epoch and version, except for rules that the gateway's own clock *)
(* has expired. Through lost links, replays, overflown logs and restarts.  *)
SameRules(mine, theirs) ==
    \A i \in Ids :  \/ mine[i] = theirs[i]
                    \/ mine[i] = NoRule /\ theirs[i] # NoRule /\ theirs[i].timed
NotTorn == gEpoch # 0 => SameRules(gRules, hist[gEpoch][gVer])

(* What the hub takes for acknowledged, the gateway at the other end holds.*)
AckedIsApplied ==
    \A s \in Conns : gwOpen[s] /\ sess[s].acked > 0 =>
        gEpoch = epoch /\ gVer >= sess[s].acked

(* No change is lost: a session that is open, with no push in flight and   *)
(* both loops asleep, has sent the last announced version. (Until the      *)
(* daemon begins to stop; and not where beginStop is about to close the    *)
(* socket: a wake between the CLOSING it has set and the SYNC that         *)
(* sendCurrent sets over it is dropped.)                                   *)
Asleep(s) == /\ sess[s].st = "OPEN" /\ sess[s].send = "wait" /\ ~sess[s].token
             /\ sess[s].recv = "loop" /\ sess[s].sync = 0 /\ toHub[s] = << >>
NoLostWake ==
    \A s \in Conns : Asleep(s) /\ Wired(s) /\ sess[s].shut = {} /\ announced = ver /\ ~draining =>
        sess[s].sentOnce /\ sess[s].sentVer = ver

(* One push is in flight at a time: the push the session waits for is the  *)
(* newest one sent, so an answer can only be to that push.                 *)
Pushes(s) == {n \in 1 .. Len(toGw[s]) : toGw[s][n].kind \in {"SNAP", "DELTA"}}
OnePushInFlight ==
    \A s \in Conns : gwOpen[s] /\ sess[s].st # "CLOSED" =>
        /\ \A n, m \in Pushes(s) : n = m
        /\ sess[s].sync = 0 => Pushes(s) = {}

(* A gateway that dials again is served by one session only: of those that *)
(* passed the replacing of their elders, all but one have an error to      *)
(* report, a closed socket, or somebody about to close it; also when two   *)
(* replace each other at the same time. The state alone does not say it:   *)
(* sendCurrent sets SYNC over CLOSING, and may then even send once more.   *)
Serving(s) == /\ sess[s].recv = "loop" /\ Before(s, "CLOSING") /\ ~sess[s].err
              /\ hubOpen[s] /\ sess[s].shut = {}
OneServing == \A s, p \in Conns : Serving(s) /\ Serving(p) => s = p

(* The two loops of a session and the sessions of a gateway agree: no wake *)
(* is lost, one push is in flight, and one session serves the gateway.     *)
SessionSound == SyncTypeOK /\ NoLostWake /\ OnePushInFlight /\ OneServing

(* The delta sent from any version that the log covers holds exactly the   *)
(* changes since that version, and rebuilds the current rules from it.     *)
DeltaRebuilds ==
    \A v \in 0 .. ver : CanCover(log, v) =>
        /\ {e.version : e \in Collect(log, v, ver)} = (v + 1) .. ver
        /\ ApplyOps(hist[epoch][v], Collect(log, v, ver)) = rules

(* Once edits, restarts and faults stop, every gateway ends up with the    *)
(* hub's current rules and stays there.                                    *)
Converges == <>[](gEpoch = epoch /\ gVer = ver /\ SameRules(gRules, rules))
=============================================================================
