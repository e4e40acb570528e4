------------------------------- MODULE Tunnel -------------------------------
(***************************************************************************)
(* The WebSocket tunnel (ws.cpp): the upgrade is passed on to an upstream, *)
(* then the coroutine of the request pumps client bytes to the upstream, a *)
(* posted one pumps the other way, and the first waits on an eventfd until *)
(* both are done.  The coroutines may run on different threads.            *)
(***************************************************************************)
EXTENDS Integers, FiniteSets

VARIABLES
  pump,      \* Pumps -> [pc, fatal]: the two calls of pump_tunnel
  main,      \* where tunnel() is
  closed, released, writeFailed, idle, end, activePumps,   \* TunnelState
  holds,     \* the holds on the endpoint that this tunnel owes
  open,      \* sockets that are not closed
  cut,       \* sockets whose reads have come to an end (shutdown, SHUT_RDWR)
  eof,       \* sockets that were told that nothing more is written (SHUT_WR)
  doneFd     \* "open", "signalled" or "closed"

tunnelVars == <<pump, main, closed, released, writeFailed, idle, end, activePumps, holds, open,
                cut, eof, doneFd>>

stateVars == <<closed, released, writeFailed, idle, end, activePumps>>
sockVars == <<open, cut, eof>>

BothEnds == {"client", "upstream"}
Pumps == {"own", "posted"}
From(p) == IF p = "own" THEN "client" ELSE "upstream"
To(p) == IF p = "own" THEN "upstream" ELSE "client"

TunnelInit ==
  /\ pump = [p \in Pumps |-> [pc |-> "off", fatal |-> FALSE]]
  /\ main = "acquire" /\ activePumps = 2
  /\ closed = FALSE /\ released = FALSE /\ writeFailed = FALSE /\ idle = FALSE /\ end = "none"
  /\ holds = 0
  /\ open = {"client"} /\ cut = {} /\ eof = {} /\ doneFd = "none"

----------------------------------------------------------------------------
(* The handshake.                                                          *)

AcquireFails ==
  /\ main = "acquire" /\ main' = "left"
  /\ UNCHANGED <<pump, stateVars, holds, sockVars, doneFd>>

Acquire ==
  /\ main = "acquire" /\ main' = "handshake"
  /\ holds' = holds + 1 /\ open' = open \cup {"upstream"}
  /\ UNCHANGED <<pump, stateVars, cut, eof, doneFd>>

\* Out of time, a send or a read that fails, or no proper 101: the endpoint
\* and its connection are given back and the client gets an error.
HandshakeFails ==
  /\ main = "handshake" /\ main' = "left"
  /\ holds' = holds - 1 /\ open' = open \ {"upstream"}
  /\ UNCHANGED <<pump, stateVars, cut, eof, doneFd>>

Upgrade ==
  /\ main = "handshake" /\ main' = "answer"
  /\ UNCHANGED <<pump, stateVars, holds, sockVars, doneFd>>

\* The 101 for the client, the first bytes of both sides: a send that fails
\* is a failed write of the request, which closes the client's connection.
AnswerFails ==
  /\ main = "answer" /\ main' = "left"
  /\ writeFailed' = TRUE /\ holds' = holds - 1 /\ open' = {}
  /\ UNCHANGED <<pump, closed, released, idle, end, activePumps, cut, eof, doneFd>>

\* No eventfd: the tunnel is closed and released without a pump.
NoEventFd ==
  /\ main = "answer" /\ main' = "left"
  /\ writeFailed' = TRUE /\ closed' = TRUE /\ end' = "io"
  /\ released' = TRUE /\ holds' = holds - 1
  /\ cut' = BothEnds /\ open' = {}
  /\ UNCHANGED <<pump, idle, activePumps, eof, doneFd>>

\* Without an I/O manager there is no second pump.
StartPumps ==
  /\ main = "answer" /\ main' = "pumping" /\ doneFd' = "open"
  /\ \E two \in BOOLEAN :
       /\ pump' = [p \in Pumps |-> [pc |-> IF p = "own" \/ two THEN "recv" ELSE "out",
                                    fatal |-> FALSE]]
       /\ activePumps' = IF two THEN 2 ELSE 1
  /\ UNCHANGED <<closed, released, writeFailed, idle, end, holds, sockVars>>

----------------------------------------------------------------------------
PumpAt(p, pc) == pump[p].pc = pc
PumpGo(p, pc) == pump' = [pump EXCEPT ![p].pc = pc]
Leave(p, fatal) == pump' = [pump EXCEPT ![p] = [pc |-> "half", fatal |-> fatal]]

\* set_end keeps the first reason.
SetEnd(why) == end' = IF end = "none" THEN why ELSE end

\* The loop condition, and a recv that has data.
LoopEnds(p) ==
  /\ PumpAt(p, "recv") /\ closed
  /\ PumpGo(p, "half")
  /\ UNCHANGED <<main, stateVars, holds, sockVars, doneFd>>

RecvData(p) ==
  /\ PumpAt(p, "recv") /\ ~closed /\ From(p) \in open \ cut
  /\ PumpGo(p, "send")
  /\ UNCHANGED <<main, stateVars, holds, sockVars, doneFd>>

\* End of stream; silence for idleTimeoutMs; an I/O error; a closed socket.
RecvEof(p) ==
  /\ PumpAt(p, "recv") /\ ~closed
  /\ SetEnd("peer") /\ Leave(p, FALSE)
  /\ UNCHANGED <<main, closed, released, writeFailed, idle, activePumps, holds, sockVars, doneFd>>
RecvIdle(p) ==
  /\ PumpAt(p, "recv") /\ ~closed /\ From(p) \in open \ cut
  /\ idle' = TRUE /\ SetEnd("idle") /\ Leave(p, FALSE)
  /\ UNCHANGED <<main, closed, released, writeFailed, activePumps, holds, sockVars, doneFd>>
RecvError(p) ==
  /\ PumpAt(p, "recv") /\ ~closed
  /\ SetEnd("io") /\ Leave(p, From(p) \in open)
  /\ UNCHANGED <<main, closed, released, writeFailed, idle, activePumps, holds, sockVars, doneFd>>

\* SendAll to the other side; a broken pipe or a reset is not fatal.
SendOk(p) ==
  /\ PumpAt(p, "send") /\ To(p) \in open \ cut
  /\ PumpGo(p, "recv")
  /\ UNCHANGED <<main, stateVars, holds, sockVars, doneFd>>
SendFails(p) ==
  /\ PumpAt(p, "send")
  /\ writeFailed' = TRUE /\ SetEnd("write")
  /\ \E fatal \in BOOLEAN : Leave(p, fatal)
  /\ UNCHANGED <<main, closed, released, idle, activePumps, holds, sockVars, doneFd>>

----------------------------------------------------------------------------
(* half_close_wr and finish_pump                                           *)

HalfClose(p) ==
  /\ PumpAt(p, "half")
  /\ eof' = IF ~pump[p].fatal /\ To(p) \in open THEN eof \cup {To(p)} ELSE eof
  /\ PumpGo(p, IF pump[p].fatal THEN "close" ELSE "count")
  /\ UNCHANGED <<main, stateVars, holds, open, cut, doneFd>>

\* close_tunnel: only the first call shuts the sockets down.
CloseTunnel == closed' = TRUE /\ cut' = IF closed THEN cut ELSE cut \cup open

FatalClose(p) ==
  /\ PumpAt(p, "close")
  /\ CloseTunnel /\ PumpGo(p, "count")
  /\ UNCHANGED <<main, released, writeFailed, idle, end, activePumps, holds, open, eof, doneFd>>

\* A slip: every pump that ends gives the endpoint back.
CountDownEarly(p) ==
  /\ PumpAt(p, "count")
  /\ activePumps' = activePumps - 1
  /\ PumpGo(p, "release")
  /\ UNCHANGED <<main, closed, released, writeFailed, idle, end, holds, sockVars, doneFd>>

CountDown(p) ==
  /\ PumpAt(p, "count")
  /\ activePumps' = activePumps - 1
  /\ PumpGo(p, IF activePumps = 1 THEN "release" ELSE "out")
  /\ UNCHANGED <<main, closed, released, writeFailed, idle, end, holds, sockVars, doneFd>>

\* release_tunnel drops the hold once, then both sockets are closed.
Release(p) ==
  /\ PumpAt(p, "release")
  /\ released' = TRUE /\ holds' = IF released THEN holds ELSE holds - 1
  /\ open' = {}
  /\ PumpGo(p, "wake")
  /\ UNCHANGED <<main, closed, writeFailed, idle, end, activePumps, cut, eof, doneFd>>

\* A slip: only the posted pump signals.
WakeOwn(p) ==
  /\ PumpAt(p, "wake")
  /\ doneFd' = IF doneFd = "closed" \/ p = "posted" THEN doneFd ELSE "signalled"
  /\ PumpGo(p, "out")
  /\ UNCHANGED <<main, stateVars, holds, sockVars>>

\* wake_pump: the descriptor may be gone by now, when tunnel() has seen that
\* activePumps is 0 and did not wait.
Wake(p) ==
  /\ PumpAt(p, "wake")
  /\ doneFd' = IF doneFd = "closed" THEN "closed" ELSE "signalled"
  /\ PumpGo(p, "out")
  /\ UNCHANGED <<main, stateVars, holds, sockVars>>

----------------------------------------------------------------------------
(* The end of tunnel().                                                    *)

LookAtPumps ==
  /\ main = "pumping" /\ PumpAt("own", "out")
  /\ main' = IF activePumps > 0 THEN "waiting" ELSE "leaving"
  /\ UNCHANGED <<pump, stateVars, holds, sockVars, doneFd>>

WaitDone ==
  /\ main = "waiting" /\ doneFd = "signalled"
  /\ main' = "leaving"
  /\ UNCHANGED <<pump, stateVars, holds, sockVars, doneFd>>

\* The read of the eventfd fails: both directions are shut down, and the
\* posted pump finds its own way out.
WaitFails ==
  /\ main = "waiting"
  /\ SetEnd("io") /\ CloseTunnel
  /\ main' = "leaving"
  /\ UNCHANGED <<pump, released, writeFailed, idle, activePumps, holds, open, eof, doneFd>>

\* The destructor of PumpWait; process() then closes the client's socket.
LeaveTunnel ==
  /\ main = "leaving"
  /\ main' = "left" /\ doneFd' = "closed" /\ open' = open \ {"client"}
  /\ UNCHANGED <<pump, stateVars, holds, cut, eof>>

----------------------------------------------------------------------------
PumpStep(p) ==
  \/ LoopEnds(p) \/ RecvEof(p) \/ RecvIdle(p) \/ RecvError(p) \/ RecvData(p)
  \/ SendOk(p) \/ SendFails(p)
  \/ HalfClose(p) \/ FatalClose(p) \/ CountDown(p) \/ Release(p) \/ Wake(p)
MainStep == AcquireFails \/ Acquire \/ HandshakeFails \/ Upgrade \/ AnswerFails \/ NoEventFd
              \/ StartPumps \/ LookAtPumps \/ WaitDone \/ LeaveTunnel

TunnelNext == (\E p \in Pumps : PumpStep(p)) \/ MainStep \/ WaitFails

\* Every coroutine is run again and again.
TunnelFairness == (\A p \in Pumps : WF_tunnelVars(PumpStep(p))) /\ WF_tunnelVars(MainStep)

TunnelSpec == TunnelInit /\ [][TunnelNext]_tunnelVars /\ TunnelFairness

----------------------------------------------------------------------------
(* Properties.                                                             *)

Moving(p) == pump[p].pc \in {"recv", "send", "half", "close"}
Through(p) == pump[p].pc \in {"off", "out"}

\* The endpoint counts the tunnel as one of its connections exactly once,
\* from the acquire for as long as a pump may still use it, on every way out
\* of the handshake and whichever pump ends last; no socket is closed by a
\* pump while the other one uses it, and none is left open.
HoldFollowsPumps ==
  /\ holds \in {0, 1}
  /\ (\E p \in Pumps : Moving(p)) => holds = 1 /\ "upstream" \in open
  /\ main = "left" /\ (\A p \in Pumps : Through(p)) => holds = 0 /\ "upstream" \notin open

\* A tunnel that was shut down, by a fatal error or by a failed wait, ends:
\* both pumps leave, and the request's coroutine is never left waiting for
\* a signal that has been given or never comes.
TunnelEnds == closed ~> (main = "left" /\ \A p \in Pumps : Through(p))
=============================================================================
