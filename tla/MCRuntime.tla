--------------------------------- MODULE MCRuntime ---------------------------------
(***************************************************************************)
(* The parts of the gateway that wait, in one run: Init chooses which of   *)
(* them the behaviour is about (focus); the others do not move, or their   *)
(* variables keep one value.                                               *)
(***************************************************************************)
EXTENDS FiberIo, Tunnel

CONSTANTS
  Socks, Clients, MaxConnections,              \* TcpListener
  Callers, Ids, MaxQueue, MaxTaken             \* Reporter

VARIABLES
  focus,
  isStop, draining, socks, closeTasks, acc, active, connections, shut, serve, drainer,
  timer, drainTimer, woken,
  accepting, running, started, stopAt, done, queue, seen, cooling, token, caller, sender,
  backoff, stopper, taken, reported, dropped

----------------------------------------------------------------------------
Listener == INSTANCE TcpListener
Report == INSTANCE Reporter WITH sent <- reported

serverVars == <<isStop, draining, socks, closeTasks, acc, active, connections, shut, serve,
                drainer, timer, drainTimer, woken>>
fiberVars == vars
reportVars == <<accepting, running, started, stopAt, done, queue, seen, cooling, token, caller,
                sender, backoff, stopper, taken, reported, dropped>>
allVars == <<focus, serverVars, tunnelVars, fiberVars, reportVars>>

\* The variables of a part that is not looked at.
ListenerParked ==
  /\ isStop = 0 /\ draining = 0 /\ socks = 0 /\ closeTasks = 0 /\ acc = 0 /\ active = 0
  /\ connections = 0 /\ shut = 0 /\ serve = 0 /\ drainer = 0 /\ timer = 0 /\ drainTimer = 0
  /\ woken = 0
ReportParked ==
  /\ accepting = 0 /\ running = 0 /\ started = 0 /\ stopAt = 0 /\ done = 0 /\ queue = 0
  /\ seen = 0 /\ cooling = 0 /\ token = 0 /\ caller = 0 /\ sender = 0 /\ backoff = 0
  /\ stopper = 0 /\ taken = 0 /\ reported = 0 /\ dropped = 0

RuntimeInit ==
  /\ focus \in {"listener", "tunnel", "fiber", "report"}
  /\ TunnelInit /\ Init
  /\ IF focus = "listener" THEN Listener!ListenerInit ELSE ListenerParked
  /\ IF focus = "report" THEN Report!Init ELSE ReportParked

ServerNext ==
  /\ focus = "listener" /\ Listener!ListenerNext
  /\ UNCHANGED <<focus, tunnelVars, fiberVars, reportVars>>
WsNext == focus = "tunnel" /\ TunnelNext /\ UNCHANGED <<focus, serverVars, fiberVars, reportVars>>
FiberNext == focus = "fiber" /\ Next /\ UNCHANGED <<focus, serverVars, tunnelVars, reportVars>>
ReportNext ==
  focus = "report" /\ Report!Next /\ UNCHANGED <<focus, serverVars, tunnelVars, fiberVars>>

RuntimeNext == ServerNext \/ WsNext \/ FiberNext \/ ReportNext

\* The fairness of the modules, for the part looked at.
RuntimeFairness ==
  /\ \A s \in Socks : WF_serverVars(focus = "listener" /\ Listener!AccLoop(s))
  /\ \A c \in Clients : WF_serverVars(focus = "listener" /\ Listener!ServeLoop(c))
  /\ WF_serverVars(focus = "listener" /\ Listener!closeListenSockets)
  /\ WF_serverVars(focus = "listener" /\ Listener!StopThread)
  /\ \A p \in Pumps : WF_tunnelVars(focus = "tunnel" /\ PumpStep(p))
  /\ WF_tunnelVars(focus = "tunnel" /\ MainStep)
  /\ \A t \in Threads : WF_fiberVars(focus = "fiber" /\ ~clash /\ Worker(t))
  /\ \A t \in Threads : SF_fiberVars(focus = "fiber" /\ ~clash /\ EpollEvent(t))
  /\ \A t \in Threads : SF_fiberVars(focus = "fiber" /\ ~clash /\ TimerExpires(t))
  /\ \A f \in Fibers :
       WF_fiberVars(focus = "fiber" /\ ~clash /\ (CloseAbort(f) \/ CloseFd(f)))
  /\ WF_reportVars(focus = "report" /\ Report!Loop)
  /\ WF_reportVars(focus = "report" /\ Report!StartLoop)
  /\ WF_reportVars(focus = "report" /\ Report!Stopping)
  /\ WF_reportVars(focus = "report" /\ Report!BackoffOver)
  /\ WF_reportVars(focus = "report" /\ Report!DeadlinePasses)

RuntimeSpec == RuntimeInit /\ [][RuntimeNext]_allVars /\ RuntimeFairness

----------------------------------------------------------------------------
(* The properties of the parts that are instances. Those of Tunnel and     *)
(* FiberIo are taken as they are: they hold where a part does not move.    *)

\* TcpListener: a drain empties the server and ends, whatever was going on.
DrainEnds ==
  focus = "listener" /\ draining ~> [](focus = "listener" /\ active = 0 /\ isStop)
\* Reporter: a stop ends the sender wherever it is.
ReporterStops ==
  focus = "report" /\ (stopper = "deadline" \/ (~accepting /\ Report!At("off")))
    ~> focus = "report" /\ Report!Ended
=============================================================================
