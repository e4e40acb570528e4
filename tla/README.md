# Verification of bx_gateway: policy plane, upstreams, connections and runtime

`bx_gateway` is an HTTP gateway on a coroutine framework (`bronx`), with a separate
*policy hub* that decides which addresses are banned and pushes its rules to every
gateway. This directory holds TLA+ models of that program, the TLC configurations that
check them on small instances, and TLAPS proofs for every size.

Line numbers refer to the commit under `src/`. `PROJECT.json` maps every definition to
the lines it models and lists components, hazards, findings and theorems.

## 1. Inventory

| component | state | operations | interacts with | hard behaviour |
|---|---|---|---|---|
| policy engine (`ipban/engine.cpp`, `judge.cpp`, `changelog.h`, `expiry.h`, `store.h`) | rules, version, epoch, change log, expiry heap, seen reports, persisted set, write queue, flush flag | `onRisk`, `setAdmin`, `remove`, `tickExpiry`, `flushPersistence`, `nextPush`, `restore` | database (offload), broadcaster (`fire`), sessions (`nextPush`) | callers race in the flush; partial batches, replays, crash between memory and disk; stale heap nodes |
| rule database (`ipban/db.cpp`) | tables rules, tombstones, meta | `save`, `del`, `load` | engine | out-of-order and repeated writes |
| hub session, registry, broadcaster (`ipban/session.cpp`) | session state, push and ping in flight, due flags | two loops, `wake`, `beginStop`, `forceStop`, `bind` | engine, gateway, daemon | wake against push, ACK against bookkeeping, drain against push, replacement |
| sync client and guard (`ipban/pull.cpp`, `guard.cpp`) | connection, client state, rules with epoch and version | `session`, `applyRemote`, `applyDelta`, `tickExpiry` | hub session | restarts, lost links, own clock |
| hub daemon (`ipban/daemon.cpp`, `api_gw/hub.cpp`) | flags, user count, edit mutex, registry, listeners, timer | `start`, accept loops, `serve*`, `beginStop`, `forceStop`, `finishStop` | engine, sessions, reactor | stop in any order, mutex held across a suspension |
| risk reporter (`ipban/report.cpp`) | bounded queue, cool-down, connection, flags | `tryReport`, `loop`, `waitBackoff`, `stop` | hub, reactor | a full queue when a report comes back, stop against sleep, back-off, send and start |
| protocol, codecs (`ipban/proto.cpp`, `wire.cpp`) | none | frames, JSON | all of the above | truncated frames |
| IP matching (`ipban/ip.cpp`, `snap.h`, `banmw.cpp`) | compiled snapshot | `eval` | guard | replaced while read |
| framework core (`bronx/core`) | fibers, task queue, epoll contexts, timers, CPU pool | `run`, `do_io`, `armEvent`, `abortAll`, timers, `offload`, `stop` | everything | two threads on one coroutine, time-out against data, close against waiters, stop |
| network (`bronx/net`) | listener, its connections, count, drain timer | accept, `serveConnection`, `drain`, `waitDrain`, `stop` | reactor, connections | drain against accept, the last connection against the timer |
| environment (`bronx/env`) | buffers per thread, ring, writer, heartbeat | `push`, `flushAll`, `shutdown`, exit of a thread | everything | a producer on its way when shutdown begins, a full ring |
| upstreams (`gateway/upstream.cpp`, `ups_group.cpp`, `conn_pool.cpp`, `ronduan.cpp`) | health, breaker, in-flight counters, pooled connections | pick, release, probe, trip | request path | half-open probes, leaks, retries |
| configuration and routing (`gateway/conf.cpp`, `gateway.cpp`, `router.cpp`) | snapshot | load, validate, swap | request path | reload while requests run |
| request path (`gateway/conn.cpp`, `body.cpp`, `http_parse.cpp`, `mw.cpp`, middlewares) | connection, body reader, tunnel, buckets | `process`, `readChunk`, `reply`, `tunnel` | upstreams, guard, listener | pipelined requests, broken bodies, keep-alive, two pumps that end |
| generated parsers (`gateway/include/gw_parser`) | state, marks | `http_parser_execute`, `httpclient_parser_execute` | request path | marks set and used hundreds of states apart |

What makes each modelled component correct:

* engine: what was answered durable survives a crash; the queue and the database
  together hold what memory wants kept; nothing waits in the queue unwatched; every
  version is announced; every timed rule is tracked, and only due rules are swept;
* synchronisation: a gateway's copy is always a rule set the hub really had; no change is
  lost; what the hub counts as acknowledged was applied; the copies converge;
* daemon: the database is closed once, after the last edit; "stopped" means nobody is
  left; a stop completes;
* upstreams: half-open slots, holds and connections are given back exactly once on every
  way out; late results decide nothing; no unread answer waits on a pooled connection; a
  breaker lets nothing through before its pause ends and is tried again after it;
* connections: the next request is read where the last one ended; every request gets one
  answer, in order; the head's lines bound its body in one way, in any order; the parsers
  split a head without gap or overlap;
* listener: the count is the number of connections; a drain empties the server and ends;
* tunnel: the endpoint is held while, and only while, a pump may use it; it ends for all;
* runtime: a waiting coroutine is woken once, for the reason it is told, and data for it
  is read;
* reporter and logger: a report, a record, is in one place until it is sent, written or
  counted as dropped; a stop ends the sender; shutdown leaves no record unwritten.

## 2. Modules

| module | models | composes |
|---|---|---|
| `RuleHub` | what the hub promises to subscribers: rules, one version per change, a window of changes, a fresh epoch per start | |
| `PolicyEngine` | engine, judge, expiry, change log, database, crash and restore | implements `RuleHub` (`Hub == INSTANCE RuleHub WITH rules <- store`) |
| `RuleSync` | session, registry, broadcaster, sync client, guard and the stream between them | extends `RuleHub` as its hub |
| `HubDaemon` | the daemon's life on a fixed number of reactor threads | |
| `CircuitBreaker` | the breaker's operations on its state, with the ring of buckets | |
| `BreakerPromise` | what a breaker promises: pause, probes, who decides | |
| `UpstreamGroup` | requests through acquire, exchange and release; pool; health checks | extends `CircuitBreaker`, implements `BreakerPromise` per endpoint |
| `RequestParser`, `ResponseParser` | the two generated automata, their actions and callbacks | |
| `HeadScan` | the scan of a head, byte by byte | both parsers |
| `HttpHead` | framing and connection options from header lines | |
| `HttpFraming` | header lines in any order and number | extends `HttpHead` |
| `HttpConn` | a client's connection: heads, bodies, answers, keep-alive | extends `HttpHead` |
| `TcpListener` | accept loops, served connections, drain, stop | |
| `Tunnel` | the WebSocket tunnel: handshake, two pumps, release | |
| `FiberIo` | workers, coroutines in `do_io`, reactor, timer of a read, close, stop | |
| `Reporter` | queue, sender and stop of the risk reporter | |
| `AsyncLogger` | producers, ring, writer, heartbeat, shutdown of the logger | |
| `PolicyEngineProofs` | theorems about calls, flush, sweep, cool-down, database and promise to subscribers | `PolicyEngine` |
| `RuleSyncProofs` | theorems about deltas, copies, acknowledgements and sessions | `RuleSync` |
| `HubDaemonProofs` | theorems about `HubDaemon` | `HubDaemon` |
| `UpstreamGroupProofs` | theorems about counts, pool, breakers and their window | `UpstreamGroup` |
| `HttpProofs` | theorems about framing and about a client's connection | `HttpFraming`, `HttpConn` |
| `GatewayProofs` | theorems about the count of connections and the account of reports | `TcpListener`, `Reporter` |
| `AsyncLoggerProofs` | theorem about the records of the logger | `AsyncLogger` |
| `RuntimeProofs` | theorems about tunnel and coroutines | `FiberIo`, `Tunnel` |
| `MC*` | instances for TLC: sources of ids, rules, symmetry | |
| `MCSyncParts` | `RuleSync` under three bounds, of which Init chooses one | `MCRuleSync` |
| `MCUpstreamGroup` | `UpstreamGroup` in three parts, of which Init chooses one | `UpstreamGroup` |
| `MCGateway` | the safety of connection, parsers, framing, listener, reporter, logger | extends `TcpListener`, `Reporter`, `HttpConn`, `HttpFraming`, `AsyncLogger`; instance of `HeadScan` |
| `MCRuntime` | what must happen in listener, tunnel, runtime, reporter | extends `FiberIo`, `Tunnel`; instances of the others |

`MCGateway` and `MCRuntime` hold several components that do not share state: Init chooses
one (`focus`), and only that one moves. One run then is the union of the runs of its parts.
Each of the two extends the components with theorems, so that its runs check the very definitions
that the proof modules prove and evaluate their assumptions; these components stay in their
initial states when they do not move. The others are instances, whose variables are 0 when they
do not move.

Definitions written directly above an operator under a comment "Mutant" or "A slip" are faulty
versions of it; they show that a property notices the fault, and are used nowhere else.

### PolicyEngine

State follows the fields of the class. `onRisk`, `setAdmin` and `tickExpiry` read the clock
before they take `m_mtx` (`ReadClock`, `SweepRead`); `at` is what a caller has read, so a call may
come to the mutex with an older time than one that overtook it. One action is then one section
under `m_mtx` (edits), one node of `tickExpiry`'s loop (the mutex stays held in `mtx`), or one step of
`flushPersistence`: the compare-exchange (`FlushEnter`), the copy of a batch
(`FlushTake`), one SQLite transaction on the pool thread (`FlushWrite`), the end of a
batch (`FlushDone`, `FlushFail`), the release of the flag (`FlushRelease`) and the second
look (`FlushRecheck`). `FlushFail` covers a transaction that fails (what was done is
popped) and an exception out of `offload` (nothing is popped, whatever was applied).
`Crash` drops the memory at any point; `Restore` is the constructor plus `restore`, with
`load` deleting rows that expired meanwhile.

Abstractions: a rule keeps action, reason, expiry and version (the source is that of its
id, the address is part of the id, `createdAtMs` is the time of the edit). The heap is
a set, since a node is determined by id and version. The clock itself does not go back; the
wall clock of the code may be set back, which for `seenLocked` looks like a report that was
overtaken. (The daemon calls `onRisk` with `m_editMtx` in hand, `daemon.cpp:286`, so behind
it only such a clock gives an older time; the engine itself does not ask for that.) Some keys then have
two nodes in `m_seenOrder`: a report with an older time counts as fresh, sets the record back and
queues another node. `CoolingRemembered` says what remains true. The engine without a database and the statistics are left out.
`promise` is a ghost: per id, what the last edit answered durable left.

### RuleSync

`sess` is the class `Session`; `send` and `recv` say where its two loops are. A step is a
section under the session's mutex, with the send that follows it, or the call of
`nextPush` (which is under the engine's mutex only). Where the code lets go of the mutex and
another loop may come in between, the steps are apart: `beginStop` sets CLOSING (`Stop`)
and closes the socket later (`CloseNow`), so does `failProto` (`RecvFails`, `RecvClose`); the second
section of `sendCurrent` sets SYNC (`SendMark`) and the send follows (`SendEmit`); a session that
replaces others lists them (`RecvReplace`), stops them one by one and goes on (`RecvReplaced`).
`due` is who has listed a session in order to stop it, `shut` who has set it CLOSING and has not
closed its socket yet. `token` is the eventfd of `Waker`.
`toGw` and `toHub` are the two directions of the stream: in order, nothing lost but at
the end of a connection. A deadline that has not started (`due = UINT64_MAX`) cannot
expire; any other may, at any time. The hub's edits are those of `RuleHub`; `hist` is a
ghost that remembers the rules at every version of every epoch. The epoch, drawn at
random by the code, is a number that no restart repeats.

`SendMark` sets SYNC over whatever the state is (`session.cpp:228`), also over CLOSING. So
`OneServing` cannot go by the state alone: a session that is being replaced may say SYNC and
even send one more push while its successor serves. What holds, and is proved, is that all but
one of the sessions of a gateway have an error to report, a closed socket or somebody who is
about to close it.

`Leaked` is what the overwriting can leave behind: if the push of `:230` goes out before the socket
is closed, and the receiving loop has ended, the sending loop waits in SYNC for an answer that
nobody will read. A change or a drain wakes it, but it goes back to sleep with its push in flight. The
session stays in the registry and in `m_active` until a newer session of the gateway stops it
or `forceStop` does. The model uses its name again (`Dial`); `HubDaemon`
has its consequence for a stop (`SessionLeaks`).

Observation: in all runs a refused push and `SNAP_REQ` never occur. Within one
connection the hub's bookkeeping is exact, so that path is a defence only.

### HubDaemon

Three accept loops, one coroutine per request connection, one per session, callbacks of
the expiry timer and the thread that runs `Daemon::stop`. `CanRun` says that a reactor
thread is free: a coroutine waiting for a `std::mutex` keeps its thread, one suspended in
`offload` does not, but needs one to go on. A session is one coroutine here; RuleSync
has its inside. The stopping thread is not a reactor thread (`hub.cpp:83`).
There is an accept loop for the administration socket if `Admins` is not empty.

A coroutine that finds nothing to accept or to read arms its socket and sleeps (`Arms`); a peer
rouses it (`Roused`). These sockets have no time-out. `BxSocket::close` is two steps, the abort,
which wakes what is armed (`Aborted`, in `Shut` and `ForceStop`), and the close of the descriptor (`cut`, in
`CloseListeners` and `ForceAll`), and a coroutine that arms in between is never woken. So
`StopCompletes` is `stopping ~> stopped \/ Stranded`, where `Stranded` names that coroutine, and a
session that leaked even from `forceStop`; without either exception TLC finds a
counterexample. `StopAll` lets any of the sessions drain, since only RuleSync knows their
states. An answer to an administrator is assumed to fit into the socket's buffer. The sockets that one
stop closes are aborted together and then closed together.

A note that no property covers: `m_editMtx` may be unlocked by another thread than the
one that locked it, when the coroutine is resumed elsewhere; for `std::mutex` that is
undefined, and the models take it for a plain release.

### CircuitBreaker and UpstreamGroup

`CircuitBreaker` has one operator per method, on a record of the fields of the class; all
methods run under the breaker's mutex. `UpstreamGroup` lets request coroutines run through
`UpstreamGroup::tryAcquire`, `Upstream::forward` and `UpstreamGroup::release`, one step per
shared object touched: the flag `healthy`, the hold (`TryHold`, `DropHold`), the breaker
(`Scan`, `IsAllowed`, `ReadState`, `Record`), the pool (`Acquire`, `Back`) and the socket
(`Connect`, `Send`, `Answer`, `BodyEnd` and the ways to fail). `req[r]` is the `AcqConn` plus
the place in the code. A health check round is one step per atomic, and rounds overlap: the
timer is recurring and does not wait for a round to end (`conf.cpp:606-619`).

Abstractions: time is counted in buckets of the window, so their width is 1 and the three
ways the code reads the steady clock agree; `Keep` may exceed `Buckets`, as rounding in
`snapLocked` allows. The balancer may choose any candidate. Deadlines may pass, sockets
may fail and look unusable at any moment; a request may be one that `can_retry` refuses,
since it may fail where it could retry. A connection is a name, used again once closed.
Health counters stop at their thresholds, beyond which the code does not tell them apart.
`owed` (connections on which no other request may follow, since an answer is not read to its
end, bytes are left over or the endpoint closes) and `log` (results per tick) are
ghosts. `BodyEnd` takes any values of the three conditions of `upstream.cpp:673-675`. `recordSuccess` and `recordFailure`, which record without a turn and which only
tests call, are left out, as are the statistics.

`tryAcquire` goes on to another endpoint in the model too, but both runs have one endpoint:
breaker, pool and holds belong to an endpoint and endpoints share nothing but the request.

### RequestParser, ResponseParser and HeadScan

The automata are those of the generated C++, not of the grammar's comments: a state is a part,
a name and a number where the generated code has one number for each, an edge lists the
actions of the generated transition and the next state. Bytes are classes that no state
tells apart (`P` and `p` are two, since the version of an answer takes the capital only). The Json* and Te*, Cl* definitions are copies of a piece of the automaton that the
generator made again for another context; they say so by calling the first copy. `HeadScan`
feeds a plan to a machine: given bytes, some free ones, and an end.
A number read by `strtol` is represented by the place it is read from.

`HeadSplit` compares the callbacks with a reading of the text that knows nothing of the
automaton: method up to the first blank, target up to the next, path, query and fragment at the
first `?` and `#`, header lines one behind the other, name before the colon, value after blanks.

### HttpHead, HttpFraming and HttpConn

`HttpHead` has `onHttpField` of both parsers on lines whose values are sequences of trimmed,
lower-case parts; the parser after n lines is a recursive function (`ReqAfter`, `RespAfter`).
`OneFraming` compares the outcome with a definition on the *set* of lines, so order cannot matter.

In `HttpConn` the client's bytes are tokens that know their request, the place in it where they
stand (`at`) and how much data is left there (`left`); `ConnAssumption` says that this is so of
every script, and TLC evaluates it on the scripts of `MCGateway`. What a client sends may be
well formed or not: a token that the body does not call for stands at "junk". A step runs up to
the next recv, send or call of the handler. The handler may read the body or not, answer early or late or
not at all, and fail in the middle of a stream. `BodyReader` is modelled by its stages
(`ReadClen`, `ReadSize`, `ReadData`, `ReadCrlf`, `ReadTrailer`) with every place where it
sets an error, and whether it sets `m_finished` with it. `drain` may close the socket at
any time. Time-outs are failures of a fill (`FillFailed`, `HeadFails`). A head that could not be parsed is answered with
keep-alive and then closed, since `sendError` has no request to ask (`conn.cpp:224`, `:287`); one
whose framing is refused, or that is too large, with close. Left out: 100-continue,
HEAD and the sizes of heads.

### TcpListener

The accept loops, one coroutine per connection and the stopping thread, a step per shared
object. `onConnection` is reduced to what a drain meets: a look at `isDraining` before each
request, and otherwise a wait for a client that may stay silent. Neither the drain timer nor the
time-out of `waitDrain` is fair: `DrainEnds` shows that the first round of closes suffices. It
depends on a detail: `notify_all` comes without `drainMutex_`, and only the mutex that
the last connection takes for the timer just before keeps it from being missed.

### Tunnel

`tunnel()`, its two pumps and the eventfd it waits on, with every early return of the
handshake. Payloads are left out; a receive yields data, an end, a time-out or an error.

### FiberIo

Worker threads scan one list and resume what is not ACTIVE; `yield` is two steps, the mark
(`YieldMark`) and the save of the context (`YieldSwap`). `do_io` is one step per system call,
arm and yield; the abort counter read at its start and at its end tells it why it was woken.
`stopped()` looks three times: at the tasks (`LookIdle`), at the armed events (`LookPending`) and at
the timers (`LookTimers`).
A resume from a context that was not saved is the end of the modelled behaviour (`clash`):
what follows is undefined. `fiber_race` shows that it can happen, and the other properties
are about behaviours in which it has not. The pipe that wakes epoll early is left out, since
`epoll_wait` returns after 5 s anyway; so are write events, `connect` and timers not of a read.

### Reporter and AsyncLogger

`Reporter`: callers, the sender's coroutine and `stop`. What is under `m_mtx` is a step and
every write of an atomic is one. `taken`, `sent` and `dropped` count per id and stand for the
metrics. `ReporterStops` leaves out one case, described below, by its left side.

`AsyncLogger`: each access to an atomic is a step; the ring is a sequence in which a cell may be
claimed and not yet published. A FATAL record is a flush and then a direct write. The free
list of buffers and the condition variables, all waited on with a time-out, are left out.
`written` is the output, a sequence, so that a record written twice would be seen. `Places` is
where a record is, every position of every buffer that holds it; `RecordsKept` says that there is
exactly one. `Missed` names what shutdown may leave: buffers in the hand or in a cell of a
thread that exits or flushes, which `inflight_` does not count, and what is behind such a cell in
the ring, since the writer pops in order and stops at a cell that is not published. The last case
needs a ring of two cells; an attempt to prove the property without it failed there.

## 3. Runs

| run | checks | bounds |
|---|---|---|
| `engine_threads` | `DbCatchesUp`, `DurableEditSurvives`, `QueueIsWatched`, `ChangesAnnounced`, `QueueDrains`, `DueRulesLeave` | 2 callers, 1 id, 2 versions, one failing write, one crash, batches of 2 |
| `engine_time` | `TimedRulesTracked`, `SweepRemovesOnlyDue`, `CoolingRemembered`, `ImplementsHub` | 2 callers, clock 0..2, expiry clamped at 4, reports of 1 and 2 ticks where those of 2 are kept, 3 report keys with room for 2 and a cool-down of 2, 2 versions, one crash, change log of 1 |
| `sync` | `NotTorn`, `AckedIsApplied`, `SessionSound`, `DeltaRebuilds` | part "edits": 1 connection at a time, 2 ids, versions 0..2, change log of 1, 2 epochs, one fault; part "drain": 1 edit and a stop of the hub; part "relink": 2 connections, 1 ping, one fault, no edits |
| `sync_live` | `Converges` | parts "edits" and "drain" with 1 connection, 1 id with an expiry time, 2 versions, 2 epochs, one fault |
| `daemon` | `NoEditAfterClose`, `ClosedOnce`, `StoppedIsQuiet`, `StopCompletes` | 1 submitter, 1 callback, 1 session, 2 threads |
| `daemon_lock` | `WrittenEditEnds` is violated | 2 submitters, 1 callback, 2 threads |
| `upstream` | `CountsExact`, `ProbeIsFresh`, `PoolSound`, `BreakerSound`, `KeepsPromise`, `NotJammed`, `HealthFollows` | 1 endpoint with 2 in flight, 3 calls; part "exchange": 2 requests at a time, 2 connections, pool of 1, clock 1..3, pause 2 up to 3, ring of 2 buckets under a window of 3, 2 probes; part "choice": 3 requests up to the hold; part "checks": 2 overlapping rounds beside a request, the endpoint fails or comes back once |
| `gateway` | `BoundaryKept`, `AnswersInOrder`, `HeadSplit`, `OneFraming`, `ConnectionsCounted`, `ReportsAccounted`, `RecordsKept` | 2 or 3 pipelined requests, bodies up to 3 units, 2 requests per connection; 3 to 6 free bytes in 7 plans; 3 of 11 header lines; 2 accept loops, 2 clients, limit 1; 2 callers, 2 ids, queue of 1; 2 producers, 3 records, buffers of 2, ring of 2 |
| `runtime` | `HoldFollowsPumps`, `WokenOnce`, `TimeoutIsReal`, `DrainEnds`, `TunnelEnds`, `DataIsRead`, `ReporterStops` | 1 accept loop, 2 clients, limit 1; 2 threads, 2 coroutines, one with a time-out and one whose socket is closed, 1 message each; 1 caller, 1 id |
| `conn_boundary` | `HeadsAtBoundary` is violated | as `gateway` |
| `fiber_race` | `OneRunner` is violated | as `runtime` |
| `fatal_barrier` | `FatalBarrier` is violated | 1 producer, 2 records, the second of them FATAL, ring of 2 |

Why the bounds are enough to be interesting. Two callers suffice for every race in the
flush, which is between the holder of the flag and one other; two or three versions let an
id be set and removed, or set again, around a crash, with the version counter falling back
and used again; a log of one entry overflows; with two keys of room, the third report
evicts; with two callers one report overtakes another, and a clock of three ticks outlasts the
cool-down. A ban of one tick that follows one of two ends later and is not kept, so the branch in
which a renewal takes a rule out of the database is reached. Two connections of one gateway race in `bind`. `SYMMETRY` is used for safety runs
only, over sets whose members the model does not tell apart. `MaxVer`, `MaxNow`,
`MaxFail`, `MaxCrash`, `MaxEpoch`, `MaxFault`, `MaxPing`, `MaxCalls` and `MaxFlip` are the
named bounds; the theorems hold for all values. `engine_threads`, `daemon` and `upstream` check
safety and liveness on one instance of moderate size: their safety properties are theorems. In
`upstream` one failure makes the breaker trip by its rate, a second request, let through
before, is the late one, and the third call is the probe; a probe that fails doubles the pause
beyond its maximum; the results of the first and of the third tick share a bucket. A third
request at a time would be refused by the hold, which the part "choice" is for. The name of a
connection that is closed is used again; two names are enough, since a request that finds none
waits for one or fails.
In `gateway` a body of four units exceeds the limit of three at the first and at the second
chunk, a third request exceeds the limit of two, the second connection the limit of one with two
accept loops racing for it, the second report meets a full queue, and the third buffer
a full ring, whose second cell may be published before the first. Three lines are what two that
contradict each other and one around them need.
Five free bytes reach each pair of delimiters of a target. `MaxLines`, `MaxTaken`, `MaxLogs`,
`MaxData` and the `free` of a plan are bounds of the models; `MaxBody`, `MaxRequests`,
`MaxTrailers`, `MaxConnections`, `MaxQueue`, `Capacity` and `RingSize` are options of the code.

`SessionSound`, `CountsExact`, `PoolSound` and `BreakerSound` are conjunctions of named parts
about one object each: `NoLostWake`, `OnePushInFlight` and `OneServing` of a session,
`ProbesCounted` and `HoldsCounted`, `ConnExclusive` and `IdleIsClean`, `ClosedIsReset`,
`RingSound` and `WindowSound`.

Deadlock is checked in the engine's runs. In the others it is not an error: a gateway
that has no faults left to suffer, a daemon that has stopped, a connection that was closed or
a head that was scanned are done.

### Fairness

* `PolicyEngine.FairSpec`: calls go on, the timer's tick comes back (`addTimer` with
  `recurring`, `daemon.cpp:143`; strong fairness, since it takes whichever caller is free),
  a dead process is started again. Edits, failures and
  crashes are not fair.
* `RuleSync.FairSyncSpec`: the reactor runs ready coroutines, `fire` follows an edit, the
  client dials again after its back-off, a stop of a session that was begun goes on, a drain
  that takes too long is forced (`Daemon::stop`), a stopped hub is started again.
* `UpstreamGroup.FairSpec`, which `MCUpstreamGroup` takes over for its parts: requests and check rounds go on, the timer of the checks comes
  back and time passes. Up to the head of the answer reads, writes and connects have time-outs. The
  steps of a request that reads a body are not fair (`Prompt`): after the head only each single
  read is bounded (`upstream.cpp:546`). `NotJammed` therefore has an exception for a
  half-open breaker all of whose probes read bodies for ever (`Trickling`), and without it
  TLC finds the counterexample.
* `TcpListener.ListenerFairness`: the loops and the stopping thread run on. Clients owe nothing, the
  timer and the end of the wait are not counted on.
* `Tunnel.TunnelFairness`: the pumps and the request's coroutine run on; a read of a socket that
  was shut down returns. Peers owe nothing.
* `FiberIo.Fairness`: workers run on; an event that is ready again and again is reported and a
  timer in the heap is collected (strong fairness, since a worker serves one at a time);
  a close that was begun is finished.
* `Reporter.Fairness`: the coroutine is run, a stop that was begun goes on, timers fire and the
  deadline passes. Connects and sends may fail for ever.
* `HubDaemon.FairSpec`: strong fairness of coroutines and of the stopping thread, since a
  thread waiting for a mutex that is released again and again gets it. Nobody is
  obliged to send, to close or to stop, and what was armed wakes only by what the code does.

### Findings

1. **`daemon_lock`**: `m_editMtx` is held across `offload`. Two editors blocked in the lock
   occupy both reactor threads, and the holder, whose write is done, is never resumed.
   The README of the program (line 496) says the offload is there to avoid just that.
   With a thread for each possible editor `daemon` shows that a stop completes.
2. **`conn_boundary`**: `BodyReader` sets `m_finished` together with an error, and
   `drain_req_body` takes a finished reader for a drained one. If the handler has answered by
   itself (400 or 413, `proxy.cpp:63`, `:65`), `process` does not look at the error any more and
   keeps the connection: what is left of the body is read as the next head. `BoundaryKept`
   shows that every body read without error ends where the next request begins.
3. **`fiber_race`**: `yield` sets SUSPENDED before `swapcontext` has saved the context. The check
   for ACTIVE in the run loop, which its comment (`exec.cpp:145`) says prevents two threads from
   resuming one coroutine, does not cover the interval between the two.
4. **`fatal_barrier`**: the flush before a FATAL record waits until as many buffers were written as
   were enqueued when it looked. A buffer that the heartbeat has swapped out and not yet enqueued
   is not among them (`async_logger.cpp:243`): the flush returns and the FATAL record is written
   before records that the same thread logged earlier, which `log.cpp:97` and the test
   `fatal_barrier_async_log.cpp:9` say cannot happen.

### Observations

Behaviours met while modelling that no run states:

* engine: a short report that ends later than a kept ban replaces it and, being too short to
  be kept, removes the row: a restart forgets the ban (`engine.cpp:63`).
* session: a change while a session waits for HELLO makes it push before READY
  (`session.cpp:79`); the client drops the connection and dials again. The second section of
  `sendCurrent` overwrites DRAIN by SYNC (`session.cpp:228`). It overwrites CLOSING too: a session
  that is replaced, or has an error to report, may look like SYNC and send once more; so can two
  sessions of one gateway. If its receiving loop has ended and that send succeeds, the sending
  loop waits for an answer for ever: the session and its count in `m_active` leak (`Leaked` above).
* close: `BxSocket::close` aborts what is armed, then closes (`net_socket.cpp:382-385`). A
  coroutine that arms its read between the two waits for ever if it has no time-out. In the
  daemon that keeps a stop from completing (`Stranded` in `StopCompletes`). `DataIsRead` asks
  nothing of a socket that was closed.
* runtime: a read whose timer fired may return ECANCELED instead of ETIMEDOUT, since the mark
  comes after the abort that wakes it (`io_hook.cpp:149-150`).
* listener: `drain` closes all connections at once (`tcp_listener.cpp:138-142`), also those in the
  middle of a request, where the program's README has them finish. A connection accepted
  before the drain may register after `waitDrain` has returned. With several accept
  loops the limit can be exceeded by one connection per further loop (`ConnectionsCounted` has
  the exact bound).
* tunnel: the last pump counts down before it writes to the eventfd (`ws.cpp:320-325`); the request's
  coroutine, which looks at the counter first, may have closed it by then.
* reporter: `stop` clears `m_accepting` before it stores `m_stopAt` (`report.cpp:88-89`). A sender
  that looks in between takes the stop for due and drops the queue at once, where
  `test_ipban_report.cpp:114` expects it to be sent within the deadline. `stop` reads
  `m_started` before it clears `m_accepting`: a `start` in between leaves a sender that nobody
  wakes, which is the case `ReporterStops` excludes. A new report ends a back-off early.
* logger: buffers are counted after they are enqueued (`async_logger.cpp:160`), so for the
  flush before a FATAL record (finding 4) one that is written before it is counted also makes up
  for one that is not written. A thread that exits and a FATAL flush are not counted in
  `inflight_`; what they carry may miss the last drain of shutdown (`Missed`). The heartbeat may
  overtake a full buffer of the same thread.
* parsers: Ragel reads `6( h16 ":" )` as the byte 6 followed by a group, and `"0"-"4"` as a
  difference of sets, so IP literals in brackets are not the ones of the RFC.
  `httpclient_parser_is_finished` compares with the first of four final states; `Transfer-Encoding`
  with an empty line before `chunked` calls back with the previous name's length; an empty reason
  phrase is handed over with its CR.
* connection: `sendError` before a request was read announces keep-alive and closes. A later
  `Connection: keep-alive` line overrides an earlier `close`.

* synchronisation: with two connections of one gateway `Converges` fails under
  weak fairness. Each connection can be held between `bind` and the stop of the older ones
  until the next has been dialled and bound, and then each stops its predecessor, for ever.
  It needs a delay of a whole back-off every time; `sync_live` therefore has one connection
  at a time, and the part "relink" of `sync` checks the safety of two.

## 4. Proofs

`HubDaemonProofs` proves, for any sets of connections and callbacks and any number of
threads (`DaemonAssumption`: the sets are finite and disjoint), `TypeOK`,
`NoEditAfterClose`, `ClosedOnce` and `StoppedIsQuiet`. None is inductive alone. The
invariant `DaemonInv` adds: where each kind of coroutine can be (`Places`), that the
connection an accept loop holds is not served yet (`Serves`), who holds the mutexes
(`Locks`), the order of a stop (`Order`), who is registered (`Registered`), and that
`m_active` is the cardinality of the set of users (`Count`). The core of the argument:
whoever comes to `finishStop` saw the count at zero; from zero it cannot rise, because
only an accept loop, itself a user, takes new ones; and the uncounted expiry callback
cannot be editing, because `beginStop` cleared `m_running` with `m_editMtx` in hand.


`PolicyEngineProofs` proves, for any sets of callers, ids and reports and any value of the
numeric constants (`EngineAssumption`, `NoRuleAssumption`), `TypeOK`, then four layers:

* calls (`CallInv`): `m_flushing` is up exactly while one caller is between its
  compare-exchange and its release (`Holder`); with it `QueueIsWatched` is inductive, since
  the loser of the flag leaves the queue to that caller. `ChangesAnnounced` follows from
  `Announcing`: an unannounced version has a caller whose continuation is to fire;
* sweep (`SweepInv`): a popped node is due at the sweep's own clock (`Sweeping`), so the node
  of a living rule is never dropped (`TimedRulesTracked`) and only due rules are removed
  (`SweepRemovesOnlyDue`);
* cool-down (`SeenBounded`): every key of `m_seen` has its node in `m_seenOrder`, with its time, and
  the memory is not above its limit. A node is popped when it is expired at the caller's clock,
  which is not ahead of the real one, so its key is not cooling, or when the memory is full; and a
  stale node does not match the record. The record of a cooling key thus changes only when its own
  report comes with an earlier time, which is `CoolingRemembered`. A key may have several nodes, so the
  bound counts keys, not nodes.

The fourth is the database. The batch of the writer is a prefix of the
queue (`Prefix`); versions order the queue, the tables and `lastVer` (`Versions`). The idea
is `Reflected`: whatever is still queued with a version not above `lastVer` is already in the
tables, or something later is, so writing it again changes no rule (`Applied`,
`WriteEffect` - the guard by version and tombstone of `db.cpp`). Then the last operation
queued on an id, or else the row, is what memory wants (`Kept`), which is `DbCatchesUp`.
`DurableEditSurvives` needs in addition that nothing is queued on an id with a promise
and that administrators' rules are always persisted (`Promised`). `HubImplemented` is
the refinement: every step of the engine is a step of `RuleHub` or leaves its variables
alone, a restart because no row has a version above `lastVer`.
The steps of the engine fall into few kinds as far as the tables are concerned (`DbStep`),
which keeps the later lemmas short. All parts of the invariants were model-checked first.

`RuleSyncProofs` proves, for any number of ids, rules, versions, epochs, connections, faults and
pings and any size of the change log (`HubAssumption`, `SyncAssumption`: `LogCap` and `MaxEpoch`
are positive, `NoRule` is no rule, versions are numbers), all four properties of the run `sync`.

* `DeltasRebuild`. The invariant says that the log is a window: its entries have the versions just
  before the current one, one each, the last entry of an id agrees with the rules, and an id
  without an entry since version v has the rule it had at v (`LogSound`). It survives the overflow,
  since the entry that is dropped is the oldest, and a restart, since the log is empty then.
* `CopiesAreNotTorn`. Every push that a session holds, that is on the way or that was applied is
  one of a version the hub has had, and a delta leads from the rules of its start to those of its
  end (`BaseInv`). The link to the log is `NextPushIs`; the rest is that no step takes a version
  out of history. A delta is applied only at its start (`TakenSound`).
* `AcksAreApplied`. An acknowledgement is older than the state it speaks of: it travels. So
  `AckSound` follows it: an ACK on the way is of the link's epoch and of a version the gateway has,
  a READY on the way is of the hub's epoch, and until the hello is handled the gateway's copy is
  what the hello says.
* `SessionsAreSound`. Three invariants. `FlightSound`: of one push and its answer at most one is on
  the way, and none while the session waits for none. `ServeSound`: of two sessions that have
  listed their elders one is on the list of the other, who is not in its loop before it has gone
  through that list, or is `Doomed`: it has an error to report, a closed socket or somebody about to close
  it. No step takes that back, not even one that sets SYNC over CLOSING; the state alone is not
  inductive. A session that is CLOSING is doomed, or its receiving loop is about to end (`Guarded`),
  and a step takes nobody off a list but to doom him (`Turns`). `WakeSound` is about a session that
  nothing stops (`Lively`): what was announced is accounted for at every point between the sections of
  `sendCurrent`: it was sent (`UpTo`), is due with the token set (`Nudged`), is in the push in hand
  (`Pushing`), is noted as dirty behind the one in flight (`Pending`), or will be compared with the
  target after READY (`Idle`, `Unbound`); or the link is `Spoiled`, a push having overtaken READY, and the
  client is about to drop it. That an error has woken its reporter, and that only a stop of
  the daemon drains, is `Alert`.

The actions are reduced once to kinds of steps, each by what it does to one session (`Kinds`), and
these to what a single connection sees (`Views`); the invariants, about one connection each, are
then shown view by view. `MaxFault`, `MaxPing`, `MaxVer` and `MaxEpoch` bound the model; the
theorems hold for every bound.

`UpstreamGroupProofs` proves `CountsExact`, `ProbeIsFresh`, `PoolSound`, `BreakerSound`
and the refinement `KeepsPromise`: every breaker implements `BreakerPromise`. They hold for any
requests, endpoints, connections and options (`GroupAssumption`, `BreakerAssumption`: thresholds
positive, rates per cent, the first pause not above the largest; `conf.cpp:169-192` clamps them
so; the clock has at least the tick it starts at).
`GroupInv` adds what a request has in hand at each point (`Places`), that no request is ahead
of its breaker's turn (`Turns`), that a request was sent to the pool in a turn that is not a
half-open one (`SentFresh`), and the owner of each connection (`Owners`). For the refinement
each operation of the breaker is a step of the promise, or a stutter: a late result of an older
turn changes nothing the promise sees. The ring of the window has an invariant on top (`RingInv`):
a bucket in use has a tick of its own place, and counts it as long as the window covers it; every
tick of the last round with a result has its bucket. A result goes to the bucket of the present
tick, which no other tick of the last round shares (`TicksApart`, arithmetic of `%` for a ring
of any length). `WindowSound`, a part of `BreakerSound`, is about the sums that `snapLocked` makes
of the ring. A sum over a set is a recursive function in the library; `SumExists` shows that its
definition has a solution for a finite set, `TotalWithout` that summands may be taken in any
order, and `TotalBelow` compares two sums whose summands match one to one, which those of the
buckets in the window and of the ticks do. These inductions are over the size of the set, stated as facts
about sets of numbers (`Numbers`), since the library's rule has an operator for a parameter.

`HttpProofs` proves `OneFraming`, `BoundaryKept` and `AnswersInOrder`.

* `OneFraming`, for any number of any header lines (`FramingAssumption` says what a line is). That
  `ReqAfter` and `RespAfter` have values, and that one line more is one call of `onHttpField` more,
  is shown by induction over the number of lines (`Numbers` again). `FramingInv`: a parser without
  an error remembers exactly the lengths and codings the lines have named; one with an error has
  seen lines that cannot be read in one way, and no line takes that back.
* `BoundaryKept` and `AnswersInOrder`, for any scripts and limits (`ConnAssumption`). `BoundaryKept`
  says nothing of a body that is half read, so `ConnInv` says at each stage of `readChunk`
  where the next token stands (`BodyAt`): with n bytes left in the reader there are n left on
  the wire. `Owned` follows the request of the last token taken, which ties the heads to
  `m_req_count` even after a broken body (finding 2), and `AnswersPlaced` ties the answers to it.

`GatewayProofs` proves two theorems. First, `ConnectionsCounted` of `TcpListener`, for any sockets,
clients and limit
(`ListenerAssumption`: finite, at least one socket). That the limit holds is not inductive, for
`acceptLoop` compares in one step and adds in a later one: `RoomKept` counts also the loops in
between. `HeldApart` says that a connection is in one hand until it is served. Second,
`ReportsAccounted` of `Reporter`, for any callers, ids and size of the queue
(`ReporterAssumption`). `ReporterInv` adds the sender's hand to the sum (`HandSound`), and that at
the end nobody can push any more (`EndSound`): `m_accepting` is read again under the mutex.

`AsyncLoggerProofs` proves `RecordsKept` for any threads and any sizes of buffers and ring
(`LoggerAssumption`: threads are finitely many and not the logger's own). That a record is in one
place, once, is kept by every step: the places after it are the image of the places before
(`Fits`), so one stays one (`OnePlace`). What shutdown leaves needs the order of its steps:
`inflight_` counts the pushes that got past `running_` (`Counted`), so once it was zero no buffer
fills again (`Quiet`); the sweep leaves all buffers empty (`Swept`), because a thread with one is
in `tlsList_` (`Listed`); and a cell that still holds up the ring in the end belongs to a thread
that is not counted (`Over`).

`RuntimeProofs` proves `HoldFollowsPumps` of the tunnel (`TunnelInv`: what is held before and what
with the pumps), and of `FiberIo`, for any threads and coroutines (`FiberAssumption`: coroutines
finite, a thread at least), `WokenOnce` and `TimeoutIsReal`. `FiberInv` ties the point of a
coroutine to the one thing that will resume it: its armed event, its entry in the queue, or the
worker that took it. `StopSound` says why no worker leaves too early: as long as something is queued
some worker has still to look; and when all have passed the look at the armed events, all
coroutines are finished (`ExitSound`).

All these invariants were first checked by TLC on small instances: `GroupInv` and `RingInv` on
the 1.1 million states of three requests at a time, `FramingInv`, `ConnInv` and the logger's on
the 1.6 million of `gateway`, `SeenBounded` on the 0.9 million of `engine_time`, `ReporterInv` on 1.0 million,
`FiberInv` and `TunnelInv` on the 64 thousand of `runtime`, those of `RuleSync` on up to 10 million.
With them every safety property that a passing run checks is a theorem, except `HeadSplit`.

Only model-checked, and why:

* liveness (`QueueDrains`, `DueRulesLeave`, `Converges`, `StopCompletes`, `NotJammed`,
  `HealthFollows`, `DrainEnds`, `TunnelEnds`, `DataIsRead`, `ReporterStops`): fairness is out of
  the prover's reach;
* `HeadSplit`: it compares two generated automata, of some hundred states each, with a reading of
  the text; an invariant would have to say of every state what was read so far;
* the properties of the runs that expect a violation.

## 5. Plan

1. Done: policy plane (`RuleHub`, `PolicyEngine`, `RuleSync`, `HubDaemon`) and upstreams
   (`CircuitBreaker`, `UpstreamGroup`), with the proofs of engine and daemon.
2. Done: client side and runtime (`RequestParser` to `AsyncLogger` above).
3. Done: theorems about every safety property of the passing runs but `HeadSplit`.
4. Models that are left: configuration snapshot and reload with the groups it replaces
   (`conf.cpp`, `gateway.cpp`), `SyncClient::stop`, static rules and compiled snapshot of the
   guard, balancers (`lb.h`, `hash.cc`), rate limit buckets, timer heap.

## 6. Not modelled

* IP prefix matching, balancers, router, rate limits, firewall rules and tokens: computed per
  request from data that a request does not change, or changed under one lock.
* Configuration reload: one pointer swapped under a mutex; its validation is text processing.
* JSON, frames, metrics, traces, admin pages, `banctl`: conversion and observation.
* Buffers, byte arrays, addresses, socket options, threads, configuration variables: library
  code and wrappers of system calls without a protocol of their own.
* Appenders, formatters and sampling of the logger: text and files behind the records that
  `AsyncLogger` follows.
* Timer heap and connect hook of the runtime: `FiberIo` lets a read's timer fire at any time,
  which covers every order of the heap.
* Application framework: start order and signals; the stop order of the two programs is part of
  `HubDaemon` and `TcpListener`.
