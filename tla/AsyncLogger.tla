----------------------------- MODULE AsyncLogger -----------------------------
(***************************************************************************)
(* BxAsyncLogger (async_logger.cpp) and its ring (mpsc_ring.h).  Threads   *)
(* log into buffers of their own; full buffers go through a bounded ring   *)
(* to one writer; a heartbeat and flushAll collect the buffers that are    *)
(* not full, a thread that exits hands its own over, and shutdown ends all *)
(* of it.  What is done under one lock is one step, and so is every access *)
(* to an atomic.  A record is known by its thread and its number there.    *)
(***************************************************************************)
EXTENDS Integers, Sequences, FiniteSets, SequencesExt

CONSTANTS
  Producers,  \* threads that log
  Flushers,   \* the ones that also log FATAL records
  MaxLogs,    \* records that are logged
  Capacity,   \* kBufferCapacity
  RingSize    \* kCentralCapacity

\* The threads of the logger itself, and of shutdown, log nothing.
ASSUME LoggerAssumption ==
  IsFiniteSet(Producers) /\ Producers \cap {"heartbeat", "main", "writer"} = {}

VARIABLES
  logRunning, stop, inflight, enqueued, drained,   \* the atomics
  current,    \* Producers -> s->current
  tlsList,    \* threads that are registered
  ring,       \* Seq of [by, how, buf, ready]; not ready: claimed, not yet published
  logPc, mode,   \* Actors -> where it is, and in which operation
  logged,     \* Producers -> records so far
  todo,       \* Actors -> threads whose buffer is still to be swapped
  hand,       \* Actors -> buffers taken out, to be enqueued
  target,     \* Actors -> targetEnqueued
  batch,      \* what the writer has popped
  written     \* the records in the order they were written

logVars == <<logRunning, stop, inflight, enqueued, drained, current, tlsList, ring, logPc, mode,
             logged, todo, hand, target, batch, written>>

flags == <<logRunning, stop>>
counts == <<inflight, enqueued, drained>>
work == <<todo, hand, target>>

Actors == Producers \cup {"heartbeat", "main", "writer"}

LogInit ==
  /\ logRunning = TRUE /\ stop = FALSE /\ inflight = 0 /\ enqueued = 0 /\ drained = 0
  /\ current = [p \in Producers |-> <<>>] /\ tlsList = {} /\ ring = <<>>
  /\ logPc = [a \in Actors |->
             CASE a = "heartbeat" -> "beat" [] a = "writer" -> "pop" [] OTHER -> "idle"]
  /\ mode = [a \in Actors |-> IF a = "heartbeat" THEN "beat" ELSE "none"]
  /\ logged = [p \in Producers |-> 0]
  /\ todo = [a \in Actors |-> {}] /\ hand = [a \in Actors |-> <<>>]
  /\ target = [a \in Actors |-> 0]
  /\ batch = <<>> /\ written = <<>>

IsAt(a, where) == logPc[a] = where
Move(a, from, to) == logPc[a] = from /\ logPc' = [logPc EXCEPT ![a] = to]
Enter(a, what) == mode' = [mode EXCEPT ![a] = what]
Record(p) == <<p, logged[p]>>
SumOver(S, f(_)) == FoldSet(LAMBDA x, n : n + f(x), 0, S)
Write(buf) == written' = written \o buf

\* One more record of p.
Room == SumOver(Producers, LAMBDA q : logged[q]) < MaxLogs
Log(p) == Room /\ logged' = [logged EXCEPT ![p] = @ + 1]

\* tlsMutex_ is held while somebody goes through tlsList_.
TlsFree == \A a \in Actors : ~IsAt(a, "swap")

----------------------------------------------------------------------------
(* push                                                                    *)

\* A record is taken in; a FATAL one flushes first (~LogEventWrap, log.cpp).
Push(p) ==
  /\ Log(p)
  /\ Move(p, "idle", IF logRunning THEN "enter" ELSE "sync") /\ Enter(p, "push")
  /\ UNCHANGED <<flags, counts, current, tlsList, ring, work, batch, written>>
Fatal(p) ==
  /\ p \in Flushers /\ Log(p)
  /\ Move(p, "idle", "collect") /\ Enter(p, "flush")
  /\ UNCHANGED <<flags, counts, current, tlsList, ring, work, batch, written>>

PushEnter(p) ==
  /\ Move(p, "enter", "check") /\ inflight' = inflight + 1
  /\ UNCHANGED <<flags, enqueued, drained, current, tlsList, ring, mode, logged, work, batch,
                 written>>

PushCheck(p) ==
  /\ Move(p, "check", IF logRunning THEN "tls" ELSE "undo")
  /\ UNCHANGED <<flags, counts, current, tlsList, ring, mode, logged, work, batch, written>>
PushUndo(p) ==
  /\ Move(p, "undo", "sync") /\ inflight' = inflight - 1
  /\ UNCHANGED <<flags, enqueued, drained, current, tlsList, ring, mode, logged, work, batch,
                 written>>

getOrCreateTls(p) ==
  /\ Move(p, "tls", "put")
  /\ \/ p \in tlsList /\ UNCHANGED tlsList
     \/ p \notin tlsList /\ TlsFree /\ tlsList' = tlsList \cup {p}
  /\ UNCHANGED <<flags, counts, current, ring, mode, logged, work, batch, written>>

\* Under s->lock; a buffer that is full is swapped out.
PushPut(p) ==
  LET buf == Append(current[p], Record(p))
      full == Len(buf) >= Capacity
  IN /\ Move(p, "put", IF ~logRunning THEN "late" ELSE IF full THEN "claim" ELSE "out")
     /\ current' = [current EXCEPT ![p] = IF ~logRunning THEN @ ELSE IF full THEN <<>> ELSE buf]
     /\ hand' = [hand EXCEPT ![p] = IF logRunning /\ full THEN <<buf>> ELSE @]
     /\ UNCHANGED <<flags, counts, tlsList, ring, mode, logged, todo, target, batch, written>>

\* The ways out: written directly, before or after inflight_ is given back.
WriteSync(p) ==
  /\ Move(p, "sync", "idle") \/ Move(p, "late", "out")
  /\ Write(<<Record(p)>>)
  /\ UNCHANGED <<flags, counts, current, tlsList, ring, mode, logged, work, batch>>
PushOut(p) ==
  /\ Move(p, "out", "idle") /\ inflight' = inflight - 1
  /\ UNCHANGED <<flags, enqueued, drained, current, tlsList, ring, mode, logged, work, batch,
                 written>>

----------------------------------------------------------------------------
(* enqueueBuffer over try_push: claim a cell, publish it, count it         *)

After(a) ==
  CASE mode[a] = "push" -> "out" [] mode[a] = "exit" -> "unlist" [] mode[a] = "beat" -> "beat"
    [] OTHER -> "target"

\* A full ring makes the producer try again.
Claim(a) ==
  /\ Len(ring) < RingSize
  /\ Move(a, "claim", "publish")
  /\ ring' = Append(ring, [by |-> a, how |-> mode[a], buf |-> Head(hand[a]), ready |-> FALSE])
  /\ hand' = [hand EXCEPT ![a] = Tail(@)]
  /\ UNCHANGED <<flags, counts, current, tlsList, mode, logged, todo, target, batch, written>>

Publish(a) ==
  /\ Move(a, "publish", "count")
  /\ ring' = [k \in DOMAIN ring |->
                IF ring[k].by = a THEN [ring[k] EXCEPT !.ready = TRUE] ELSE ring[k]]
  /\ UNCHANGED <<flags, counts, current, tlsList, mode, logged, work, batch, written>>

CountIn(a) ==
  /\ Move(a, "count", IF hand[a] = <<>> THEN After(a) ELSE "claim")
  /\ enqueued' = enqueued + 1
  /\ UNCHANGED <<flags, inflight, drained, current, tlsList, ring, mode, logged, work, batch,
                 written>>

----------------------------------------------------------------------------
(* flushAll, heartbeatLoop and tlsDestructor                               *)

\* The list is gone through under tlsMutex_, each buffer swapped under the
\* lock of its thread.
Collect(a) ==
  /\ TlsFree /\ Move(a, "collect", "swap")
  /\ todo' = [todo EXCEPT ![a] = tlsList]
  /\ UNCHANGED <<flags, counts, current, tlsList, ring, mode, logged, hand, target, batch, written>>

swapBufferLocked(a) ==
  /\ IsAt(a, "swap")
  /\ \E p \in todo[a] :
       /\ hand' = [hand EXCEPT ![a] = IF current[p] = <<>> THEN @ ELSE Append(@, current[p])]
       /\ current' = [current EXCEPT ![p] = <<>>]
       /\ todo' = [todo EXCEPT ![a] = @ \ {p}]
  /\ UNCHANGED <<flags, counts, tlsList, ring, logPc, mode, logged, target, batch, written>>

Collected(a) ==
  /\ todo[a] = {} /\ Move(a, "swap", IF hand[a] = <<>> THEN After(a) ELSE "claim")
  /\ UNCHANGED <<flags, counts, current, tlsList, ring, mode, logged, work, batch, written>>

Target(a) ==
  /\ Move(a, "target", "drain") /\ target' = [target EXCEPT ![a] = enqueued]
  /\ UNCHANGED <<flags, counts, current, tlsList, ring, mode, logged, todo, hand, batch, written>>
FlushWaits(a) ==
  /\ drained >= target[a] \/ stop
  /\ Move(a, "drain", IF mode[a] = "flush" THEN "sync" ELSE "stop")
  /\ target' = [target EXCEPT ![a] = 0]
  /\ UNCHANGED <<flags, counts, current, tlsList, ring, mode, logged, todo, hand, batch, written>>

Beat ==
  /\ Move("heartbeat", "beat", IF stop THEN "gone" ELSE "collect")
  /\ UNCHANGED <<flags, counts, current, tlsList, ring, mode, logged, work, batch, written>>

tlsDestructor(p) ==
  /\ p \in tlsList
  /\ Move(p, "idle", IF current[p] = <<>> THEN "unlist" ELSE "claim") /\ Enter(p, "exit")
  /\ hand' = [hand EXCEPT ![p] = IF current[p] = <<>> THEN <<>> ELSE <<current[p]>>]
  /\ current' = [current EXCEPT ![p] = <<>>]
  /\ UNCHANGED <<flags, counts, tlsList, ring, logged, todo, target, batch, written>>
Unlist(p) ==
  /\ TlsFree /\ Move(p, "unlist", "gone") /\ tlsList' = tlsList \ {p}
  /\ UNCHANGED <<flags, counts, current, ring, mode, logged, work, batch, written>>

----------------------------------------------------------------------------
(* writerLoop and shutdown                                                 *)

\* try_pop sees nothing behind a cell that is claimed and not published.
Poppable == ring # <<>> /\ Head(ring).ready

WriterPops ==
  /\ \/ Poppable /\ Move("writer", "pop", "write") /\ batch' = Head(ring).buf /\ ring' = Tail(ring)
     \/ ~Poppable /\ stop /\ Move("writer", "pop", "gone") /\ UNCHANGED <<batch, ring>>
  /\ UNCHANGED <<flags, counts, current, tlsList, mode, logged, work, written>>
WriterWrites ==
  /\ Move("writer", "write", "tell")
  /\ Write(batch) /\ batch' = <<>>
  /\ UNCHANGED <<flags, counts, current, tlsList, ring, mode, logged, work>>
WriterTells ==
  /\ Move("writer", "tell", "pop") /\ drained' = drained + 1
  /\ UNCHANGED <<flags, inflight, enqueued, current, tlsList, ring, mode, logged, work, batch,
                 written>>

Shutdown ==
  /\ Move("main", "idle", "inflight") /\ logRunning' = FALSE /\ Enter("main", "shutdown")
  /\ UNCHANGED <<stop, counts, current, tlsList, ring, logged, work, batch, written>>

\* A slip: the buffers are collected while a push is still on its way.
QuiesceNot == TRUE

Quiesce == inflight = 0

ShutdownWaits ==
  /\ Quiesce /\ Move("main", "inflight", "collect")
  /\ UNCHANGED <<flags, counts, current, tlsList, ring, mode, logged, work, batch, written>>
ShutdownStops ==
  /\ Move("main", "stop", "join") /\ stop' = TRUE
  /\ UNCHANGED <<logRunning, counts, current, tlsList, ring, mode, logged, work, batch, written>>
ShutdownJoins ==
  /\ IsAt("heartbeat", "gone") /\ IsAt("writer", "gone") /\ Move("main", "join", "rest")
  /\ UNCHANGED <<flags, counts, current, tlsList, ring, mode, logged, work, batch, written>>
ShutdownDrains ==
  /\ IsAt("main", "rest")
  /\ \/ /\ Poppable /\ UNCHANGED logPc
        /\ Write(Head(ring).buf) /\ ring' = Tail(ring)
     \/ ~Poppable /\ Move("main", "rest", "done") /\ UNCHANGED <<ring, written>>
  /\ UNCHANGED <<flags, counts, current, tlsList, mode, logged, work, batch>>

----------------------------------------------------------------------------
Produce(p) ==
  \/ Push(p) \/ Fatal(p) \/ PushEnter(p) \/ PushCheck(p) \/ PushUndo(p) \/ getOrCreateTls(p)
  \/ PushPut(p) \/ WriteSync(p) \/ PushOut(p) \/ tlsDestructor(p) \/ Unlist(p)

Carry(a) ==
  \/ Claim(a) \/ Publish(a) \/ CountIn(a)
  \/ Collect(a) \/ swapBufferLocked(a) \/ Collected(a) \/ Target(a) \/ FlushWaits(a)

LogNext ==
  \/ \E p \in Producers : Produce(p)
  \/ \E a \in Actors : Carry(a)
  \/ Beat \/ WriterPops \/ WriterWrites \/ WriterTells
  \/ Shutdown \/ ShutdownWaits \/ ShutdownStops \/ ShutdownJoins \/ ShutdownDrains

LogSpec == LogInit /\ [][LogNext]_logVars

----------------------------------------------------------------------------
(* Properties.                                                             *)

\* The record that thread p is logging is still its own.
Keeping(p) ==
  /\ logPc[p] # "idle"
  /\ mode[p] = "flush" \/ logPc[p] \in {"enter", "check", "undo", "tls", "put", "sync", "late"}
Underway(r) == r[2] = logged[r[1]] /\ Keeping(r[1])
Where(r, buf) == {k \in DOMAIN buf : buf[k] = r}
Holds(buf, r) == Where(r, buf) # {}

InOwn(r) == {x \in {<<"own">>} : Underway(r)}
InCurrent(r, bufs) == UNION {{<<"current", p, k>> : k \in Where(r, bufs[p])} : p \in Producers}
InHand(r, held) ==
  UNION {UNION {{<<"hand", a, j, k>> : k \in Where(r, held[a][j])} : j \in DOMAIN held[a]} :
         a \in Actors}
InRing(r, cells) ==
  UNION {{<<"ring", j, k>> : k \in Where(r, cells[j].buf)} : j \in DOMAIN cells}
InBuffer(name, r, buf) == {<<name, k>> : k \in Where(r, buf)}
Places(r) ==
  InOwn(r) \cup InCurrent(r, current) \cup InHand(r, hand) \cup InRing(r, ring)
    \cup InBuffer("batch", r, batch) \cup InBuffer("written", r, written)

\* A thread that exits or flushes is not counted in inflight_, and nobody
\* pops what is behind a cell that it claimed.
Stray == {"exit", "flush"}
Missed(r) ==
  \/ \E p \in Producers : mode[p] \in Stray /\ \E j \in DOMAIN hand[p] : Holds(hand[p][j], r)
  \/ \E k \in DOMAIN ring : Holds(ring[k].buf, r) /\ \E j \in 1..k : ring[j].how \in Stray

\* A record is always in exactly one place, and once: with its thread, in a
\* buffer, on its way, or written; and when shutdown is through all of them
\* are written, whatever the heartbeat and the writer were doing when it was
\* called, but for those that a thread which exits or a FATAL flush carries
\* and those behind them in the ring.
RecordsKept ==
  \A p \in Producers : \A n \in 1..logged[p] :
    LET r == <<p, n>>
    IN /\ Cardinality(Places(r)) = 1
       /\ IsAt("main", "done") => Holds(written, r) \/ Underway(r) \/ Missed(r)

\* The barrier that the tests of FATAL state: what a thread logged before is
\* written before its FATAL record is, while nobody shuts the logger down.
FatalBarrier ==
  \A p \in Producers :
    IsAt(p, "sync") /\ mode[p] = "flush" /\ ~stop =>
      \A n \in 1..(logged[p] - 1) : Holds(written, <<p, n>>)
=============================================================================
