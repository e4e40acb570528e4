------------------------- MODULE AsyncLoggerProofs -------------------------
(***************************************************************************)
(* Proof that the logger keeps every record (RecordsKept), for any number  *)
(* of threads and any size of the buffers and of the ring.                 *)
(*                                                                         *)
(* That a record is in one place, once, is kept step by step: whatever a   *)
(* step moves, the places after it are the image of the places before      *)
(* (Fits), so one place stays one. That shutdown leaves nothing but what   *)
(* an exiting or flushing thread holds up needs the order in which it does *)
(* things: inflight_ counts the pushes that got past running_ (Counted),   *)
(* so once it was zero no buffer fills again (Quiet); the sweep leaves all *)
(* of them empty (Swept), because a thread with a buffer is in tlsList_    *)
(* (Listed); and a cell that holds up the ring when the heartbeat and the  *)
(* writer have ended belongs to a thread that is not counted (Over).       *)
(***************************************************************************)
EXTENDS AsyncLogger, FiniteSetTheorems, SequenceTheorems, TLAPS

(* A record is known by its thread and its number there.                   *)
Records == Producers \X Nat
(* What a buffer may hold.                                                 *)
Buffers == Seq(Records)
(* The operations a thread may be in.                                      *)
Modes == {"none", "push", "flush", "exit", "beat", "shutdown"}
(* enqueueBuffer: claim a cell, publish it, count it.                      *)
Carrying == {"claim", "publish", "count"}
(* Where a thread may be.                                                  *)
Points == {"idle", "enter", "check", "undo", "tls", "put", "sync", "late", "out", "collect",
           "swap", "target", "drain", "unlist", "gone", "beat", "pop", "write", "tell",
           "inflight", "stop", "join", "rest", "done"} \cup Carrying
(* What a cell of the ring may be.                                         *)
Cells == [by : Actors, how : Modes, buf : Buffers, ready : BOOLEAN]

(* The types of the control state.                                         *)
ControlTypes ==
  /\ logPc \in [Actors -> Points] /\ mode \in [Actors -> Modes]
  /\ logged \in [Producers -> Nat] /\ inflight \in Int
  /\ tlsList \subseteq Producers /\ todo \in [Actors -> SUBSET Producers]
(* The types of what holds records.                                        *)
DataTypes ==
  /\ current \in [Producers -> Buffers] /\ hand \in [Actors -> Seq(Buffers)]
  /\ ring \in Seq(Cells) /\ batch \in Buffers /\ written \in Buffers
(* Both.                                                                   *)
LogTypes == ControlTypes /\ DataTypes

\* Where a thread may be in each of its operations.
PushPoints == {"enter", "check", "undo", "tls", "put", "sync", "late", "out"} \cup Carrying
FlushPoints == {"collect", "swap", "target", "drain", "sync"} \cup Carrying
MainPoints == {"inflight", "collect", "swap", "target", "drain", "stop", "join", "rest", "done"}
                \cup Carrying
(* Each thread is on the route of its operation, and only shutdown clears  *)
(* running_.                                                               *)
Routes ==
  /\ \A p \in Producers :
       \/ logPc[p] = "idle" /\ mode[p] \in {"none", "push", "flush"}
       \/ mode[p] = "push" /\ logPc[p] \in PushPoints
       \/ mode[p] = "flush" /\ logPc[p] \in FlushPoints
       \/ mode[p] = "exit" /\ logPc[p] \in {"unlist", "gone"} \cup Carrying
  /\ \A p \in Producers : mode[p] \in {"push", "flush"} => logged[p] > 0
  /\ mode["heartbeat"] = "beat"
  /\ logPc["heartbeat"] \in {"beat", "collect", "swap", "gone"} \cup Carrying
  /\ mode["writer"] = "none" /\ logPc["writer"] \in {"pop", "write", "tell", "gone"}
  /\ \/ logPc["main"] = "idle" /\ mode["main"] = "none" /\ logRunning
     \/ logPc["main"] \in MainPoints /\ mode["main"] = "shutdown" /\ ~logRunning

(* A thread holds buffers from collecting them until they are enqueued.    *)
Hands ==
  \A a \in Actors : /\ logPc[a] = "claim" => hand[a] # <<>>
                    /\ logPc[a] \notin Carrying \cup {"swap"} => hand[a] = <<>>
(* Only a writer that has popped holds a batch.                            *)
Batch == logPc["writer"] # "write" => batch = <<>>
(* The thread of a cell that is not published is about to publish it.      *)
Claimed(c, at, in) == ~c.ready => at[c.by] = "publish" /\ c.how = in[c.by]
(* So it is with every cell.                                               *)
RingClaims == \A k \in DOMAIN ring : Claimed(ring[k], logPc, mode)

(* Between the two accesses of push to inflight_.                          *)
Inflight == {"check", "undo", "tls", "put", "late", "out"} \cup Carrying
(* The threads that inflight_ counts.                                      *)
InPush == {p \in Producers : mode[p] = "push" /\ logPc[p] \in Inflight}
(* A push here has not passed its second look at running_.                 *)
Late == {"check", "undo"}

(* inflight_ counts the pushes that are on their way.                      *)
Counted == inflight = Cardinality(InPush)
(* Where shutdown is once it saw inflight_ at zero.                        *)
Past == MainPoints \ {"inflight"}
(* From then on no push gets as far as a buffer.                           *)
Quiet == logPc["main"] \in Past => \A p \in InPush : logPc[p] \in Late
(* A thread that has a buffer is in tlsList_, and is not one that exits.   *)
Listed ==
  \A p \in Producers : /\ current[p] # <<>> => p \in tlsList /\ mode[p] # "exit"
                       /\ logPc[p] = "put" => p \in tlsList
(* What shutdown has gone through is empty and stays so.                   *)
Swept ==
  /\ logPc["main"] = "swap" => \A p \in Producers : current[p] # <<>> => p \in todo["main"]
  /\ logPc["main"] \in Past \ {"collect", "swap"} => \A p \in Producers : current[p] = <<>>

(* Shutdown empties the ring when the heartbeat and the writer have ended, *)
(* and stops only at a cell of a thread that exits or flushes.             *)
Over ==
  /\ logPc["main"] \in {"rest", "done"} => logPc["heartbeat"] = "gone" /\ logPc["writer"] = "gone"
  /\ logPc["main"] = "done" /\ ring # <<>> => ring[1].how \in Stray

(* Record r has been logged.                                               *)
Logged(r) == r[2] \in 1..logged[r[1]]
(* A record that was logged is in one place, any other in none.            *)
OnePlace ==
  \A r \in Records : IF Logged(r) THEN \E x : Places(r) = {x} ELSE Places(r) = {}

(* The inductive invariant of the logger.                                  *)
LogInv ==
  /\ LogTypes /\ Routes /\ Hands /\ Batch /\ RingClaims
  /\ Counted /\ Quiet /\ Listed /\ Swept /\ Over /\ OnePlace

(* Every step keeps the types of the control state.                        *)
LEMMA ControlTypesKept ==
  ASSUME ControlTypes, LogNext
  PROVE  ControlTypes'
<1> USE LoggerAssumption
    DEF flags, counts, work, Actors, Move, IsAt, Enter, Log, After, Points, Carrying, Modes,
        PushPoints, FlushPoints, MainPoints, Routes
<1>1. ASSUME NEW p \in Producers, Push(p) \/ Fatal(p) \/ PushEnter(p) \/ PushCheck(p) \/
                                  PushUndo(p) \/ getOrCreateTls(p) \/ PushPut(p) \/
                                  PushOut(p) \/ tlsDestructor(p) \/ Unlist(p)
      PROVE  ControlTypes'
  BY <1>1
  DEF ControlTypes, Push, Fatal, PushEnter, PushCheck, PushUndo, getOrCreateTls, PushPut, PushOut,
      tlsDestructor, Unlist
<1>2. ASSUME NEW a \in Actors, Claim(a) \/ Publish(a) \/ CountIn(a) \/ Collect(a) \/
                               Collected(a) \/ Target(a) \/ FlushWaits(a)
      PROVE  ControlTypes'
  BY <1>2
  DEF ControlTypes, Claim, Publish, CountIn, Collect, Collected, Target, FlushWaits
<1>3. ASSUME Beat \/ WriterPops \/ WriterWrites \/ WriterTells \/ Shutdown \/ ShutdownWaits
             \/ ShutdownStops \/ ShutdownJoins \/ ShutdownDrains
      PROVE  ControlTypes'
  BY <1>3
  DEF ControlTypes, Beat, WriterPops, WriterWrites, WriterTells, Shutdown, ShutdownWaits,
      ShutdownStops, ShutdownJoins, ShutdownDrains
<1>4. ASSUME NEW a \in Actors, swapBufferLocked(a)
      PROVE  ControlTypes'
  <2>1. /\ logPc' = logPc /\ mode' = mode /\ logged' = logged /\ inflight' = inflight
        /\ tlsList' = tlsList
    BY <1>4 DEF swapBufferLocked
  <2>2. todo' \in [Actors -> SUBSET Producers]
    <3>1. PICK q \in todo[a] : todo' = [todo EXCEPT ![a] = @ \ {q}]
      BY <1>4 DEF swapBufferLocked
    <3> QED BY <3>1 DEF ControlTypes
  <2> QED BY <2>1, <2>2 DEF ControlTypes
<1>5. ASSUME NEW p \in Producers, WriteSync(p)
      PROVE  ControlTypes'
  <2>1. /\ mode' = mode /\ logged' = logged /\ inflight' = inflight /\ tlsList' = tlsList
        /\ todo' = todo
        /\ logPc' = [logPc EXCEPT ![p] = "idle"] \/ logPc' = [logPc EXCEPT ![p] = "out"]
    BY <1>5 DEF WriteSync
  <2> QED BY <2>1 DEF ControlTypes
<1> QED BY LogNext, <1>1, <1>2, <1>3, <1>4, <1>5 DEF LogNext, Produce, Carry

(* Every thread stays on the route of its operation.                       *)
LEMMA RoutesKept ==
  ASSUME ControlTypes, Routes, LogNext
  PROVE  Routes'
<1> USE LoggerAssumption
    DEF flags, counts, work, Actors, Move, IsAt, Enter, Log, After, Points, Carrying, Modes,
        PushPoints, FlushPoints, MainPoints, Routes
<1>1. ASSUME NEW p \in Producers, Push(p) \/ Fatal(p) \/ PushEnter(p) \/ PushCheck(p) \/
                                  PushUndo(p) \/ getOrCreateTls(p) \/ PushPut(p) \/
                                  WriteSync(p) \/ PushOut(p) \/ tlsDestructor(p) \/
                                  Unlist(p)
      PROVE  Routes'
  BY <1>1
  DEF ControlTypes, Push, Fatal, PushEnter, PushCheck, PushUndo, getOrCreateTls, PushPut,
      WriteSync, PushOut, tlsDestructor, Unlist
<1>2. ASSUME NEW a \in Actors, Claim(a) \/ Publish(a) \/ CountIn(a) \/ Collect(a) \/
                               swapBufferLocked(a) \/ Collected(a) \/ Target(a) \/
                               FlushWaits(a)
      PROVE  Routes'
  BY <1>2
  DEF ControlTypes, Claim, Publish, CountIn, Collect, swapBufferLocked, Collected, Target,
      FlushWaits
<1>3. ASSUME Beat \/ WriterPops \/ WriterWrites \/ WriterTells \/ Shutdown \/ ShutdownWaits
             \/ ShutdownStops \/ ShutdownJoins \/ ShutdownDrains
      PROVE  Routes'
  BY <1>3
  DEF ControlTypes, Beat, WriterPops, WriterWrites, WriterTells, Shutdown, ShutdownWaits,
      ShutdownStops, ShutdownJoins, ShutdownDrains
<1> QED BY LogNext, <1>1, <1>2, <1>3 DEF LogNext, Produce, Carry

(* Only a writer that has popped holds a batch.                            *)
LEMMA BatchKept ==
  ASSUME ControlTypes, Routes, Batch, LogNext
  PROVE  Batch'
<1> USE LoggerAssumption
    DEF flags, counts, work, Actors, Move, IsAt, Enter, Log, After, Points, Carrying, Modes,
        PushPoints, FlushPoints, MainPoints, Routes
<1>1. ASSUME NEW p \in Producers, Push(p) \/ Fatal(p) \/ PushEnter(p) \/ PushCheck(p) \/
                                  PushUndo(p) \/ getOrCreateTls(p) \/ PushPut(p) \/
                                  WriteSync(p) \/ PushOut(p) \/ tlsDestructor(p) \/
                                  Unlist(p)
      PROVE  Batch'
  BY <1>1
  DEF ControlTypes, Batch, Push, Fatal, PushEnter, PushCheck, PushUndo, getOrCreateTls, PushPut,
      WriteSync, PushOut, tlsDestructor, Unlist
<1>2. ASSUME NEW a \in Actors, Claim(a) \/ Publish(a) \/ CountIn(a) \/ Collect(a) \/
                               swapBufferLocked(a) \/ Collected(a) \/ Target(a) \/
                               FlushWaits(a)
      PROVE  Batch'
  BY <1>2
  DEF ControlTypes, Batch, Claim, Publish, CountIn, Collect, swapBufferLocked, Collected, Target,
      FlushWaits
<1>3. ASSUME Beat \/ WriterPops \/ WriterWrites \/ WriterTells \/ Shutdown \/ ShutdownWaits
             \/ ShutdownStops \/ ShutdownJoins \/ ShutdownDrains
      PROVE  Batch'
  BY <1>3
  DEF ControlTypes, Batch, Beat, WriterPops, WriterWrites, WriterTells, Shutdown, ShutdownWaits,
      ShutdownStops, ShutdownJoins, ShutdownDrains
<1> QED BY LogNext, <1>1, <1>2, <1>3 DEF LogNext, Produce, Carry

(* The buffers that main has swapped stay empty.                           *)
LEMMA SweptKept ==
  ASSUME ControlTypes, DataTypes, Routes, Quiet, Listed, Swept, LogNext
  PROVE  Swept'
<1> USE LoggerAssumption
    DEF flags, counts, work, Actors, Move, IsAt, Enter, Log, After, Points, Carrying, Modes,
        PushPoints, FlushPoints, MainPoints, Routes
<1>1. ASSUME NEW p \in Producers, Push(p) \/ Fatal(p) \/ PushEnter(p) \/ PushCheck(p) \/
                                  PushUndo(p) \/ getOrCreateTls(p) \/ PushPut(p) \/
                                  WriteSync(p) \/ PushOut(p) \/ tlsDestructor(p) \/
                                  Unlist(p)
      PROVE  Swept'
  BY <1>1
  DEF ControlTypes, DataTypes, Listed, Quiet, Swept, Past, InPush, Inflight, Late, Push, Fatal,
      PushEnter, PushCheck, PushUndo, getOrCreateTls, PushPut, WriteSync, PushOut, tlsDestructor,
      Unlist
<1>2. ASSUME NEW a \in Actors, Claim(a) \/ Publish(a) \/ CountIn(a) \/ Collect(a) \/
                               swapBufferLocked(a) \/ Collected(a) \/ Target(a) \/
                               FlushWaits(a)
      PROVE  Swept'
  BY <1>2
  DEF ControlTypes, DataTypes, Listed, Quiet, Swept, Past, InPush, Inflight, Late, Claim, Publish,
      CountIn, Collect, swapBufferLocked, Collected, Target, FlushWaits
<1>3. ASSUME Beat \/ WriterPops \/ WriterWrites \/ WriterTells \/ Shutdown \/ ShutdownWaits
             \/ ShutdownStops \/ ShutdownJoins \/ ShutdownDrains
      PROVE  Swept'
  BY <1>3
  DEF ControlTypes, DataTypes, Listed, Quiet, Swept, Past, InPush, Inflight, Late, Beat,
      WriterPops, WriterWrites, WriterTells, Shutdown, ShutdownWaits, ShutdownStops,
      ShutdownJoins, ShutdownDrains
<1> QED BY LogNext, <1>1, <1>2, <1>3 DEF LogNext, Produce, Carry

(* After the wait for inflight_ no push gets as far as a buffer.           *)
LEMMA QuietKept ==
  ASSUME ControlTypes, Routes, Counted, Quiet, LogNext
  PROVE  Quiet'
<1> USE LoggerAssumption
    DEF flags, counts, work, Actors, Move, IsAt, Enter, Log, After, Points, Carrying, Modes,
        PushPoints, FlushPoints, MainPoints, Routes
<1>1. ASSUME NEW p \in Producers, Push(p) \/ Fatal(p) \/ PushEnter(p) \/ PushCheck(p) \/
                                  PushUndo(p) \/ getOrCreateTls(p) \/ PushPut(p) \/
                                  WriteSync(p) \/ PushOut(p) \/ tlsDestructor(p) \/
                                  Unlist(p)
      PROVE  Quiet'
  BY <1>1
  DEF ControlTypes, Quiet, InPush, Inflight, Late, Past, Push, Fatal, PushEnter, PushCheck,
      PushUndo, getOrCreateTls, PushPut, WriteSync, PushOut, tlsDestructor, Unlist
<1>2. ASSUME NEW a \in Actors, Claim(a) \/ Publish(a) \/ CountIn(a) \/ Collect(a) \/
                               Collected(a) \/ Target(a) \/ FlushWaits(a)
      PROVE  Quiet'
  BY <1>2
  DEF ControlTypes, Quiet, InPush, Inflight, Late, Past, Claim, Publish, CountIn, Collect,
      Collected, Target, FlushWaits
<1>3. ASSUME Beat \/ WriterPops \/ WriterWrites \/ WriterTells \/ Shutdown \/ ShutdownStops
             \/ ShutdownJoins \/ ShutdownDrains
      PROVE  Quiet'
  BY <1>3
  DEF ControlTypes, Quiet, InPush, Inflight, Late, Past, Beat, WriterPops, WriterWrites,
      WriterTells, Shutdown, ShutdownStops, ShutdownJoins, ShutdownDrains
<1>4. ASSUME NEW a \in Actors, swapBufferLocked(a)
      PROVE  Quiet'
  <2>1. logPc' = logPc /\ mode' = mode
    BY <1>4 DEF swapBufferLocked
  <2> QED BY <2>1 DEF Quiet, InPush
<1>5. ASSUME ShutdownWaits
      PROVE  Quiet'
  <2>1. inflight = 0 /\ IsFiniteSet(InPush)
    <3>1. inflight = 0
      BY <1>5 DEF ShutdownWaits, Quiesce
    <3> QED BY <3>1, FS_Subset DEF InPush
  <2>2. InPush = {}
    BY <2>1, FS_EmptySet DEF Counted
  <2>3. InPush' = InPush
    BY <1>5 DEF ShutdownWaits, InPush, ControlTypes
  <2> QED BY <2>2, <2>3 DEF Quiet
<1> QED BY LogNext, <1>1, <1>2, <1>3, <1>4, <1>5 DEF LogNext, Produce, Carry

(* A thread with a buffer is in tlsList_.                                  *)
LEMMA ListedKept ==
  ASSUME ControlTypes, DataTypes, Routes, Hands, Listed, LogNext
  PROVE  Listed'
<1> USE LoggerAssumption
    DEF flags, counts, work, Actors, Move, IsAt, Enter, Log, After, Points, Carrying, Modes,
        PushPoints, FlushPoints, MainPoints, Routes
<1>1. ASSUME NEW a \in Actors, Claim(a) \/ Publish(a) \/ CountIn(a) \/ Collect(a) \/
                               swapBufferLocked(a) \/ Collected(a) \/ Target(a) \/
                               FlushWaits(a)
      PROVE  Listed'
  BY <1>1
  DEF ControlTypes, DataTypes, Listed, Claim, Publish, CountIn, Collect, swapBufferLocked,
      Collected, Target, FlushWaits
<1>2. ASSUME Beat \/ WriterPops \/ WriterWrites \/ WriterTells \/ Shutdown \/ ShutdownWaits
             \/ ShutdownStops \/ ShutdownJoins \/ ShutdownDrains
      PROVE  Listed'
  BY <1>2
  DEF ControlTypes, DataTypes, Listed, Beat, WriterPops, WriterWrites, WriterTells, Shutdown,
      ShutdownWaits, ShutdownStops, ShutdownJoins, ShutdownDrains
<1>3. ASSUME NEW p \in Producers, Push(p)
      PROVE  Listed'
  BY <1>3
  DEF ControlTypes, DataTypes, Listed, Push
<1>4. ASSUME NEW p \in Producers, Fatal(p)
      PROVE  Listed'
  BY <1>4
  DEF ControlTypes, DataTypes, Listed, Fatal
<1>5. ASSUME NEW p \in Producers, PushEnter(p)
      PROVE  Listed'
  BY <1>5
  DEF ControlTypes, DataTypes, Listed, PushEnter
<1>6. ASSUME NEW p \in Producers, PushCheck(p)
      PROVE  Listed'
  BY <1>6
  DEF ControlTypes, DataTypes, Listed, PushCheck
<1>7. ASSUME NEW p \in Producers, PushUndo(p)
      PROVE  Listed'
  BY <1>7
  DEF ControlTypes, DataTypes, Listed, PushUndo
<1>8. ASSUME NEW p \in Producers, getOrCreateTls(p)
      PROVE  Listed'
  BY <1>8
  DEF ControlTypes, DataTypes, Listed, getOrCreateTls
<1>9. ASSUME NEW p \in Producers, PushPut(p)
      PROVE  Listed'
  BY <1>9
  DEF ControlTypes, DataTypes, Listed, PushPut
<1>10. ASSUME NEW p \in Producers, WriteSync(p)
       PROVE  Listed'
  BY <1>10
  DEF ControlTypes, DataTypes, Listed, WriteSync
<1>11. ASSUME NEW p \in Producers, PushOut(p)
       PROVE  Listed'
  BY <1>11
  DEF ControlTypes, DataTypes, Listed, PushOut
<1>12. ASSUME NEW p \in Producers, tlsDestructor(p)
       PROVE  Listed'
  BY <1>12
  DEF ControlTypes, DataTypes, Listed, tlsDestructor
<1>13. ASSUME NEW p \in Producers, Unlist(p)
       PROVE  Listed'
  BY <1>13
  DEF ControlTypes, DataTypes, Listed, Unlist
<1> QED BY LogNext, <1>1, <1>2, <1>3, <1>4, <1>5, <1>6, <1>7, <1>8, <1>9, <1>10, <1>11, <1>12,
           <1>13 DEF LogNext, Produce, Carry

(* Every step keeps the types of the buffers.                              *)
LEMMA DataTypesKept ==
  ASSUME ControlTypes, DataTypes, Routes, Hands, LogNext
  PROVE  DataTypes'
<1> USE LoggerAssumption
    DEF flags, counts, work, Actors, Move, IsAt, Enter, Log, After, Points, Carrying, Modes,
        PushPoints, FlushPoints, MainPoints, Routes
<1>1. ASSUME NEW p \in Producers, PushEnter(p) \/ PushCheck(p) \/ PushUndo(p) \/
                                  getOrCreateTls(p) \/ PushOut(p) \/ Unlist(p)
      PROVE  DataTypes'
  BY <1>1
  DEF ControlTypes, DataTypes, Cells, Buffers, Records, Write, PushEnter, PushCheck, PushUndo,
      getOrCreateTls, PushOut, Unlist
<1>2. ASSUME NEW a \in Actors, CountIn(a) \/ Collect(a) \/ Collected(a) \/ Target(a) \/
                               FlushWaits(a)
      PROVE  DataTypes'
  BY <1>2
  DEF ControlTypes, DataTypes, Cells, Buffers, Records, Write, CountIn, Collect, Collected,
      Target, FlushWaits
<1>3. ASSUME Beat \/ WriterTells \/ Shutdown \/ ShutdownWaits \/ ShutdownStops \/
             ShutdownJoins
      PROVE  DataTypes'
  BY <1>3
  DEF ControlTypes, DataTypes, Cells, Buffers, Records, Write, Beat, WriterTells, Shutdown,
      ShutdownWaits, ShutdownStops, ShutdownJoins
<1>4. ASSUME NEW p \in Producers, Push(p)
      PROVE  DataTypes'
  BY <1>4
  DEF ControlTypes, DataTypes, Cells, Buffers, Records, Write, Push
<1>5. ASSUME NEW p \in Producers, Fatal(p)
      PROVE  DataTypes'
  BY <1>5
  DEF ControlTypes, DataTypes, Cells, Buffers, Records, Write, Fatal
<1>6. ASSUME WriterWrites
      PROVE  DataTypes'
  BY <1>6
  DEF ControlTypes, DataTypes, Cells, Buffers, Records, Write, WriterWrites
<1>7. ASSUME NEW p \in Producers, PushPut(p)
      PROVE  DataTypes'
  <2>1. PICK buf : buf = Append(current[p], Record(p))
    OBVIOUS
  <2>2. buf \in Buffers /\ <<>> \in Buffers /\ <<buf>> \in Seq(Buffers)
    BY <2>1 DEF ControlTypes, DataTypes, Record, Records, Buffers
  <2>3. /\ \E x \in Buffers : current' = [current EXCEPT ![p] = x]
        /\ \E y \in Seq(Buffers) : hand' = [hand EXCEPT ![p] = y]
    BY <1>7, <2>1, <2>2 DEF PushPut, DataTypes
  <2>4. ring' = ring /\ batch' = batch /\ written' = written
    BY <1>7 DEF PushPut
  <2> QED BY <2>3, <2>4 DEF DataTypes
<1>8. ASSUME NEW p \in Producers, WriteSync(p)
      PROVE  DataTypes'
  <2>1. /\ hand' = hand /\ current' = current /\ ring' = ring /\ batch' = batch
        /\ written' = written \o <<Record(p)>>
    BY <1>8 DEF WriteSync, Write
  <2>2. Record(p) \in Records
    BY DEF ControlTypes, Record, Records
  <2>3. written' \in Buffers
    BY <2>1, <2>2 DEF DataTypes, Buffers
  <2> QED BY <2>1, <2>3 DEF DataTypes
<1>9. ASSUME NEW p \in Producers, tlsDestructor(p)
      PROVE  DataTypes'
  <2>1. /\ \E y \in Seq(Buffers) : hand' = [hand EXCEPT ![p] = y]
        /\ current' = [current EXCEPT ![p] = <<>>]
        /\ ring' = ring /\ batch' = batch /\ written' = written
    <3>1. current[p] \in Buffers /\ <<>> \in Seq(Buffers) /\ <<current[p]>> \in Seq(Buffers)
      BY DEF DataTypes
    <3> QED BY <1>9, <3>1 DEF tlsDestructor
  <2>2. <<>> \in Buffers
    BY DEF Buffers
  <2> QED BY <2>1, <2>2 DEF DataTypes
<1>10. ASSUME NEW a \in Actors, Claim(a)
       PROVE  DataTypes'
  <2>1. hand[a] \in Seq(Buffers) /\ hand[a] # <<>>
    BY <1>10 DEF Claim, Hands, DataTypes
  <2>2. Head(hand[a]) \in Buffers /\ Tail(hand[a]) \in Seq(Buffers)
    BY <2>1
  <2>3. PICK c : c = [by |-> a, how |-> mode[a], buf |-> Head(hand[a]), ready |-> FALSE]
    OBVIOUS
  <2>4. c \in Cells
    BY <2>2, <2>3 DEF Cells, ControlTypes
  <2>5. /\ ring' = Append(ring, c) /\ hand' = [hand EXCEPT ![a] = Tail(hand[a])]
        /\ current' = current /\ batch' = batch /\ written' = written
    BY <1>10, <2>3 DEF Claim, DataTypes
  <2> QED BY <2>2, <2>4, <2>5 DEF DataTypes
<1>11. ASSUME NEW a \in Actors, Publish(a)
       PROVE  DataTypes'
  <2>1. /\ hand' = hand /\ current' = current /\ batch' = batch /\ written' = written
        /\ ring' = [k \in DOMAIN ring |->
                     IF ring[k].by = a THEN [ring[k] EXCEPT !.ready = TRUE] ELSE ring[k]]
    BY <1>11 DEF Publish
  <2>2. PICK n \in Nat : n = Len(ring) /\ DOMAIN ring = 1..n /\ ring \in [1..n -> Cells]
    BY DEF DataTypes
  <2>3. ring' \in [1..n -> Cells]
    BY <2>1, <2>2 DEF Cells
  <2>4. ring' \in Seq(Cells)
    BY <2>3
  <2> QED BY <2>1, <2>4 DEF DataTypes
<1>12. ASSUME NEW a \in Actors, swapBufferLocked(a)
       PROVE  DataTypes'
  <2>1. PICK q \in todo[a] :
          /\ hand' = [hand EXCEPT ![a] = IF current[q] = <<>> THEN @ ELSE Append(@, current[q])]
          /\ current' = [current EXCEPT ![q] = <<>>]
    BY <1>12 DEF swapBufferLocked
  <2>2. ring' = ring /\ batch' = batch /\ written' = written
    BY <1>12 DEF swapBufferLocked
  <2>3. q \in Producers /\ current[q] \in Buffers /\ <<>> \in Buffers /\ hand[a] \in Seq(Buffers)
    BY <2>1 DEF ControlTypes, DataTypes, Buffers
  <2>4. PICK y : y = IF current[q] = <<>> THEN hand[a] ELSE Append(hand[a], current[q])
    OBVIOUS
  <2>5. y \in Seq(Buffers) /\ hand' = [hand EXCEPT ![a] = y]
    BY <2>1, <2>3, <2>4 DEF DataTypes
  <2> QED BY <2>1, <2>2, <2>3, <2>5 DEF DataTypes
<1>13. ASSUME WriterPops
       PROVE  DataTypes'
  <2>1. hand' = hand /\ current' = current /\ written' = written
    BY <1>13 DEF WriterPops
  <2>2. CASE Poppable /\ batch' = Head(ring).buf /\ ring' = Tail(ring)
    <3>1. ring \in Seq(Cells) /\ ring # <<>>
      BY <2>2 DEF Poppable, DataTypes
    <3>2. Head(ring) \in Cells /\ Tail(ring) \in Seq(Cells)
      BY <3>1
    <3> QED BY <2>1, <2>2, <3>2 DEF DataTypes, Cells
  <2>3. CASE UNCHANGED <<batch, ring>>
    BY <2>1, <2>3 DEF DataTypes
  <2> QED BY <1>13, <2>2, <2>3 DEF WriterPops
<1>14. ASSUME ShutdownDrains
       PROVE  DataTypes'
  <2>1. hand' = hand /\ current' = current /\ batch' = batch
    BY <1>14 DEF ShutdownDrains
  <2>2. CASE Poppable /\ Write(Head(ring).buf) /\ ring' = Tail(ring)
    <3>1. ring \in Seq(Cells) /\ ring # <<>>
      BY <2>2 DEF Poppable, DataTypes
    <3>2. Head(ring) \in Cells /\ Tail(ring) \in Seq(Cells)
      BY <3>1
    <3>3. written' \in Buffers
      BY <2>2, <3>2 DEF Write, DataTypes, Cells, Buffers
    <3> QED BY <2>1, <2>2, <3>2, <3>3 DEF DataTypes
  <2>3. CASE UNCHANGED <<ring, written>>
    BY <2>1, <2>3 DEF DataTypes
  <2> QED BY <1>14, <2>2, <2>3 DEF ShutdownDrains
<1> QED BY LogNext, <1>1, <1>2, <1>3, <1>4, <1>5, <1>6, <1>7, <1>8, <1>9, <1>10, <1>11, <1>12,
           <1>13, <1>14 DEF LogNext, Produce, Carry

(* A thread holds buffers while it collects and enqueues, and then only.   *)
LEMMA HandsKept ==
  ASSUME ControlTypes, DataTypes, Routes, Hands, LogNext
  PROVE  Hands'
<1> USE LoggerAssumption
    DEF flags, counts, work, Actors, Move, IsAt, Enter, Log, After, Points, Carrying, Modes,
        PushPoints, FlushPoints, MainPoints, Routes
<1>1. ASSUME Beat \/ WriterWrites \/ WriterTells \/ Shutdown \/ ShutdownWaits \/
             ShutdownStops \/ ShutdownJoins \/ ShutdownDrains
      PROVE  Hands'
  BY <1>1
  DEF ControlTypes, DataTypes, Hands, Beat, WriterWrites, WriterTells, Shutdown, ShutdownWaits,
      ShutdownStops, ShutdownJoins, ShutdownDrains
<1>2. ASSUME NEW p \in Producers, Push(p)
      PROVE  Hands'
  BY <1>2
  DEF ControlTypes, DataTypes, Hands, Push
<1>3. ASSUME NEW p \in Producers, Fatal(p)
      PROVE  Hands'
  BY <1>3
  DEF ControlTypes, DataTypes, Hands, Fatal
<1>4. ASSUME NEW p \in Producers, PushEnter(p)
      PROVE  Hands'
  BY <1>4
  DEF ControlTypes, DataTypes, Hands, PushEnter
<1>5. ASSUME NEW p \in Producers, PushCheck(p)
      PROVE  Hands'
  BY <1>5
  DEF ControlTypes, DataTypes, Hands, PushCheck
<1>6. ASSUME NEW p \in Producers, PushUndo(p)
      PROVE  Hands'
  BY <1>6
  DEF ControlTypes, DataTypes, Hands, PushUndo
<1>7. ASSUME NEW p \in Producers, getOrCreateTls(p)
      PROVE  Hands'
  BY <1>7
  DEF ControlTypes, DataTypes, Hands, getOrCreateTls
<1>8. ASSUME NEW p \in Producers, PushPut(p)
      PROVE  Hands'
  BY <1>8
  DEF ControlTypes, DataTypes, Hands, PushPut
<1>9. ASSUME NEW p \in Producers, PushOut(p)
      PROVE  Hands'
  BY <1>9
  DEF ControlTypes, DataTypes, Hands, PushOut
<1>10. ASSUME NEW p \in Producers, tlsDestructor(p)
       PROVE  Hands'
  BY <1>10
  DEF ControlTypes, DataTypes, Hands, tlsDestructor
<1>11. ASSUME NEW p \in Producers, Unlist(p)
       PROVE  Hands'
  BY <1>11
  DEF ControlTypes, DataTypes, Hands, Unlist
<1>12. ASSUME NEW a \in Actors, Claim(a)
       PROVE  Hands'
  BY <1>12
  DEF ControlTypes, DataTypes, Hands, Claim
<1>13. ASSUME NEW a \in Actors, Publish(a)
       PROVE  Hands'
  BY <1>13
  DEF ControlTypes, DataTypes, Hands, Publish
<1>14. ASSUME NEW a \in Actors, CountIn(a)
       PROVE  Hands'
  BY <1>14
  DEF ControlTypes, DataTypes, Hands, CountIn
<1>15. ASSUME NEW a \in Actors, Collect(a)
       PROVE  Hands'
  BY <1>15
  DEF ControlTypes, DataTypes, Hands, Collect
<1>16. ASSUME NEW a \in Actors, Collected(a)
       PROVE  Hands'
  BY <1>16
  DEF ControlTypes, DataTypes, Hands, Collected
<1>17. ASSUME NEW a \in Actors, Target(a)
       PROVE  Hands'
  BY <1>17
  DEF ControlTypes, DataTypes, Hands, Target
<1>18. ASSUME NEW a \in Actors, FlushWaits(a)
       PROVE  Hands'
  BY <1>18
  DEF ControlTypes, DataTypes, Hands, FlushWaits
<1>19. ASSUME NEW p \in Producers, WriteSync(p)
       PROVE  Hands'
  <2>1. /\ hand' = hand
        /\ logPc' = [logPc EXCEPT ![p] = "idle"] \/ logPc' = [logPc EXCEPT ![p] = "out"]
        /\ logPc[p] \in {"sync", "late"}
    BY <1>19 DEF WriteSync
  <2> QED BY <2>1 DEF Hands, ControlTypes
<1>20. ASSUME NEW a \in Actors, swapBufferLocked(a)
       PROVE  Hands'
  <2>1. logPc' = logPc /\ logPc[a] = "swap"
    BY <1>20 DEF swapBufferLocked
  <2>2. \A b \in Actors : b # a => hand'[b] = hand[b]
    <3>1. PICK q \in todo[a] :
            hand' = [hand EXCEPT ![a] = IF current[q] = <<>> THEN @ ELSE Append(@, current[q])]
      BY <1>20 DEF swapBufferLocked
    <3> QED BY <3>1 DEF DataTypes
  <2> QED BY <2>1, <2>2 DEF Hands
<1>21. ASSUME WriterPops
       PROVE  Hands'
  <2>1. /\ hand' = hand /\ logPc["writer"] = "pop"
        /\ \/ logPc' = [logPc EXCEPT !["writer"] = "write"]
           \/ logPc' = [logPc EXCEPT !["writer"] = "gone"]
    BY <1>21 DEF WriterPops
  <2> QED BY <2>1 DEF Hands, ControlTypes
<1> QED BY LogNext, <1>1, <1>2, <1>3, <1>4, <1>5, <1>6, <1>7, <1>8, <1>9, <1>10, <1>11, <1>12,
           <1>13, <1>14, <1>15, <1>16, <1>17, <1>18, <1>19, <1>20, <1>21 DEF LogNext, Produce, Carry

(* A thread that is not about to publish may go on, and the ring may lose  *)
(* its first cell.                                                         *)
LEMMA StillClaimed ==
  ASSUME ControlTypes, DataTypes, RingClaims, NEW a, logPc[a] # "publish",
         \A b \in Actors \ {a} : logPc'[b] = logPc[b] /\ mode'[b] = mode[b],
         ring' = ring \/ (ring # <<>> /\ ring' = Tail(ring))
  PROVE  RingClaims'
<1> SUFFICES ASSUME NEW k \in DOMAIN ring'
             PROVE  Claimed(ring'[k], logPc', mode')
  BY DEF RingClaims
<1>1. PICK j \in DOMAIN ring : ring'[k] = ring[j] /\ ring[j] \in Cells
  <2>1. CASE ring' = ring
    BY <2>1 DEF DataTypes
  <2>2. CASE ring # <<>> /\ ring' = Tail(ring)
    <3>1. k + 1 \in DOMAIN ring /\ ring'[k] = ring[k + 1]
      BY <2>2 DEF DataTypes
    <3> QED BY <3>1 DEF DataTypes
  <2> QED BY <2>1, <2>2
<1>2. Claimed(ring[j], logPc, mode)
  BY <1>1 DEF RingClaims
<1> QED BY <1>1, <1>2 DEF Claimed, Cells

(* A cell that is not published yet is of a thread that is about to        *)
(* publish it.                                                             *)
LEMMA RingClaimsKept ==
  ASSUME ControlTypes, DataTypes, Routes, RingClaims, LogNext
  PROVE  RingClaims'
<1> USE LoggerAssumption
    DEF flags, counts, work, Actors, Move, IsAt, Enter, Log, After, Points, Carrying, Modes,
        PushPoints, FlushPoints, MainPoints, Routes
<1>1. ASSUME NEW p \in Producers, Push(p) \/ Fatal(p) \/ PushEnter(p) \/ PushCheck(p) \/
                                  PushUndo(p) \/ getOrCreateTls(p) \/ PushPut(p) \/
                                  WriteSync(p) \/ PushOut(p) \/ tlsDestructor(p) \/
                                  Unlist(p)
      PROVE  RingClaims'
  <2>1. /\ logPc[p] # "publish"
        /\ \A b \in Actors \ {p} : logPc'[b] = logPc[b] /\ mode'[b] = mode[b]
        /\ ring' = ring \/ (ring # <<>> /\ ring' = Tail(ring))
    BY <1>1
    DEF Push, Fatal, PushEnter, PushCheck, PushUndo, getOrCreateTls, PushPut, WriteSync,
        PushOut, tlsDestructor, Unlist, Poppable, ControlTypes
  <2> QED BY <2>1, StillClaimed
<1>2. ASSUME NEW a \in Actors, Claim(a)
      PROVE  RingClaims'
  <2>1. /\ logPc[a] = "claim" /\ logPc' = [logPc EXCEPT ![a] = "publish"] /\ mode' = mode
        /\ ring' = Append(ring, [by |-> a, how |-> mode[a], buf |-> Head(hand[a]), ready |-> FALSE])
    BY <1>2 DEF Claim
  <2>2. ring \in Seq(Cells) /\ DOMAIN ring = 1..Len(ring)
    BY DEF DataTypes
  <2> SUFFICES ASSUME NEW k \in DOMAIN ring'
               PROVE  Claimed(ring'[k], logPc', mode')
    BY DEF RingClaims
  <2>3. CASE k \in DOMAIN ring
    <3>1. ring'[k] = ring[k] /\ ring[k] \in Cells /\ Claimed(ring[k], logPc, mode)
      BY <2>1, <2>2, <2>3 DEF RingClaims
    <3> QED BY <2>1, <3>1 DEF Claimed, Cells, ControlTypes
  <2>4. CASE k = Len(ring) + 1
    <3>1. ring'[k] = [by |-> a, how |-> mode[a], buf |-> Head(hand[a]), ready |-> FALSE]
      BY <2>1, <2>2, <2>4
    <3> QED BY <2>1, <3>1 DEF Claimed, ControlTypes
  <2>5. k \in DOMAIN ring \/ k = Len(ring) + 1
    BY <2>1, <2>2
  <2> QED BY <2>3, <2>4, <2>5
<1>3. ASSUME NEW a \in Actors, Publish(a)
      PROVE  RingClaims'
  <2>1. /\ logPc' = [logPc EXCEPT ![a] = "count"] /\ mode' = mode
        /\ ring' = [k \in DOMAIN ring |->
                     IF ring[k].by = a THEN [ring[k] EXCEPT !.ready = TRUE] ELSE ring[k]]
    BY <1>3 DEF Publish
  <2> SUFFICES ASSUME NEW k \in DOMAIN ring
               PROVE  Claimed(ring'[k], logPc', mode')
    BY <2>1 DEF RingClaims
  <2>2. ring[k] \in Cells /\ Claimed(ring[k], logPc, mode)
    BY DEF DataTypes, RingClaims
  <2>3. CASE ring[k].by = a
    <3>1. ring'[k].ready = TRUE
      BY <2>1, <2>2, <2>3 DEF Cells
    <3> QED BY <3>1 DEF Claimed
  <2>4. CASE ring[k].by # a
    BY <2>1, <2>2, <2>4 DEF Claimed, Cells, ControlTypes
  <2> QED BY <2>3, <2>4
<1>4. ASSUME NEW a \in Actors, CountIn(a) \/ Collect(a) \/ swapBufferLocked(a) \/
                               Collected(a) \/ Target(a) \/ FlushWaits(a)
      PROVE  RingClaims'
  <2>1. /\ logPc[a] # "publish"
        /\ \A b \in Actors \ {a} : logPc'[b] = logPc[b] /\ mode'[b] = mode[b]
        /\ ring' = ring \/ (ring # <<>> /\ ring' = Tail(ring))
    BY <1>4
    DEF CountIn, Collect, swapBufferLocked, Collected, Target, FlushWaits, Poppable,
        ControlTypes
  <2> QED BY <2>1, StillClaimed
<1>5. ASSUME Beat
      PROVE  RingClaims'
  <2>1. /\ logPc["heartbeat"] # "publish"
        /\ \A b \in Actors \ {"heartbeat"} : logPc'[b] = logPc[b] /\ mode'[b] = mode[b]
        /\ ring' = ring \/ (ring # <<>> /\ ring' = Tail(ring))
    BY <1>5 DEF Beat, Poppable, ControlTypes
  <2> QED BY <2>1, StillClaimed
<1>6. ASSUME WriterPops \/ WriterWrites \/ WriterTells
      PROVE  RingClaims'
  <2>1. /\ logPc["writer"] # "publish"
        /\ \A b \in Actors \ {"writer"} : logPc'[b] = logPc[b] /\ mode'[b] = mode[b]
        /\ ring' = ring \/ (ring # <<>> /\ ring' = Tail(ring))
    BY <1>6 DEF WriterPops, WriterWrites, WriterTells, Poppable, ControlTypes
  <2> QED BY <2>1, StillClaimed
<1>7. ASSUME Shutdown \/ ShutdownWaits \/ ShutdownStops \/ ShutdownJoins \/ ShutdownDrains
      PROVE  RingClaims'
  <2>1. /\ logPc["main"] # "publish"
        /\ \A b \in Actors \ {"main"} : logPc'[b] = logPc[b] /\ mode'[b] = mode[b]
        /\ ring' = ring \/ (ring # <<>> /\ ring' = Tail(ring))
    BY <1>7 DEF Shutdown, ShutdownWaits, ShutdownStops, ShutdownJoins, ShutdownDrains, Poppable,
        ControlTypes
  <2> QED BY <2>1, StillClaimed
<1> QED BY LogNext, <1>1, <1>2, <1>3, <1>4, <1>5, <1>6, <1>7 DEF LogNext, Produce, Carry

(* When main is past its joins nobody but an exiting or flushing thread    *)
(* can keep the ring from being emptied.                                   *)
LEMMA OverKept ==
  ASSUME ControlTypes, DataTypes, Routes, Hands, RingClaims, Quiet, Over, LogNext
  PROVE  Over'
<1> USE LoggerAssumption
    DEF flags, counts, work, Actors, Move, IsAt, Enter, Log, After, Points, Carrying, Modes,
        PushPoints, FlushPoints, MainPoints, Routes
<1>1. ASSUME NEW p \in Producers, Push(p) \/ Fatal(p) \/ PushEnter(p) \/ PushCheck(p) \/
                                  PushUndo(p) \/ getOrCreateTls(p) \/ PushPut(p) \/
                                  WriteSync(p) \/ PushOut(p) \/ tlsDestructor(p) \/
                                  Unlist(p)
      PROVE  Over'
  BY <1>1
  DEF ControlTypes, DataTypes, Over, Quiet, Past, InPush, Inflight, Late, Stray, Push, Fatal,
      PushEnter, PushCheck, PushUndo, getOrCreateTls, PushPut, WriteSync, PushOut, tlsDestructor,
      Unlist
<1>2. ASSUME Beat \/ WriterWrites \/ WriterTells \/ Shutdown \/ ShutdownWaits \/
             ShutdownStops \/ ShutdownJoins
      PROVE  Over'
  BY <1>2
  DEF ControlTypes, DataTypes, Over, Quiet, Past, InPush, Inflight, Late, Stray, Beat,
      WriterWrites, WriterTells, Shutdown, ShutdownWaits, ShutdownStops, ShutdownJoins
<1>3. ASSUME NEW a \in Actors, CountIn(a)
      PROVE  Over'
  BY <1>3
  DEF ControlTypes, DataTypes, Over, Quiet, Past, InPush, Inflight, Late, Stray, CountIn
<1>4. ASSUME NEW a \in Actors, Collect(a)
      PROVE  Over'
  BY <1>4
  DEF ControlTypes, DataTypes, Over, Quiet, Past, InPush, Inflight, Late, Stray, Collect
<1>5. ASSUME NEW a \in Actors, Collected(a)
      PROVE  Over'
  BY <1>5
  DEF ControlTypes, DataTypes, Over, Quiet, Past, InPush, Inflight, Late, Stray, Collected
<1>6. ASSUME NEW a \in Actors, Target(a)
      PROVE  Over'
  BY <1>6
  DEF ControlTypes, DataTypes, Over, Quiet, Past, InPush, Inflight, Late, Stray, Target
<1>7. ASSUME NEW a \in Actors, FlushWaits(a)
      PROVE  Over'
  BY <1>7
  DEF ControlTypes, DataTypes, Over, Quiet, Past, InPush, Inflight, Late, Stray, FlushWaits
<1>8. ASSUME NEW a \in Actors, Claim(a)
      PROVE  Over'
  <2>1. /\ logPc[a] = "claim" /\ logPc' = [logPc EXCEPT ![a] = "publish"]
        /\ ring' = Append(ring, [by |-> a, how |-> mode[a], buf |-> Head(hand[a]), ready |-> FALSE])
    BY <1>8 DEF Claim
  <2>2. ASSUME logPc["main"] = "done" PROVE mode[a] \in Stray
    BY <2>1, <2>2 DEF Over, Quiet, Past, InPush, Inflight, Late, Stray, ControlTypes
  <2>3. /\ logPc'["main"] \in {"rest", "done"} => logPc["main"] = logPc'["main"]
        /\ logPc["main"] \in {"rest", "done"} => a \notin {"heartbeat", "writer", "main"}
    BY <2>1 DEF Over, ControlTypes
  <2>4. ring'[1] = IF ring = <<>> THEN [by |-> a, how |-> mode[a], buf |-> Head(hand[a]),
                                        ready |-> FALSE] ELSE ring[1]
    BY <2>1 DEF DataTypes
  <2>5. logPc'["main"] = "done" => ring'[1].how \in Stray
    BY <2>2, <2>3, <2>4 DEF Over
  <2> QED BY <2>1, <2>3, <2>5 DEF Over, ControlTypes
<1>9. ASSUME NEW a \in Actors, Publish(a)
      PROVE  Over'
  <2>1. /\ logPc[a] = "publish" /\ logPc' = [logPc EXCEPT ![a] = "count"]
        /\ ring' = [k \in DOMAIN ring |->
                     IF ring[k].by = a THEN [ring[k] EXCEPT !.ready = TRUE] ELSE ring[k]]
    BY <1>9 DEF Publish
  <2>2. ring' # <<>> => ring # <<>> /\ ring'[1].how = ring[1].how
    BY <2>1 DEF DataTypes, Cells
  <2> QED BY <2>1, <2>2 DEF Over, ControlTypes
<1>10. ASSUME NEW a \in Actors, swapBufferLocked(a)
       PROVE  Over'
  <2>1. logPc' = logPc /\ ring' = ring
    BY <1>10 DEF swapBufferLocked
  <2> QED BY <2>1 DEF Over
<1>11. ASSUME WriterPops
       PROVE  Over'
  <2>1. logPc["writer"] = "pop" /\ \E to : logPc' = [logPc EXCEPT !["writer"] = to]
    BY <1>11 DEF WriterPops
  <2>2. logPc["main"] \notin {"rest", "done"} /\ logPc'["main"] = logPc["main"]
    BY <2>1 DEF Over, ControlTypes
  <2> QED BY <2>2 DEF Over
<1>12. ASSUME ShutdownDrains
       PROVE  Over'
  <2>1. logPc["main"] = "rest" /\ logPc["heartbeat"] = "gone" /\ logPc["writer"] = "gone"
    BY <1>12 DEF ShutdownDrains, Over
  <2>2. CASE logPc' = logPc
    BY <2>1, <2>2 DEF Over
  <2>3. CASE ~Poppable /\ logPc' = [logPc EXCEPT !["main"] = "done"] /\ ring' = ring
    <3>1. ring # <<>> => ring[1].how \in Stray
      <4> HAVE ring # <<>>
      <4>1. 1 \in DOMAIN ring /\ ring[1] \in Cells /\ ~ring[1].ready
        BY <2>3 DEF DataTypes, Poppable
      <4>2. PICK b \in Actors : b = ring[1].by
        BY <4>1 DEF Cells
      <4>3. logPc[b] = "publish" /\ ring[1].how = mode[b]
        BY <4>1, <4>2 DEF RingClaims, Claimed
      <4>4. b \in Producers
        BY <2>1, <4>3
      <4>5. mode[b] # "push"
        BY <2>1, <4>3, <4>4 DEF Quiet, Past, InPush, Inflight, Late
      <4> QED BY <4>3, <4>4, <4>5 DEF Stray
    <3> QED BY <2>1, <2>3, <3>1 DEF Over, ControlTypes
  <2> QED BY <1>12, <2>2, <2>3 DEF ShutdownDrains
<1> QED BY LogNext, <1>1, <1>2, <1>3, <1>4, <1>5, <1>6, <1>7, <1>8, <1>9, <1>10, <1>11, <1>12
DEF LogNext, Produce, Carry

(* inflight_ is the number of pushes between their two accesses to it.     *)
LEMMA CountedKept ==
  ASSUME ControlTypes, Routes, Counted, LogNext
  PROVE  Counted'
<1> USE LoggerAssumption
    DEF flags, counts, work, Actors, Move, IsAt, Enter, Log, After, Points, Carrying, Modes,
        PushPoints, FlushPoints, MainPoints, Routes
<1>1. ASSUME NEW p \in Producers, Push(p) \/ Fatal(p) \/ PushCheck(p) \/ getOrCreateTls(p)
                                  \/ PushPut(p) \/ WriteSync(p) \/ tlsDestructor(p) \/
                                  Unlist(p)
      PROVE  Counted'
  <2>1. InPush' = InPush /\ inflight' = inflight
    BY <1>1
    DEF InPush, Inflight, ControlTypes, Push, Fatal, PushCheck, getOrCreateTls, PushPut,
        WriteSync, tlsDestructor, Unlist
  <2> QED BY <2>1 DEF Counted
<1>2. ASSUME NEW p \in Producers, PushEnter(p)
      PROVE  Counted'
  <2>1. InPush' = InPush \cup {p} /\ p \notin InPush /\ inflight' = inflight + 1
    BY <1>2 DEF InPush, Inflight, ControlTypes, PushEnter
  <2>2. IsFiniteSet(InPush)
    BY FS_Subset DEF InPush
  <2> QED BY <2>1, <2>2, FS_AddElement, FS_CardinalityType DEF Counted
<1>3. ASSUME NEW p \in Producers, PushUndo(p)
      PROVE  Counted'
  <2>1. InPush' = InPush \ {p} /\ p \in InPush /\ inflight' = inflight - 1
    BY <1>3 DEF InPush, Inflight, ControlTypes, PushUndo
  <2>2. IsFiniteSet(InPush)
    BY FS_Subset DEF InPush
  <2> QED BY <2>1, <2>2, FS_RemoveElement, FS_CardinalityType DEF Counted
<1>4. ASSUME NEW p \in Producers, PushOut(p)
      PROVE  Counted'
  <2>1. InPush' = InPush \ {p} /\ p \in InPush /\ inflight' = inflight - 1
    BY <1>4 DEF InPush, Inflight, ControlTypes, PushOut
  <2>2. IsFiniteSet(InPush)
    BY FS_Subset DEF InPush
  <2> QED BY <2>1, <2>2, FS_RemoveElement, FS_CardinalityType DEF Counted
<1>5. ASSUME NEW a \in Actors, Claim(a) \/ Publish(a) \/ CountIn(a) \/ Collect(a) \/
                               swapBufferLocked(a) \/ Collected(a) \/ Target(a) \/
                               FlushWaits(a)
      PROVE  Counted'
  <2>1. InPush' = InPush /\ inflight' = inflight
    BY <1>5
    DEF InPush, Inflight, ControlTypes, Claim, Publish, CountIn, Collect, swapBufferLocked,
        Collected, Target, FlushWaits
  <2> QED BY <2>1 DEF Counted
<1>6. ASSUME Beat \/ WriterPops \/ WriterWrites \/ WriterTells \/ Shutdown \/ ShutdownWaits
             \/ ShutdownStops \/ ShutdownJoins \/ ShutdownDrains
      PROVE  Counted'
  <2>1. InPush' = InPush /\ inflight' = inflight
    BY <1>6
    DEF InPush, Inflight, ControlTypes, Beat, WriterPops, WriterWrites, WriterTells, Shutdown,
        ShutdownWaits, ShutdownStops, ShutdownJoins, ShutdownDrains
  <2> QED BY <2>1 DEF Counted
<1> QED BY LogNext, <1>1, <1>2, <1>3, <1>4, <1>5, <1>6 DEF LogNext, Produce, Carry

(* T has one member if S has one, and none if S has none.                  *)
Fits(S, T) == (S = {} => T = {}) /\ \A x : S = {x} => \E y : T = {y}

(* The places of r in buffer b, when b is cell m of the ring,              *)
AtCell(m, r, b) == {<<"ring", m, k>> : k \in Where(r, b)}
(* its place when record s is number m of the buffer of p,                 *)
AtCurrent(p, m, r, s) == IF r = s THEN {<<"current", p, m>>} ELSE {}
(* its places when b is number m in the hand of a,                         *)
AtHand(a, m, r, b) == {<<"hand", a, m, k>> : k \in Where(r, b)}
(* and when b is m records into the buffer with name n.                    *)
Further(n, m, r, b) == {<<n, m + k>> : k \in Where(r, b)}

(* A set fits itself.                                                      *)
LEMMA FitsSame == ASSUME NEW S PROVE Fits(S, S)
  BY DEF Fits

(* What lies beside both sets does not matter.                             *)
LEMMA FitsBeside ==
  ASSUME NEW A, NEW S, NEW T, \A x \in A : x \notin S, Fits(S, T)
  PROVE  Fits(A \cup S, A \cup T)
<1>1. ASSUME A \cup S = {} PROVE A \cup T = {}
  BY <1>1, Zenon DEF Fits
<1>2. ASSUME NEW x, A \cup S = {x} PROVE \E y : A \cup T = {y}
  <2>1. CASE x \in A
    <3>1. A = {x} /\ S = {}
      BY <1>2, <2>1, Zenon
    <3>2. T = {}
      BY <3>1, Zenon DEF Fits
    <3> QED BY <3>1, <3>2, Zenon
  <2>2. CASE x \notin A
    <3>1. A = {} /\ S = {x}
      BY <1>2, <2>2, Zenon
    <3>2. PICK y : T = {y}
      BY <3>1, Zenon DEF Fits
    <3> QED BY <3>1, <3>2, Zenon
  <2> QED BY <2>1, <2>2
<1> QED BY <1>1, <1>2 DEF Fits

(* P is made of A and, apart from it, of S.                                *)
Apart(P, A, S) == P = A \cup S /\ \A x \in A : x \notin S
(* P is made of A and S.                                                   *)
Made(P, A, S) == P = A \cup S

(* So a step that leaves A alone and moves S to T fits.                    *)
LEMMA FitsParts ==
  ASSUME NEW P, NEW Q, NEW A, NEW S, NEW T, Apart(P, A, S), Made(Q, A, T), Fits(S, T)
  PROVE  Fits(P, Q)
<1>1. Fits(A \cup S, A \cup T)
  BY FitsBeside DEF Apart
<1> QED BY <1>1 DEF Apart, Made

(* The image of a set under a function fits it.                            *)
LEMMA FitsImage ==
  ASSUME NEW S, NEW T, NEW F, \A x \in S : F[x] \in T, \A y \in T : \E x \in S : y = F[x]
  PROVE  Fits(S, T)
<1>1. ASSUME S = {} PROVE T = {}
  BY <1>1, Zenon
<1>2. ASSUME NEW x, S = {x} PROVE \E y : T = {y}
  <2>1. T = {F[x]}
    BY <1>2, Zenon
  <2> QED BY <2>1
<1> QED BY <1>1, <1>2 DEF Fits

(* What is a place in the buffers of the threads.                          *)
LEMMA CurrentIs ==
  ASSUME NEW r, NEW c, NEW x
  PROVE  x \in InCurrent(r, c) <=>
           \E p \in Producers : \E k \in DOMAIN c[p] : c[p][k] = r /\ x = <<"current", p, k>>
  BY DEF InCurrent, Where

(* What is a place in the hands of the threads.                            *)
LEMMA HandIs ==
  ASSUME NEW r, NEW h, NEW x
  PROVE  x \in InHand(r, h) <=>
           \E a \in Actors : \E j \in DOMAIN h[a] : \E k \in DOMAIN h[a][j] :
             h[a][j][k] = r /\ x = <<"hand", a, j, k>>
  BY DEF InHand, Where

(* What is a place in the ring.                                            *)
LEMMA RingIs ==
  ASSUME NEW r, NEW g, NEW x
  PROVE  x \in InRing(r, g) <=>
           \E j \in DOMAIN g : \E k \in DOMAIN g[j].buf : g[j].buf[k] = r /\ x = <<"ring", j, k>>
  BY DEF InRing, Where

(* What is a place in a single buffer.                                     *)
LEMMA BufferIs ==
  ASSUME NEW n, NEW r, NEW b, NEW x
  PROVE  x \in InBuffer(n, r, b) <=> \E k \in DOMAIN b : b[k] = r /\ x = <<n, k>>
  BY Zenon DEF InBuffer, Where

(* Places of different kinds are different: buffers of threads,            *)
LEMMA CurrentTag == ASSUME NEW r, NEW c PROVE \A x \in InCurrent(r, c) : x[1] = "current"
  BY CurrentIs
(* hands,                                                                  *)
LEMMA HandTag == ASSUME NEW r, NEW h PROVE \A x \in InHand(r, h) : x[1] = "hand"
  BY HandIs
(* the ring,                                                               *)
LEMMA RingTag == ASSUME NEW r, NEW g PROVE \A x \in InRing(r, g) : x[1] = "ring"
  BY RingIs
(* single buffers,                                                         *)
LEMMA BufferTag == ASSUME NEW n, NEW r, NEW b PROVE \A x \in InBuffer(n, r, b) : x[1] = n
  BY BufferIs

(* Taking the first cell of the ring: its records go to another buffer,    *)
(* and the other cells move up.                                            *)
LEMMA PopFits ==
  ASSUME NEW r, NEW g \in Seq(Cells), g # <<>>, NEW t, t = Tail(g), NEW b, b = Head(g).buf,
         NEW n, NEW m \in Nat
  PROVE  Fits(InRing(r, g), InRing(r, t) \cup Further(n, m, r, b))
<1> DEFINE F == [x \in InRing(r, g) |-> IF x[2] = 1 THEN <<n, m + x[3]>>
                                        ELSE <<"ring", x[2] - 1, x[3]>>]
           B == {<<n, m + k>> : k \in Where(r, b)}
<1>1. ASSUME NEW x \in InRing(r, g)
      PROVE  F[x] \in InRing(r, t) \cup B
  <2>1. PICK j \in DOMAIN g : \E k \in DOMAIN g[j].buf : g[j].buf[k] = r /\ x = <<"ring", j, k>>
    BY RingIs
  <2>2. PICK k \in DOMAIN g[j].buf : g[j].buf[k] = r /\ x = <<"ring", j, k>>
    BY <2>1
  <2>3. CASE j = 1
    <3>1. F[x] = <<n, m + k>> /\ g[j].buf = b
      BY <2>2, <2>3
    <3>2. k \in DOMAIN b /\ b[k] = r
      BY <2>2, <3>1
    <3>3. <<n, m + k>> \in B
      BY <3>2, Zenon DEF Where
    <3> HIDE DEF F, B
    <3> QED BY <3>1, <3>3
  <2>4. CASE j # 1
    <3>1. j - 1 \in DOMAIN t /\ t[j - 1] = g[j]
      BY <2>4
    <3>2. F[x] = <<"ring", j - 1, k>>
      BY <2>2, <2>4
    <3>3. F[x] \in InRing(r, t)
      BY <2>2, <3>1, <3>2, RingIs
    <3> HIDE DEF F, B
    <3> QED BY <3>3
  <2> QED BY <2>3, <2>4
<1>2. ASSUME NEW y \in InRing(r, t)
      PROVE  \E x \in InRing(r, g) : y = F[x]
  <2>1. PICK j \in DOMAIN t : \E k \in DOMAIN t[j].buf : t[j].buf[k] = r /\ y = <<"ring", j, k>>
    BY ONLY y \in InRing(r, t), RingIs
  <2>2. PICK k \in DOMAIN t[j].buf : t[j].buf[k] = r /\ y = <<"ring", j, k>>
    BY <2>1
  <2>3. j + 1 \in DOMAIN g /\ t[j] = g[j + 1] /\ j + 1 # 1 /\ j + 1 - 1 = j
    BY <2>1
  <2>4. PICK x : x = <<"ring", j + 1, k>>
    OBVIOUS
  <2>5. x \in InRing(r, g)
    BY <2>2, <2>3, <2>4, RingIs
  <2>6. F[x] = <<"ring", j, k>>
    BY <2>3, <2>4, <2>5
  <2> QED BY <2>2, <2>5, <2>6
<1>3. ASSUME NEW y \in B
      PROVE  \E x \in InRing(r, g) : y = F[x]
  <2>1. PICK k \in DOMAIN b : b[k] = r /\ y = <<n, m + k>>
    BY Zenon DEF Where
  <2>2. PICK x : x = <<"ring", 1, k>>
    OBVIOUS
  <2>3. 1 \in DOMAIN g /\ g[1].buf = b
    OBVIOUS
  <2>4. x \in InRing(r, g)
    BY <2>1, <2>2, <2>3, RingIs
  <2>5. F[x] = <<n, m + k>>
    BY <2>2, <2>4
  <2> QED BY <2>1, <2>4, <2>5
<1> HIDE DEF F, B
<1>4. Fits(InRing(r, g), InRing(r, t) \cup B)
  BY <1>1, <1>2, <1>3, FitsImage
<1> QED BY <1>4 DEF B, Further

(* Two steps that fit make one that does.                                  *)
LEMMA FitsAgain ==
  ASSUME NEW S, NEW T, NEW U, Fits(S, T), Fits(T, U)
  PROVE  Fits(S, U)
  BY DEF Fits

(* Writing a batch behind what is written.                                 *)
LEMMA WriteFits ==
  ASSUME NEW r, NEW b \in Buffers, NEW w \in Buffers
  PROVE  /\ InBuffer("written", r, w \o b)
              = InBuffer("written", r, w) \cup Further("written", Len(w), r, b)
         /\ Fits(InBuffer("batch", r, b), Further("written", Len(w), r, b))
<1> DEFINE T == {<<"written", Len(w) + k>> : k \in Where(r, b)}
           m == Len(w)
<1>0. m \in Nat /\ DOMAIN b = 1..Len(b) /\ DOMAIN w = 1..m /\ Len(b) \in Nat
  BY DEF Buffers
<1>1. InBuffer("written", r, w \o b) = InBuffer("written", r, w) \cup T
  <2>1. ASSUME NEW y \in InBuffer("written", r, w \o b)
        PROVE  y \in InBuffer("written", r, w) \cup T
    <3>1. PICK k \in DOMAIN (w \o b) : (w \o b)[k] = r /\ y = <<"written", k>>
      BY Zenon DEF InBuffer, Where
    <3>2. CASE k \in 1..m
      <4>1. k \in DOMAIN w /\ w[k] = r
        BY <1>0, <3>1, <3>2 DEF Buffers
      <4> QED BY <3>1, <4>1, BufferIs
    <3>3. CASE k \notin 1..m
      <4>1. PICK i \in DOMAIN b : k = m + i /\ b[i] = r
        <5>1. k - m \in DOMAIN b /\ (w \o b)[k] = b[k - m] /\ k = m + (k - m)
          BY <1>0, <3>1, <3>3 DEF Buffers
        <5> QED BY <3>1, <5>1
      <4> QED BY <3>1, <4>1 DEF Where
    <3> QED BY <3>2, <3>3
  <2>2. ASSUME NEW y \in InBuffer("written", r, w)
        PROVE  y \in InBuffer("written", r, w \o b)
    <3>1. PICK k \in DOMAIN w : w[k] = r /\ y = <<"written", k>>
      BY BufferIs
    <3>2. k \in DOMAIN (w \o b) /\ (w \o b)[k] = w[k]
      BY <1>0, <3>1 DEF Buffers
    <3> QED BY <3>1, <3>2, BufferIs
  <2>3. ASSUME NEW y \in T
        PROVE  y \in InBuffer("written", r, w \o b)
    <3>1. PICK k \in DOMAIN b : b[k] = r /\ y = <<"written", m + k>>
      BY DEF Where
    <3>2. m + k \in DOMAIN (w \o b) /\ (w \o b)[m + k] = b[k]
      BY <1>0, <3>1 DEF Buffers
    <3> QED BY <3>1, <3>2, BufferIs
  <2> QED BY <2>1, <2>2, <2>3
<1>2. Fits(InBuffer("batch", r, b), T)
  <2> DEFINE F == [x \in InBuffer("batch", r, b) |-> <<"written", m + x[2]>>]
  <2>1. ASSUME NEW x \in InBuffer("batch", r, b) PROVE F[x] \in T
    <3>1. PICK k \in DOMAIN b : b[k] = r /\ x = <<"batch", k>>
      BY BufferIs
    <3>2. F[x] = <<"written", m + k>>
      BY <3>1
    <3> QED BY <3>1, <3>2 DEF Where
  <2>2. ASSUME NEW y \in T PROVE \E x \in InBuffer("batch", r, b) : y = F[x]
    <3>1. PICK k \in DOMAIN b : b[k] = r /\ y = <<"written", m + k>>
      BY DEF Where
    <3>2. <<"batch", k>> \in InBuffer("batch", r, b)
      BY <3>1, BufferIs
    <3>3. F[<<"batch", k>>] = <<"written", m + k>>
      BY <3>2
    <3> QED BY <3>1, <3>2, <3>3
  <2> HIDE DEF F, T
  <2> QED BY <2>1, <2>2, FitsImage
<1> QED BY <1>1, <1>2 DEF Further

(* Taking the buffer of p.                                                 *)
LEMMA TakeFits ==
  ASSUME NEW r, NEW c \in [Producers -> Buffers], NEW p \in Producers,
         NEW d, d = [c EXCEPT ![p] = <<>>], NEW a, NEW m
  PROVE  Fits(InCurrent(r, c), InCurrent(r, d) \cup AtHand(a, m, r, c[p]))
<1> DEFINE F == [x \in InCurrent(r, c) |-> IF x[2] = p THEN <<"hand", a, m, x[3]>> ELSE x]
           T == {<<"hand", a, m, k>> : k \in Where(r, c[p])}
<1>0. d[p] = <<>> /\ \A q \in Producers \ {p} : d[q] = c[q]
  OBVIOUS
<1>1. ASSUME NEW x \in InCurrent(r, c) PROVE F[x] \in InCurrent(r, d) \cup T
  <2>1. PICK q \in Producers : \E k \in DOMAIN c[q] : c[q][k] = r /\ x = <<"current", q, k>>
    BY CurrentIs
  <2>2. PICK k \in DOMAIN c[q] : c[q][k] = r /\ x = <<"current", q, k>>
    BY <2>1
  <2>3. CASE q = p
    <3>1. F[x] = <<"hand", a, m, k>>
      BY <2>2, <2>3
    <3>2. <<"hand", a, m, k>> \in T
      BY <2>2, <2>3, Zenon DEF Where
    <3> HIDE DEF F, T
    <3> QED BY <3>1, <3>2
  <2>4. CASE q # p
    <3>1. x[2] # p
      BY <2>2, <2>4
    <3>2. F[x] = x
      BY <3>1
    <3>3. x \in InCurrent(r, d)
      <4>1. d[q] = c[q]
        BY <1>0, <2>4
      <4> QED BY <2>2, <4>1, CurrentIs
    <3> HIDE DEF F, T
    <3> QED BY <3>2, <3>3
  <2> QED BY <2>3, <2>4
<1>2. ASSUME NEW y \in InCurrent(r, d) PROVE \E x \in InCurrent(r, c) : y = F[x]
  <2>1. PICK q \in Producers : \E k \in DOMAIN d[q] : d[q][k] = r /\ y = <<"current", q, k>>
    BY ONLY y \in InCurrent(r, d), CurrentIs
  <2>2. PICK k \in DOMAIN d[q] : d[q][k] = r /\ y = <<"current", q, k>>
    BY <2>1
  <2>3. q # p
    BY <1>0, <2>2
  <2>4. y \in InCurrent(r, c)
    <3>1. d[q] = c[q]
      BY <1>0, <2>3
    <3> QED BY <2>2, <3>1, CurrentIs
  <2>5. y[2] # p
    BY <2>2, <2>3
  <2>6. F[y] = y
    BY <2>4, <2>5
  <2> QED BY <2>4, <2>6
<1>3. ASSUME NEW y \in T PROVE \E x \in InCurrent(r, c) : y = F[x]
  <2>1. PICK k \in DOMAIN c[p] : c[p][k] = r /\ y = <<"hand", a, m, k>>
    BY Zenon DEF Where
  <2>2. <<"current", p, k>> \in InCurrent(r, c)
    BY <2>1, CurrentIs
  <2>3. F[<<"current", p, k>>] = <<"hand", a, m, k>>
    BY <2>2
  <2> QED BY <2>1, <2>2, <2>3
<1> HIDE DEF F, T
<1>4. Fits(InCurrent(r, c), InCurrent(r, d) \cup T)
  BY ONLY <1>1, <1>2, <1>3, FitsImage
<1> QED BY <1>4 DEF T, AtHand

(* Buffer b is put behind those in the hand of a.                          *)
HandGrown(i, h, a, b) == i = [h EXCEPT ![a] = Append(h[a], b)]

(* The places in the hands are then those of before and those in b.        *)
LEMMA HandAppend ==
  ASSUME NEW r, NEW h \in [Actors -> Seq(Buffers)], NEW a \in Actors, NEW b \in Buffers,
         NEW i, HandGrown(i, h, a, b)
  PROVE  InHand(r, i) = InHand(r, h) \cup AtHand(a, Len(h[a]) + 1, r, b)
<1>0. i = [h EXCEPT ![a] = Append(h[a], b)]
  BY DEF HandGrown
<1> DEFINE m == Len(h[a]) + 1
           T == {<<"hand", a, m, k>> : k \in Where(r, b)}
<1>1. /\ m \in Nat /\ DOMAIN i[a] = DOMAIN h[a] \cup {m} /\ i[a][m] = b
      /\ m \notin DOMAIN h[a] /\ \A j \in DOMAIN h[a] : i[a][j] = h[a][j]
  <2>1. h[a] \in Seq(Buffers) /\ i[a] = Append(h[a], b)
    BY <1>0
  <2> QED BY ONLY <2>1, b \in Buffers
<1>2. \A e \in Actors \ {a} : i[e] = h[e]
  BY <1>0
<1>3. ASSUME NEW x \in InHand(r, i) PROVE x \in InHand(r, h) \cup T
  <2>1. PICK e \in Actors : \E j \in DOMAIN i[e] : \E k \in DOMAIN i[e][j] :
             i[e][j][k] = r /\ x = <<"hand", e, j, k>>
    BY ONLY x \in InHand(r, i), HandIs
  <2>2. PICK j \in DOMAIN i[e] : \E k \in DOMAIN i[e][j] :
             i[e][j][k] = r /\ x = <<"hand", e, j, k>>
    BY <2>1
  <2>3. PICK k \in DOMAIN i[e][j] : i[e][j][k] = r /\ x = <<"hand", e, j, k>>
    BY <2>2
  <2>4. CASE e = a /\ j = m
    <3>1. x = <<"hand", a, m, k>> /\ k \in Where(r, b)
      BY ONLY <1>1, <2>3, <2>4 DEF Where
    <3> QED BY ONLY <3>1
  <2>5. CASE ~(e = a /\ j = m)
    <3>1. j \in DOMAIN h[e] /\ i[e][j] = h[e][j]
      BY ONLY <1>1, <1>2, <2>1, <2>2, <2>5
    <3> QED BY ONLY <2>1, <2>3, <3>1, HandIs
  <2> QED BY <2>4, <2>5
<1>4. ASSUME NEW x \in InHand(r, h) PROVE x \in InHand(r, i)
  <2>1. PICK e \in Actors : \E j \in DOMAIN h[e] : \E k \in DOMAIN h[e][j] :
             h[e][j][k] = r /\ x = <<"hand", e, j, k>>
    BY ONLY x \in InHand(r, h), HandIs
  <2>2. PICK j \in DOMAIN h[e] : \E k \in DOMAIN h[e][j] :
             h[e][j][k] = r /\ x = <<"hand", e, j, k>>
    BY <2>1
  <2>3. j \in DOMAIN i[e] /\ i[e][j] = h[e][j]
    BY ONLY <1>1, <1>2, <2>1, <2>2
  <2> QED BY ONLY <2>1, <2>2, <2>3, HandIs
<1>5. ASSUME NEW x \in T PROVE x \in InHand(r, i)
  <2>1. PICK k \in DOMAIN b : b[k] = r /\ x = <<"hand", a, m, k>>
    BY Zenon DEF Where
  <2>2. m \in DOMAIN i[a] /\ i[a][m] = b
    BY <1>1
  <2> QED BY ONLY <2>1, <2>2, a \in Actors, HandIs
<1> QED BY <1>3, <1>4, <1>5 DEF AtHand

(* A cell with buffer b is put at m, behind those of ring g.               *)
RingGrown(f, g, m, b) ==
  /\ DOMAIN f = DOMAIN g \cup {m} /\ f[m].buf = b
  /\ m \notin DOMAIN g /\ \A j \in DOMAIN g : f[j] = g[j]

(* The places in the ring are then those of before and those in b.         *)
LEMMA RingAppend ==
  ASSUME NEW r, NEW g, NEW f, NEW m, NEW b, RingGrown(f, g, m, b)
  PROVE  InRing(r, f) = InRing(r, g) \cup AtCell(m, r, b)
<1> DEFINE T == {<<"ring", m, k>> : k \in Where(r, b)}
<1>1. /\ DOMAIN f = DOMAIN g \cup {m} /\ f[m].buf = b
      /\ m \notin DOMAIN g /\ \A j \in DOMAIN g : f[j] = g[j]
  BY DEF RingGrown
<1>3. ASSUME NEW x \in InRing(r, f) PROVE x \in InRing(r, g) \cup T
  <2>1. PICK j \in DOMAIN f : \E k \in DOMAIN f[j].buf : f[j].buf[k] = r /\ x = <<"ring", j, k>>
    BY ONLY x \in InRing(r, f), RingIs
  <2>2. PICK k \in DOMAIN f[j].buf : f[j].buf[k] = r /\ x = <<"ring", j, k>>
    BY <2>1
  <2>3. CASE j = m
    <3>1. x = <<"ring", m, k>> /\ k \in Where(r, b)
      BY ONLY <1>1, <2>2, <2>3 DEF Where
    <3> QED BY ONLY <3>1
  <2>4. CASE j # m
    <3>1. j \in DOMAIN g /\ f[j] = g[j]
      BY ONLY <1>1, <2>1, <2>4
    <3> QED BY ONLY <2>2, <3>1, RingIs
  <2> QED BY <2>3, <2>4
<1>4. ASSUME NEW x \in InRing(r, g) PROVE x \in InRing(r, f)
  <2>1. PICK j \in DOMAIN g : \E k \in DOMAIN g[j].buf : g[j].buf[k] = r /\ x = <<"ring", j, k>>
    BY ONLY x \in InRing(r, g), RingIs
  <2>2. j \in DOMAIN f /\ f[j] = g[j]
    BY ONLY <1>1, <2>1
  <2> QED BY ONLY <2>1, <2>2, RingIs
<1>5. ASSUME NEW x \in T PROVE x \in InRing(r, f)
  <2>1. PICK k \in DOMAIN b : b[k] = r /\ x = <<"ring", m, k>>
    BY Zenon DEF Where
  <2>2. m \in DOMAIN f /\ f[m].buf = b
    BY <1>1
  <2> QED BY ONLY <2>1, <2>2, RingIs
<1> QED BY <1>3, <1>4, <1>5 DEF AtCell

(* Claiming a cell for the first buffer in the hand of a.                  *)
LEMMA ClaimFits ==
  ASSUME NEW r, NEW h \in [Actors -> Seq(Buffers)], NEW a \in Actors, h[a] # <<>>,
         NEW i, i = [h EXCEPT ![a] = Tail(h[a])], NEW b, b = Head(h[a]), NEW m
  PROVE  Fits(InHand(r, h), InHand(r, i) \cup AtCell(m, r, b))
<1> DEFINE F == [x \in InHand(r, h) |->
                   IF x[2] # a THEN x
                   ELSE IF x[3] = 1 THEN <<"ring", m, x[4]>> ELSE <<"hand", a, x[3] - 1, x[4]>>]
           T == {<<"ring", m, k>> : k \in Where(r, b)}
<1>1. /\ \A j \in DOMAIN i[a] : j + 1 \in DOMAIN h[a] /\ i[a][j] = h[a][j + 1] /\ j \in Nat \ {0}
      /\ \A j \in DOMAIN h[a] : j # 1 => j - 1 \in DOMAIN i[a] /\ i[a][j - 1] = h[a][j]
      /\ 1 \in DOMAIN h[a] /\ h[a][1] = b
  <2>1. h[a] \in Seq(Buffers) /\ i[a] = Tail(h[a])
    OBVIOUS
  <2> QED BY ONLY <2>1, h[a] # <<>>, b = Head(h[a])
<1>2. \A e \in Actors \ {a} : i[e] = h[e]
  OBVIOUS
<1>3. ASSUME NEW x \in InHand(r, h) PROVE F[x] \in InHand(r, i) \cup T
  <2>1. PICK e \in Actors : \E j \in DOMAIN h[e] : \E k \in DOMAIN h[e][j] :
             h[e][j][k] = r /\ x = <<"hand", e, j, k>>
    BY ONLY x \in InHand(r, h), HandIs
  <2>2. PICK j \in DOMAIN h[e] : \E k \in DOMAIN h[e][j] :
             h[e][j][k] = r /\ x = <<"hand", e, j, k>>
    BY <2>1
  <2>3. PICK k \in DOMAIN h[e][j] : h[e][j][k] = r /\ x = <<"hand", e, j, k>>
    BY <2>2
  <2>4. x[2] = e /\ x[3] = j /\ x[4] = k
    BY ONLY <2>3
  <2>5. CASE e # a
    <3>1. F[x] = x
      BY ONLY <2>4, <2>5, x \in InHand(r, h)
    <3>2. i[e] = h[e]
      BY ONLY <1>2, <2>1, <2>5
    <3>3. x \in InHand(r, i)
      BY ONLY <2>1, <2>2, <3>2, HandIs
    <3> HIDE DEF F, T
    <3> QED BY ONLY <3>1, <3>3
  <2>6. CASE e = a /\ j = 1
    <3>1. F[x] = <<"ring", m, k>>
      BY ONLY <2>4, <2>6, x \in InHand(r, h)
    <3>2. k \in DOMAIN b /\ b[k] = r
      BY ONLY <1>1, <2>3, <2>6
    <3>3. <<"ring", m, k>> \in T
      BY ONLY <3>2, Zenon DEF Where
    <3> HIDE DEF F, T
    <3> QED BY ONLY <3>1, <3>3
  <2>7. CASE e = a /\ j # 1
    <3>1. F[x] = <<"hand", a, j - 1, k>>
      BY ONLY <2>4, <2>7, x \in InHand(r, h)
    <3>2. j - 1 \in DOMAIN i[a] /\ k \in DOMAIN i[a][j - 1] /\ i[a][j - 1][k] = r
      BY ONLY <1>1, <2>2, <2>3, <2>7
    <3>3. <<"hand", a, j - 1, k>> \in InHand(r, i)
      BY ONLY <3>2, a \in Actors, HandIs
    <3> HIDE DEF F, T
    <3> QED BY ONLY <3>1, <3>3
  <2> QED BY <2>5, <2>6, <2>7
<1>4. ASSUME NEW y \in InHand(r, i) PROVE \E x \in InHand(r, h) : y = F[x]
  <2>1. PICK e \in Actors : \E j \in DOMAIN i[e] : \E k \in DOMAIN i[e][j] :
             i[e][j][k] = r /\ y = <<"hand", e, j, k>>
    BY ONLY y \in InHand(r, i), HandIs
  <2>2. PICK j \in DOMAIN i[e] : \E k \in DOMAIN i[e][j] :
             i[e][j][k] = r /\ y = <<"hand", e, j, k>>
    BY <2>1
  <2>3. PICK k \in DOMAIN i[e][j] : i[e][j][k] = r /\ y = <<"hand", e, j, k>>
    BY <2>2
  <2>4. CASE e # a
    <3>1. i[e] = h[e]
      BY ONLY <1>2, <2>1, <2>4
    <3>2. y \in InHand(r, h)
      BY ONLY <2>1, <2>2, <3>1, HandIs
    <3>3. y[2] # a
      BY ONLY <2>3, <2>4
    <3>4. F[y] = y
      BY ONLY <3>2, <3>3
    <3> QED BY <3>2, <3>4
  <2>5. CASE e = a
    <3>0. j \in DOMAIN i[a] /\ k \in DOMAIN i[a][j] /\ i[a][j][k] = r
      BY ONLY <2>2, <2>3, <2>5
    <3>1. /\ j + 1 \in DOMAIN h[a] /\ k \in DOMAIN h[a][j + 1] /\ h[a][j + 1][k] = r
          /\ j \in Nat \ {0}
      BY ONLY <1>1, <3>0
    <3>2. PICK x : x = <<"hand", a, j + 1, k>>
      OBVIOUS
    <3>3. x \in InHand(r, h)
      BY ONLY <3>1, <3>2, a \in Actors, HandIs
    <3>4. F[x] = <<"hand", a, j, k>>
      <4>1. x[2] = a /\ x[3] = j + 1 /\ x[4] = k
        BY ONLY <3>2
      <4>2. j + 1 # 1 /\ (j + 1) - 1 = j
        <5>1. j \in Nat /\ j # 0
          BY ONLY <3>1
        <5> QED BY ONLY <5>1
      <4> QED BY ONLY <3>3, <4>1, <4>2
    <3> QED BY <2>3, <2>5, <3>3, <3>4
  <2> QED BY <2>4, <2>5
<1>5. ASSUME NEW y \in T PROVE \E x \in InHand(r, h) : y = F[x]
  <2>1. PICK k \in DOMAIN b : b[k] = r /\ y = <<"ring", m, k>>
    BY Zenon DEF Where
  <2>2. PICK x : x = <<"hand", a, 1, k>>
    OBVIOUS
  <2>3. x \in InHand(r, h)
    BY ONLY <1>1, <2>1, <2>2, a \in Actors, HandIs
  <2>4. F[x] = <<"ring", m, k>>
    BY ONLY <2>2, <2>3
  <2> QED BY <2>1, <2>3, <2>4
<1> HIDE DEF F, T
<1>6. Fits(InHand(r, h), InHand(r, i) \cup T)
  BY ONLY <1>3, <1>4, <1>5, FitsImage
<1> QED BY <1>6 DEF T, AtCell

(* Record s is put behind those in the buffer of p.                        *)
Filled(d, c, p, s) == d = [c EXCEPT ![p] = Append(c[p], s)]

(* The places in the buffers are then those of before and the new one.     *)
LEMMA OwnPut ==
  ASSUME NEW r, NEW c \in [Producers -> Buffers], NEW p \in Producers, NEW s,
         NEW d, Filled(d, c, p, s)
  PROVE  InCurrent(r, d) = InCurrent(r, c) \cup AtCurrent(p, Len(c[p]) + 1, r, s)
<1> DEFINE m == Len(c[p]) + 1
<1>0. d = [c EXCEPT ![p] = Append(c[p], s)]
  BY DEF Filled
<1>1. /\ m \in Nat /\ DOMAIN d[p] = DOMAIN c[p] \cup {m} /\ d[p][m] = s
      /\ m \notin DOMAIN c[p] /\ \A j \in DOMAIN c[p] : d[p][j] = c[p][j]
  <2>1. c[p] \in Seq(Records) /\ d[p] = Append(c[p], s)
    BY <1>0 DEF Buffers
  <2>2. DOMAIN c[p] = 1..Len(c[p]) /\ Len(c[p]) \in Nat
    BY <2>1
  <2> QED BY ONLY <2>1, <2>2
<1>2. \A e \in Producers \ {p} : d[e] = c[e]
  BY <1>0
<1>3. ASSUME NEW x \in InCurrent(r, d)
      PROVE  x \in InCurrent(r, c) \/ (r = s /\ x = <<"current", p, m>>)
  <2>1. PICK q \in Producers : \E k \in DOMAIN d[q] : d[q][k] = r /\ x = <<"current", q, k>>
    BY ONLY x \in InCurrent(r, d), CurrentIs
  <2>2. PICK k \in DOMAIN d[q] : d[q][k] = r /\ x = <<"current", q, k>>
    BY <2>1
  <2>3. CASE q = p /\ k = m
    BY ONLY <1>1, <2>2, <2>3
  <2>4. CASE ~(q = p /\ k = m)
    <3>1. k \in DOMAIN c[q] /\ d[q][k] = c[q][k]
      BY ONLY <1>1, <1>2, <2>1, <2>2, <2>4
    <3> QED BY ONLY <2>1, <2>2, <3>1, CurrentIs
  <2> QED BY <2>3, <2>4
<1>4. ASSUME NEW x \in InCurrent(r, c) PROVE x \in InCurrent(r, d)
  <2>1. PICK q \in Producers : \E k \in DOMAIN c[q] : c[q][k] = r /\ x = <<"current", q, k>>
    BY ONLY x \in InCurrent(r, c), CurrentIs
  <2>2. PICK k \in DOMAIN c[q] : c[q][k] = r /\ x = <<"current", q, k>>
    BY <2>1
  <2>3. k \in DOMAIN d[q] /\ d[q][k] = c[q][k]
    BY ONLY <1>1, <1>2, <2>1, <2>2
  <2> QED BY ONLY <2>1, <2>2, <2>3, CurrentIs
<1>5. r = s => <<"current", p, m>> \in InCurrent(r, d)
  <2>1. m \in DOMAIN d[p] /\ d[p][m] = s
    BY <1>1
  <2> QED BY ONLY <2>1, p \in Producers, CurrentIs
<1> HIDE DEF m
<1>6. InCurrent(r, d) = InCurrent(r, c) \cup (IF r = s THEN {<<"current", p, m>>} ELSE {})
  BY ONLY <1>3, <1>4, <1>5
<1> QED BY <1>6 DEF m, AtCurrent

(* Nobody starts or ends having a record to itself.                        *)
OwnStays == logged' = logged /\ \A q \in Producers : Keeping(q)' <=> Keeping(q)

(* Then what is with its thread stays the same.                            *)
LEMMA OwnSame ==
  ASSUME OwnStays, NEW r \in Records
  PROVE  InOwn(r)' = InOwn(r)
<1>1. Underway(r)' <=> Underway(r)
  BY DEF OwnStays, Underway, Records
<1> QED BY <1>1 DEF InOwn

(* A thread that gives its record away gives away that one only.           *)
LEMMA OwnGone ==
  ASSUME ControlTypes, NEW p \in Producers, Keeping(p), ~Keeping(p)', logged' = logged,
         \A q \in Producers \ {p} : Keeping(q)' <=> Keeping(q), NEW r \in Records
  PROVE  IF r = Record(p) THEN InOwn(r) = {<<"own">>} /\ InOwn(r)' = {} ELSE InOwn(r)' = InOwn(r)
<1>1. CASE r = Record(p)
  <2>1. Underway(r) /\ ~Underway(r)'
    BY <1>1 DEF Underway, Record
  <2> QED BY <1>1, <2>1 DEF InOwn
<1>2. CASE r # Record(p)
  <2>1. r[1] = p => r[2] # logged[p]
    BY <1>2 DEF Record, Records
  <2>2. Underway(r)' <=> Underway(r)
    BY <2>1 DEF Underway, Records
  <2> QED BY <1>2, <2>2 DEF InOwn
<1> QED BY <1>1, <1>2

(* and the threads themselves.                                             *)
LEMMA OwnTag == ASSUME NEW r PROVE \A x \in InOwn(r) : x[1] = "own"
  BY DEF InOwn

(* Without a change to what holds records nothing moves.                   *)
LEMMA PlacesStay ==
  ASSUME OwnStays, current' = current, hand' = hand, ring' = ring, batch' = batch,
         written' = written, NEW r \in Records
  PROVE  Places(r)' = Places(r)
<1>1. InOwn(r)' = InOwn(r)
  BY OwnSame
<1> QED BY <1>1 DEF Places

(* If the places of every record after a step fit those before, every      *)
(* record is still in one place.                                           *)
LEMMA KeptByFits ==
  ASSUME OnePlace, logged' = logged, \A r \in Records : Fits(Places(r), Places(r)')
  PROVE  OnePlace'
<1> SUFFICES ASSUME NEW r \in Records
             PROVE  IF Logged(r)' THEN \E x : Places(r)' = {x} ELSE Places(r)' = {}
  BY DEF OnePlace
<1>1. Fits(Places(r), Places(r)') /\ (Logged(r)' <=> Logged(r))
  BY DEF Logged
<1>2. IF Logged(r) THEN \E x : Places(r) = {x} ELSE Places(r) = {}
  BY DEF OnePlace
<1> QED BY <1>1, <1>2 DEF Fits

(* claim: from the hand into the ring.                                     *)
LEMMA ClaimPlaces ==
  ASSUME ControlTypes, DataTypes, Routes, Hands, OwnStays, NEW a \in Actors, Claim(a),
         NEW r \in Records
  PROVE  Fits(Places(r), Places(r)')
<1>0. PICK b : b = Head(hand[a])
  OBVIOUS
<1>1. PICK c : c = [by |-> a, how |-> mode[a], buf |-> b, ready |-> FALSE]
  OBVIOUS
<1>2. /\ ring' = Append(ring, c) /\ hand' = [hand EXCEPT ![a] = Tail(hand[a])]
      /\ current' = current /\ batch' = batch /\ written' = written
  BY <1>0, <1>1 DEF Claim, DataTypes
<1>3. /\ hand[a] # <<>> /\ hand \in [Actors -> Seq(Buffers)] /\ ring \in Seq(Cells)
      /\ c.buf = b
  BY <1>1 DEF Claim, Move, Hands, DataTypes
<1> DEFINE m == Len(ring) + 1
           N == AtCell(m, r, b)
           A == InOwn(r) \cup InCurrent(r, current) \cup InRing(r, ring)
                  \cup InBuffer("batch", r, batch) \cup InBuffer("written", r, written)
<1>4. InRing(r, ring') = InRing(r, ring) \cup N
  <2>1. RingGrown(ring', ring, m, b)
    BY <1>2, <1>3 DEF RingGrown
  <2> HIDE DEF m
  <2>2. InRing(r, ring') = InRing(r, ring) \cup AtCell(m, r, b)
    BY ONLY <2>1, RingAppend
  <2> QED BY <2>2
<1>5. Fits(InHand(r, hand), InHand(r, hand') \cup N)
  BY <1>0, <1>2, <1>3, ClaimFits
<1>6. \A x \in A : x \notin InHand(r, hand)
  BY CurrentTag, HandTag, RingTag, BufferTag, OwnTag
<1>7. InOwn(r)' = InOwn(r)
  BY OwnSame
<1> HIDE DEF N, m
<1>8. Places(r) = A \cup InHand(r, hand) /\ Places(r)' = A \cup (InHand(r, hand') \cup N)
  BY <1>2, <1>4, <1>7 DEF Places
<1> HIDE DEF A
<1>9. Apart(Places(r), A, InHand(r, hand)) /\ Made(Places(r)', A, InHand(r, hand') \cup N)
  BY ONLY <1>6, <1>8 DEF Apart, Made
<1> QED BY ONLY <1>5, <1>9, FitsParts

(* The writer pops: from the ring into its batch.                          *)
LEMMA PopPlaces ==
  ASSUME ControlTypes, DataTypes, Routes, Batch, OwnStays, WriterPops, NEW r \in Records
  PROVE  Fits(Places(r), Places(r)')
<1>1. current' = current /\ hand' = hand /\ written' = written
  BY DEF WriterPops, work
<1>2. CASE ring' = ring /\ batch' = batch
  BY <1>1, <1>2, PlacesStay, FitsSame
<1>3. CASE Poppable /\ batch' = Head(ring).buf /\ ring' = Tail(ring) /\ logPc["writer"] = "pop"
  <2>1. batch = <<>> /\ ring \in Seq(Cells) /\ ring # <<>>
    BY <1>3 DEF Batch, DataTypes, Poppable
  <2> DEFINE A == InOwn(r) \cup InCurrent(r, current) \cup InHand(r, hand)
                    \cup InBuffer("written", r, written)
  <2>2. Fits(InRing(r, ring), InRing(r, ring') \cup Further("batch", 0, r, batch'))
    BY <1>3, <2>1, PopFits
  <2>3. InBuffer("batch", r, batch) = {}
    BY <2>1 DEF InBuffer, Where
  <2>4. InBuffer("batch", r, batch') = Further("batch", 0, r, batch')
    <3>1. batch' \in Buffers
      <4>1. Head(ring) \in Cells
        BY <2>1
      <4> QED BY <1>3, <4>1 DEF Cells
    <3>2. \A k \in DOMAIN batch' : 0 + k = k
      BY <3>1 DEF Buffers
    <3> QED BY <3>2 DEF InBuffer, Further, Where
  <2>5. \A x \in A : x \notin InRing(r, ring)
    BY CurrentTag, HandTag, RingTag, BufferTag, OwnTag
  <2>6. InOwn(r)' = InOwn(r)
    BY OwnSame
  <2>7. /\ Places(r) = A \cup InRing(r, ring)
        /\ Places(r)' = A \cup (InRing(r, ring') \cup Further("batch", 0, r, batch'))
    BY <1>1, <2>3, <2>4, <2>6 DEF Places
  <2> HIDE DEF A
  <2>8. /\ Apart(Places(r), A, InRing(r, ring))
        /\ Made(Places(r)', A, InRing(r, ring') \cup Further("batch", 0, r, batch'))
    BY ONLY <2>5, <2>7 DEF Apart, Made
  <2> QED BY ONLY <2>2, <2>8, FitsParts
<1> QED BY <1>2, <1>3 DEF WriterPops, Move

(* The writer writes its batch.                                            *)
LEMMA WritePlaces ==
  ASSUME ControlTypes, DataTypes, OwnStays, WriterWrites, NEW r \in Records
  PROVE  Fits(Places(r), Places(r)')
<1>1. /\ current' = current /\ hand' = hand /\ ring' = ring /\ batch' = <<>>
      /\ written' = written \o batch
  BY DEF WriterWrites, Write, work
<1> DEFINE A == InOwn(r) \cup InCurrent(r, current) \cup InHand(r, hand) \cup InRing(r, ring)
                  \cup InBuffer("written", r, written)
           N == Further("written", Len(written), r, batch)
<1>2. InBuffer("written", r, written') = InBuffer("written", r, written) \cup N
  BY <1>1, WriteFits DEF DataTypes
<1>3. Fits(InBuffer("batch", r, batch), N)
  BY WriteFits DEF DataTypes
<1>4. InBuffer("batch", r, batch') = {}
  BY <1>1 DEF InBuffer, Where
<1>5. \A x \in A : x \notin InBuffer("batch", r, batch)
  BY CurrentTag, HandTag, RingTag, BufferTag, OwnTag
<1>6. InOwn(r)' = InOwn(r)
  BY OwnSame
<1> HIDE DEF N
<1>7. Places(r) = A \cup InBuffer("batch", r, batch) /\ Places(r)' = A \cup N
  BY <1>1, <1>2, <1>4, <1>6 DEF Places
<1> HIDE DEF A
<1>8. Apart(Places(r), A, InBuffer("batch", r, batch)) /\ Made(Places(r)', A, N)
  BY ONLY <1>5, <1>7 DEF Apart, Made
<1> QED BY ONLY <1>3, <1>8, FitsParts

(* Shutdown writes what is left in the ring.                               *)
LEMMA DrainPlaces ==
  ASSUME ControlTypes, DataTypes, OwnStays, ShutdownDrains, NEW r \in Records
  PROVE  Fits(Places(r), Places(r)')
<1>1. current' = current /\ hand' = hand /\ batch' = batch
  BY DEF ShutdownDrains, work
<1>2. CASE ring' = ring /\ written' = written
  BY <1>1, <1>2, PlacesStay, FitsSame
<1>3. CASE Poppable /\ Write(Head(ring).buf) /\ ring' = Tail(ring)
  <2>0. PICK b : b = Head(ring).buf
    OBVIOUS
  <2>1. ring \in Seq(Cells) /\ ring # <<>> /\ b \in Buffers /\ written \in Buffers
    <3>1. ring \in Seq(Cells) /\ ring # <<>>
      BY <1>3 DEF DataTypes, Poppable
    <3>2. Head(ring) \in Cells
      BY <3>1
    <3> QED BY <2>0, <3>1, <3>2 DEF DataTypes, Cells
  <2> DEFINE A == InOwn(r) \cup InCurrent(r, current) \cup InHand(r, hand)
                    \cup InBuffer("batch", r, batch) \cup InBuffer("written", r, written)
             N == Further("written", Len(written), r, b)
  <2>2. Fits(InRing(r, ring), InRing(r, ring') \cup N)
    <3>1. Len(written) \in Nat
      BY <2>1 DEF Buffers
    <3> QED BY <1>3, <2>0, <2>1, <3>1, PopFits
  <2>3. InBuffer("written", r, written') = InBuffer("written", r, written) \cup N
    <3>1. written' = written \o b
      BY <1>3, <2>0 DEF Write
    <3> QED BY <2>1, <3>1, WriteFits
  <2>4. \A x \in A : x \notin InRing(r, ring)
    BY CurrentTag, HandTag, RingTag, BufferTag, OwnTag
  <2>5. InOwn(r)' = InOwn(r)
    BY OwnSame
  <2> HIDE DEF N
  <2>6. Places(r) = A \cup InRing(r, ring) /\ Places(r)' = A \cup (InRing(r, ring') \cup N)
    BY <1>1, <2>3, <2>5 DEF Places
  <2> HIDE DEF A
  <2>7. Apart(Places(r), A, InRing(r, ring)) /\ Made(Places(r)', A, InRing(r, ring') \cup N)
    BY ONLY <2>4, <2>6 DEF Apart, Made
  <2> QED BY ONLY <2>2, <2>7, FitsParts
<1> QED BY <1>2, <1>3 DEF ShutdownDrains

(* From the buffer of p into the hand of a.                                *)
LEMMA TakePlaces ==
  ASSUME NEW r, NEW c \in [Producers -> Buffers], NEW p \in Producers,
         NEW h \in [Actors -> Seq(Buffers)], NEW a \in Actors, NEW d, NEW i,
         d = [c EXCEPT ![p] = <<>>], HandGrown(i, h, a, c[p])
  PROVE  Fits(InCurrent(r, c) \cup InHand(r, h), InCurrent(r, d) \cup InHand(r, i))
<1> DEFINE N == AtHand(a, Len(h[a]) + 1, r, c[p])
<1>1. Fits(InCurrent(r, c), InCurrent(r, d) \cup N)
  BY TakeFits
<1>2. InHand(r, i) = InHand(r, h) \cup N
  BY HandAppend
<1>3. \A x \in InHand(r, h) : x \notin InCurrent(r, c)
  BY CurrentTag, HandTag
<1> HIDE DEF N
<1>4. Fits(InHand(r, h) \cup InCurrent(r, c), InHand(r, h) \cup (InCurrent(r, d) \cup N))
  BY ONLY <1>1, <1>3, FitsBeside
<1>5. /\ InHand(r, h) \cup InCurrent(r, c) = InCurrent(r, c) \cup InHand(r, h)
      /\ InHand(r, h) \cup (InCurrent(r, d) \cup N) = InCurrent(r, d) \cup InHand(r, i)
  BY ONLY <1>2
<1> QED BY ONLY <1>4, <1>5

(* The same among the other places of a record.                            *)
LEMMA TakenPlaces ==
  ASSUME DataTypes, OwnStays, NEW r \in Records, ring' = ring, batch' = batch, written' = written,
         Fits(InCurrent(r, current) \cup InHand(r, hand),
              InCurrent(r, current') \cup InHand(r, hand'))
  PROVE  Fits(Places(r), Places(r)')
<1> DEFINE A == InOwn(r) \cup InRing(r, ring) \cup InBuffer("batch", r, batch)
                  \cup InBuffer("written", r, written)
           S == InCurrent(r, current) \cup InHand(r, hand)
           T == InCurrent(r, current') \cup InHand(r, hand')
<1>1. \A x \in A : x \notin S
  BY CurrentTag, HandTag, RingTag, BufferTag, OwnTag
<1>2. InOwn(r)' = InOwn(r)
  BY OwnSame
<1>3. Places(r) = A \cup S /\ Places(r)' = A \cup T
  BY <1>2 DEF Places
<1>4. Fits(S, T)
  OBVIOUS
<1> HIDE DEF A, S, T
<1>5. Apart(Places(r), A, S) /\ Made(Places(r)', A, T)
  BY ONLY <1>1, <1>3 DEF Apart, Made
<1> QED BY ONLY <1>4, <1>5, FitsParts

(* swapBufferLocked: from the buffer of a thread into a hand.              *)
LEMMA SwapPlaces ==
  ASSUME ControlTypes, DataTypes, OwnStays, NEW a \in Actors, swapBufferLocked(a),
         NEW r \in Records
  PROVE  Fits(Places(r), Places(r)')
<1>1. PICK q \in todo[a] :
        /\ hand' = [hand EXCEPT ![a] = IF current[q] = <<>> THEN @ ELSE Append(@, current[q])]
        /\ current' = [current EXCEPT ![q] = <<>>]
  BY DEF swapBufferLocked
<1>2. /\ q \in Producers /\ current \in [Producers -> Buffers] /\ hand \in [Actors -> Seq(Buffers)]
      /\ ring' = ring /\ batch' = batch /\ written' = written
  BY <1>1 DEF ControlTypes, DataTypes, swapBufferLocked
<1>3. CASE current[q] = <<>>
  <2>1. current' = current /\ hand' = hand
    BY <1>1, <1>2, <1>3
  <2> QED BY <1>2, <2>1, PlacesStay, FitsSame
<1>4. CASE current[q] # <<>>
  <2>1. HandGrown(hand', hand, a, current[q])
    BY <1>1, <1>2, <1>4 DEF HandGrown
  <2>2. Fits(InCurrent(r, current) \cup InHand(r, hand),
             InCurrent(r, current') \cup InHand(r, hand'))
    BY <1>1, <1>2, <2>1, TakePlaces
  <2> QED BY <1>2, <2>2, TakenPlaces
<1> QED BY <1>3, <1>4

(* tlsDestructor: from the buffer of a thread into its own hand.           *)
LEMMA ExitPlaces ==
  ASSUME ControlTypes, DataTypes, Hands, OwnStays, NEW p \in Producers, tlsDestructor(p),
         NEW r \in Records
  PROVE  Fits(Places(r), Places(r)')
<1>1. /\ current \in [Producers -> Buffers] /\ hand \in [Actors -> Seq(Buffers)]
      /\ ring' = ring /\ batch' = batch /\ written' = written
      /\ p \in Actors /\ hand[p] = <<>>
      /\ hand' = [hand EXCEPT ![p] = IF current[p] = <<>> THEN <<>> ELSE <<current[p]>>]
      /\ current' = [current EXCEPT ![p] = <<>>]
  BY DEF DataTypes, tlsDestructor, Hands, Move, Carrying, Actors
<1>2. CASE current[p] = <<>>
  <2>1. current' = current /\ hand' = hand
    BY <1>1, <1>2
  <2> QED BY <1>1, <2>1, PlacesStay, FitsSame
<1>3. CASE current[p] # <<>>
  <2>1. HandGrown(hand', hand, p, current[p])
    <3>1. Append(hand[p], current[p]) = <<current[p]>>
      BY <1>1
    <3> QED BY <1>1, <1>3, <3>1 DEF HandGrown
  <2>2. Fits(InCurrent(r, current) \cup InHand(r, hand),
             InCurrent(r, current') \cup InHand(r, hand'))
    BY <1>1, <2>1, TakePlaces
  <2> QED BY <1>1, <2>2, TakenPlaces
<1> QED BY <1>2, <1>3

(* A record that is written directly.                                      *)
LEMMA SyncPlaces ==
  ASSUME ControlTypes, DataTypes, Routes, NEW p \in Producers, WriteSync(p), NEW r \in Records
  PROVE  Fits(Places(r), Places(r)')
<1>0. PICK s : s = Record(p)
  OBVIOUS
<1>1. /\ current' = current /\ hand' = hand /\ ring' = ring /\ batch' = batch
      /\ written' = written \o <<s>> /\ logged' = logged
  BY <1>0 DEF WriteSync, Write, work
<1>2. Keeping(p) /\ ~Keeping(p)' /\ \A q \in Producers \ {p} : Keeping(q)' <=> Keeping(q)
  BY DEF WriteSync, Move, Keeping, ControlTypes, Routes, PushPoints, FlushPoints, Carrying, Actors
<1>3. IF r = s THEN InOwn(r) = {<<"own">>} /\ InOwn(r)' = {} ELSE InOwn(r)' = InOwn(r)
  BY <1>0, <1>1, <1>2, OwnGone
<1>4. <<s>> \in Buffers /\ written \in Buffers
  BY <1>0 DEF Record, Records, Buffers, ControlTypes, DataTypes
<1> DEFINE A == InCurrent(r, current) \cup InHand(r, hand) \cup InRing(r, ring)
                  \cup InBuffer("batch", r, batch) \cup InBuffer("written", r, written)
           N == Further("written", Len(written), r, <<s>>)
<1>5. InBuffer("written", r, written') = InBuffer("written", r, written) \cup N
  BY <1>1, <1>4, WriteFits
<1>6. N = IF r = s THEN {<<"written", Len(written) + 1>>} ELSE {}
  <2>1. Where(r, <<s>>) = IF r = s THEN {1} ELSE {}
    BY DEF Where
  <2> QED BY <2>1 DEF Further
<1> HIDE DEF N
<1>7. Fits(InOwn(r), InOwn(r)' \cup N)
  BY <1>3, <1>6 DEF Fits
<1>8. \A x \in A : x \notin InOwn(r)
  BY CurrentTag, HandTag, RingTag, BufferTag, OwnTag
<1>9. Places(r) = A \cup InOwn(r) /\ Places(r)' = A \cup (InOwn(r)' \cup N)
  BY <1>1, <1>5 DEF Places
<1> HIDE DEF A
<1>10. Apart(Places(r), A, InOwn(r)) /\ Made(Places(r)', A, InOwn(r)' \cup N)
  BY ONLY <1>8, <1>9 DEF Apart, Made
<1> QED BY ONLY <1>7, <1>10, FitsParts

(* push puts its record into its buffer, and takes the buffer when it is   *)
(* full.                                                                   *)
LEMMA PutPlaces ==
  ASSUME ControlTypes, DataTypes, Routes, Hands, NEW p \in Producers, PushPut(p),
         NEW r \in Records
  PROVE  Fits(Places(r), Places(r)')
<1>0. PICK s : s = Record(p)
  OBVIOUS
<1>1. PICK buf : buf = Append(current[p], s)
  OBVIOUS
<1>2. /\ current \in [Producers -> Buffers] /\ hand \in [Actors -> Seq(Buffers)]
      /\ ring' = ring /\ batch' = batch /\ written' = written /\ logged' = logged
      /\ p \in Actors /\ hand[p] = <<>> /\ logPc[p] = "put" /\ mode' = mode
  BY DEF DataTypes, PushPut, Hands, Move, Carrying, Actors
<1>3. CASE ~logRunning
  <2>1. current' = current /\ hand' = hand /\ logPc' = [logPc EXCEPT ![p] = "late"]
    BY <1>2, <1>3 DEF PushPut, Move
  <2>2. OwnStays
    BY <1>2, <2>1 DEF OwnStays, Keeping, ControlTypes, Actors
  <2> QED BY <1>2, <2>1, <2>2, PlacesStay, FitsSame
<1>4. CASE logRunning
  <2>1. PICK d : d = [current EXCEPT ![p] = buf]
    OBVIOUS
  <2>2. \/ current' = d /\ hand' = hand
        \/ current' = [current EXCEPT ![p] = <<>>] /\ hand' = [hand EXCEPT ![p] = <<buf>>]
    BY <1>0, <1>1, <1>2, <1>4, <2>1 DEF PushPut
  <2>3. Keeping(p) /\ ~Keeping(p)' /\ \A q \in Producers \ {p} : Keeping(q)' <=> Keeping(q)
    <3>1. \E to \in {"claim", "out"} : logPc' = [logPc EXCEPT ![p] = to]
      BY <1>4 DEF PushPut, Move
    <3>2. mode[p] = "push"
      BY <1>2 DEF Routes, PushPoints, FlushPoints, Carrying
    <3> QED BY <1>2, <3>1, <3>2 DEF Keeping, ControlTypes, Actors
  <2>4. IF r = s THEN InOwn(r) = {<<"own">>} /\ InOwn(r)' = {} ELSE InOwn(r)' = InOwn(r)
    BY <1>0, <1>2, <2>3, OwnGone
  <2> DEFINE A == InHand(r, hand) \cup InRing(r, ring) \cup InBuffer("batch", r, batch)
                    \cup InBuffer("written", r, written)
             C == A \cup InCurrent(r, current)
             N == AtCurrent(p, Len(current[p]) + 1, r, s)
  <2>5. InCurrent(r, d) = InCurrent(r, current) \cup N
    <3>1. Filled(d, current, p, s)
      BY <1>1, <2>1 DEF Filled
    <3>2. current \in [Producers -> Buffers]
      BY <1>2
    <3>3. InCurrent(r, d) = InCurrent(r, current) \cup AtCurrent(p, Len(current[p]) + 1, r, s)
      BY ONLY <3>1, <3>2, p \in Producers, OwnPut
    <3> QED BY <3>3
  <2>6. Fits(InOwn(r), InOwn(r)' \cup N)
    BY <2>4 DEF Fits, AtCurrent
  <2> HIDE DEF N
  <2>7. \A x \in C : x \notin InOwn(r)
    BY CurrentTag, HandTag, RingTag, BufferTag, OwnTag
  <2>8. Fits(C \cup InOwn(r), C \cup (InOwn(r)' \cup N))
    <3> HIDE DEF C
    <3>1. PICK T : T = InOwn(r)' \cup N
      OBVIOUS
    <3>2. Fits(InOwn(r), T)
      BY ONLY <2>6, <3>1
    <3>3. Fits(C \cup InOwn(r), C \cup T)
      BY ONLY <2>7, <3>2, FitsBeside
    <3> QED BY ONLY <3>1, <3>3
  <2> DEFINE M == InOwn(r)' \cup A \cup InCurrent(r, d)
  <2>9. Places(r) = C \cup InOwn(r) /\ C \cup (InOwn(r)' \cup N) = M
    BY <2>5 DEF Places
  <2>10. Fits(Places(r), M)
    BY ONLY <2>8, <2>9
  <2>11. CASE current' = d /\ hand' = hand
    <3>1. Places(r)' = M
      BY <1>2, <2>11 DEF Places
    <3> QED BY ONLY <2>10, <3>1
  <2>12. CASE current' = [current EXCEPT ![p] = <<>>] /\ hand' = [hand EXCEPT ![p] = <<buf>>]
    <3> DEFINE B == InOwn(r)' \cup InRing(r, ring) \cup InBuffer("batch", r, batch)
                      \cup InBuffer("written", r, written)
               S == InCurrent(r, d) \cup InHand(r, hand)
               T == InCurrent(r, current') \cup InHand(r, hand')
    <3>1. s \in Records
      BY <1>0 DEF Record, Records, ControlTypes
    <3>2. buf \in Buffers
      BY <1>1, <1>2, <3>1 DEF Buffers
    <3>3. d \in [Producers -> Buffers] /\ current' = [d EXCEPT ![p] = <<>>] /\ d[p] = buf
      BY <1>2, <2>1, <2>12, <3>2
    <3>4. HandGrown(hand', hand, p, d[p])
      <4>1. Append(hand[p], buf) = <<buf>>
        BY <1>2
      <4> QED BY <1>2, <2>12, <3>3, <4>1 DEF HandGrown
    <3>5. Fits(S, T)
      BY <1>2, <3>3, <3>4, TakePlaces
    <3>6. \A x \in B : x \notin S
      <4>1. \A x \in InOwn(r)' : x[1] = "own"
        BY <2>4, OwnTag
      <4> QED BY <4>1, CurrentTag, HandTag, RingTag, BufferTag
    <3>7. M = B \cup S /\ Places(r)' = B \cup T
      BY <1>2 DEF Places
    <3> HIDE DEF B, S, T, M
    <3>8. Apart(M, B, S) /\ Made(Places(r)', B, T)
      BY ONLY <3>6, <3>7 DEF Apart, Made
    <3>9. Fits(M, Places(r)')
      BY ONLY <3>5, <3>8, FitsParts
    <3> QED BY ONLY <2>10, <3>9, FitsAgain
  <2> QED BY <2>2, <2>11, <2>12
<1> QED BY <1>3, <1>4

(* A new record is with its thread, and nowhere else.                      *)
LEMMA NewPlaces ==
  ASSUME ControlTypes, DataTypes, OnePlace, NEW p \in Producers, Push(p) \/ Fatal(p)
  PROVE  OnePlace'
<1> USE DEF Move, Enter, Log, work, Actors
<1>1. /\ current' = current /\ hand' = hand /\ ring' = ring /\ batch' = batch
      /\ written' = written
      /\ logged' = [logged EXCEPT ![p] = logged[p] + 1]
      /\ logPc[p] = "idle" /\ \E to \in {"enter", "sync", "collect"} :
           /\ logPc' = [logPc EXCEPT ![p] = to]
           /\ to = "collect" => mode' = [mode EXCEPT ![p] = "flush"]
           /\ to # "collect" => mode' = [mode EXCEPT ![p] = "push"]
  BY DEF Push, Fatal
<1>2. ~Keeping(p) /\ Keeping(p)' /\ \A q \in Producers \ {p} : Keeping(q)' <=> Keeping(q)
  BY <1>1 DEF Keeping, ControlTypes
<1> SUFFICES ASSUME NEW r \in Records
             PROVE  IF Logged(r)' THEN \E x : Places(r)' = {x} ELSE Places(r)' = {}
  BY DEF OnePlace
<1>3. IF Logged(r) THEN \E x : Places(r) = {x} ELSE Places(r) = {}
  BY DEF OnePlace
<1>4. CASE r[1] = p /\ r[2] = logged[p] + 1
  <2>1. ~Logged(r) /\ Logged(r)' /\ Underway(r)'
    BY <1>1, <1>2, <1>4 DEF Logged, Underway, Records, ControlTypes
  <2>2. InOwn(r)' = {<<"own">>}
    BY <2>1 DEF InOwn
  <2>3. Places(r)' = {<<"own">>}
    BY <1>1, <1>3, <2>1, <2>2 DEF Places
  <2> QED BY <2>1, <2>3
<1>5. CASE ~(r[1] = p /\ r[2] = logged[p] + 1)
  <2>1. (Logged(r)' <=> Logged(r)) /\ (Underway(r)' <=> Underway(r))
    BY <1>1, <1>2, <1>5 DEF Logged, Underway, Records, ControlTypes
  <2>2. InOwn(r)' = InOwn(r)
    BY <2>1 DEF InOwn
  <2>3. Places(r)' = Places(r)
    BY <1>1, <2>2 DEF Places
  <2> QED BY <1>3, <2>1, <2>3
<1> QED BY <1>4, <1>5

(* Who only carries, collects or ends keeps what the threads have: a       *)
(* thread that pushes,                                                     *)
LEMMA OwnKeptByProducer ==
  ASSUME ControlTypes, Routes, NEW p \in Producers,
         PushEnter(p) \/ PushCheck(p) \/ PushUndo(p) \/ getOrCreateTls(p) \/ PushOut(p) \/
         tlsDestructor(p) \/ Unlist(p)
  PROVE  OwnStays
  BY LoggerAssumption
  DEF PushEnter, PushCheck, PushUndo, getOrCreateTls, PushOut, tlsDestructor, Unlist, OwnStays,
      Keeping, ControlTypes, flags, counts, work, Actors, Move, IsAt, Enter, After, Carrying,
      PushPoints, FlushPoints, MainPoints, Routes

(* one that enqueues or collects,                                          *)
LEMMA OwnKeptByCarrier ==
  ASSUME ControlTypes, Routes, NEW a \in Actors,
         Claim(a) \/ Publish(a) \/ CountIn(a) \/ Collect(a) \/ swapBufferLocked(a) \/
         Collected(a) \/ Target(a) \/ FlushWaits(a)
  PROVE  OwnStays
  BY LoggerAssumption
  DEF Claim, Publish, CountIn, Collect, swapBufferLocked, Collected, Target, FlushWaits, OwnStays,
      Keeping, ControlTypes, flags, counts, work, Actors, Move, IsAt, Enter, After, Carrying,
      PushPoints, FlushPoints, MainPoints, Routes

(* the threads of the logger, and shutdown.                                *)
LEMMA OwnKeptByLogger ==
  ASSUME ControlTypes, Routes,
         Beat \/ WriterPops \/ WriterWrites \/ WriterTells \/ Shutdown \/ ShutdownWaits \/
         ShutdownStops \/ ShutdownJoins \/ ShutdownDrains
  PROVE  OwnStays
  BY LoggerAssumption
  DEF Beat, WriterPops, WriterWrites, WriterTells, Shutdown, ShutdownWaits, ShutdownStops,
      ShutdownJoins, ShutdownDrains, OwnStays, Keeping, ControlTypes, flags, counts, work, Actors,
      Move, IsAt, Enter, After, Carrying, PushPoints, FlushPoints, MainPoints, Routes

(* A cell that is published holds what it held.                            *)
LEMMA PublishPlaces ==
  ASSUME DataTypes, OwnStays, NEW a \in Actors, Publish(a), NEW r \in Records
  PROVE  Places(r)' = Places(r)
<1>1. /\ hand' = hand /\ current' = current /\ batch' = batch /\ written' = written
      /\ ring' = [k \in DOMAIN ring |->
                   IF ring[k].by = a THEN [ring[k] EXCEPT !.ready = TRUE] ELSE ring[k]]
  BY DEF Publish, work
<1>2. DOMAIN ring' = DOMAIN ring /\ \A j \in DOMAIN ring : ring'[j].buf = ring[j].buf
  BY <1>1 DEF DataTypes, Cells
<1>3. InRing(r, ring') = InRing(r, ring)
  <2>1. \A j \in DOMAIN ring : Where(r, ring'[j].buf) = Where(r, ring[j].buf)
    BY ONLY <1>2
  <2> QED BY ONLY <1>2, <2>1 DEF InRing
<1>4. InOwn(r)' = InOwn(r)
  BY OwnSame
<1> QED BY <1>1, <1>3, <1>4 DEF Places

(* Every step keeps every record in one place.                             *)
LEMMA OnePlaceKept ==
  ASSUME ControlTypes, DataTypes, Routes, Hands, Batch, OnePlace, LogNext
  PROVE  OnePlace'
<1>1. ASSUME NEW p \in Producers, Push(p) \/ Fatal(p)
      PROVE  OnePlace'
  BY <1>1, NewPlaces
<1>2. ASSUME NEW p \in Producers, PushPut(p)
      PROVE  OnePlace'
  <2>1. logged' = logged
    BY <1>2 DEF PushPut
  <2>2. \A r \in Records : Fits(Places(r), Places(r)')
    BY <1>2, PutPlaces
  <2> QED BY <2>1, <2>2, KeptByFits
<1>3. ASSUME NEW p \in Producers, WriteSync(p)
      PROVE  OnePlace'
  <2>1. logged' = logged
    BY <1>3 DEF WriteSync
  <2>2. \A r \in Records : Fits(Places(r), Places(r)')
    BY <1>3, SyncPlaces
  <2> QED BY <2>1, <2>2, KeptByFits
<1>4. ASSUME OwnStays, \A r \in Records : Fits(Places(r), Places(r)')
      PROVE  OnePlace'
  BY <1>4, KeptByFits DEF OwnStays
<1>5. ASSUME OwnStays, current' = current, hand' = hand, ring' = ring, batch' = batch,
             written' = written
      PROVE  OnePlace'
  <2>1. \A r \in Records : Places(r)' = Places(r)
    BY <1>5, PlacesStay
  <2> QED BY <1>4, <1>5, <2>1, FitsSame
<1>6. ASSUME NEW p \in Producers,
             PushEnter(p) \/ PushCheck(p) \/ PushUndo(p) \/ getOrCreateTls(p) \/ PushOut(p) \/
             tlsDestructor(p) \/ Unlist(p)
      PROVE  OnePlace'
  <2>1. OwnStays
    BY <1>6, OwnKeptByProducer
  <2>2. CASE tlsDestructor(p)
    BY <1>4, <2>1, <2>2, ExitPlaces
  <2>3. CASE ~tlsDestructor(p)
    <3>1. current' = current /\ hand' = hand /\ ring' = ring /\ batch' = batch
          /\ written' = written
      BY <1>6, <2>3 DEF PushEnter, PushCheck, PushUndo, getOrCreateTls, PushOut, Unlist, work
    <3> QED BY <1>5, <2>1, <3>1
  <2> QED BY <2>2, <2>3
<1>7. ASSUME NEW a \in Actors,
             Claim(a) \/ Publish(a) \/ CountIn(a) \/ Collect(a) \/ swapBufferLocked(a) \/
             Collected(a) \/ Target(a) \/ FlushWaits(a)
      PROVE  OnePlace'
  <2>1. OwnStays
    BY <1>7, OwnKeptByCarrier
  <2>2. CASE Claim(a)
    BY <1>4, <2>1, <2>2, ClaimPlaces
  <2>3. CASE swapBufferLocked(a)
    BY <1>4, <2>1, <2>3, SwapPlaces
  <2>4. CASE Publish(a)
    <3>1. \A r \in Records : Places(r)' = Places(r)
      BY <2>1, <2>4, PublishPlaces
    <3> QED BY <1>4, <2>1, <3>1, FitsSame
  <2>5. CASE CountIn(a) \/ Collect(a) \/ Collected(a) \/ Target(a) \/ FlushWaits(a)
    <3>1. current' = current /\ hand' = hand /\ ring' = ring /\ batch' = batch
          /\ written' = written
      BY <2>5 DEF CountIn, Collect, Collected, Target, FlushWaits, work
    <3> QED BY <1>5, <2>1, <3>1
  <2> QED BY <1>7, <2>2, <2>3, <2>4, <2>5
<1>8. ASSUME Beat \/ WriterPops \/ WriterWrites \/ WriterTells \/ Shutdown \/ ShutdownWaits \/
             ShutdownStops \/ ShutdownJoins \/ ShutdownDrains
      PROVE  OnePlace'
  <2>1. OwnStays
    BY <1>8, OwnKeptByLogger
  <2>2. CASE WriterPops
    BY <1>4, <2>1, <2>2, PopPlaces
  <2>3. CASE WriterWrites
    BY <1>4, <2>1, <2>3, WritePlaces
  <2>4. CASE ShutdownDrains
    BY <1>4, <2>1, <2>4, DrainPlaces
  <2>5. CASE Beat \/ WriterTells \/ Shutdown \/ ShutdownWaits \/ ShutdownStops \/ ShutdownJoins
    <3>1. current' = current /\ hand' = hand /\ ring' = ring /\ batch' = batch
          /\ written' = written
      BY <2>5 DEF Beat, WriterTells, Shutdown, ShutdownWaits, ShutdownStops, ShutdownJoins, work
    <3> QED BY <1>5, <2>1, <3>1
  <2> QED BY <1>8, <2>2, <2>3, <2>4, <2>5
<1> QED BY LogNext, <1>1, <1>2, <1>3, <1>6, <1>7, <1>8 DEF LogNext, Produce, Carry

(* The logger starts with nothing anywhere.                                *)
LEMMA LogStarts ==
  ASSUME LogInit
  PROVE  LogInv
<1> USE LoggerAssumption DEF LogInit, Actors
<1>1. ControlTypes
  BY DEF ControlTypes, Points, Modes, Carrying
<1>2. DataTypes
  BY DEF DataTypes, Buffers, Cells
<1>3. Routes
  BY DEF Routes
<1>4. Hands /\ Batch /\ RingClaims /\ Quiet /\ Listed /\ Swept /\ Over
  BY DEF Hands, Batch, RingClaims, Quiet, Listed, Swept, Over, Past, MainPoints, Carrying
<1>5. Counted
  <2>1. InPush = {}
    BY DEF InPush, Inflight, Carrying
  <2> QED BY <2>1, FS_EmptySet DEF Counted
<1>6. OnePlace
  <2> SUFFICES ASSUME NEW r \in Records PROVE Places(r) = {} /\ ~Logged(r)
    BY DEF OnePlace
  <2>1. r[1] \in Producers
    BY DEF Records
  <2>2. InOwn(r) = {} /\ ~Logged(r)
    BY <2>1 DEF InOwn, Underway, Keeping, Logged
  <2>3. \A x : x \notin InCurrent(r, current)
    BY CurrentIs
  <2>4. \A x : x \notin InHand(r, hand)
    BY HandIs
  <2>5. \A x : x \notin InRing(r, ring)
    BY RingIs
  <2>6. InBuffer("batch", r, batch) = {} /\ InBuffer("written", r, written) = {}
    BY DEF InBuffer, Where
  <2> QED BY <2>2, <2>3, <2>4, <2>5, <2>6 DEF Places
<1> QED BY <1>1, <1>2, <1>3, <1>4, <1>5, <1>6 DEF LogInv, LogTypes

(* Every step of the logger keeps the invariant.                           *)
LEMMA LogStep ==
  ASSUME LogInv, [LogNext]_logVars
  PROVE  LogInv'
<1>1. CASE LogNext
  <2>1. /\ ControlTypes /\ DataTypes /\ Routes /\ Hands /\ Batch /\ RingClaims
        /\ Counted /\ Quiet /\ Listed /\ Swept /\ Over /\ OnePlace
    BY DEF LogInv, LogTypes
  <2>2. ControlTypes' /\ DataTypes' /\ Routes'
    BY <1>1, <2>1, ControlTypesKept, DataTypesKept, RoutesKept
  <2>3. Hands' /\ Batch' /\ RingClaims'
    BY <1>1, <2>1, HandsKept, BatchKept, RingClaimsKept
  <2>4. Counted' /\ Quiet' /\ Listed'
    BY <1>1, <2>1, CountedKept, QuietKept, ListedKept
  <2>5. Swept' /\ Over'
    BY <1>1, <2>1, SweptKept, OverKept
  <2>6. OnePlace'
    BY <1>1, <2>1, OnePlaceKept
  <2> QED BY <2>2, <2>3, <2>4, <2>5, <2>6 DEF LogInv, LogTypes
<1>2. CASE UNCHANGED logVars
  <2> USE <1>2 DEF logVars
  <2>1. LogTypes' /\ Routes' /\ Hands' /\ Batch' /\ RingClaims'
    BY DEF LogInv, LogTypes, ControlTypes, DataTypes, Routes, Hands, Batch, RingClaims
  <2>2. Counted' /\ Quiet' /\ Listed' /\ Swept' /\ Over'
    BY DEF LogInv, Counted, Quiet, Listed, Swept, Over, InPush
  <2>3. OnePlace'
    <3>1. OwnStays
      BY DEF OwnStays, Keeping
    <3>2. \A r \in Records : Places(r)' = Places(r)
      BY <3>1, PlacesStay
    <3>3. \A r \in Records : Logged(r)' <=> Logged(r)
      BY DEF Logged
    <3> QED BY <3>2, <3>3 DEF LogInv, OnePlace
  <2> QED BY <2>1, <2>2, <2>3 DEF LogInv
<1> QED BY <1>1, <1>2

(* When shutdown is through, what is neither written nor with its thread   *)
(* is missed.                                                              *)
LEMMA LeftIsMissed ==
  ASSUME LogInv, IsAt("main", "done"), NEW r \in Records, NEW x \in Places(r)
  PROVE  Holds(written, r) \/ Underway(r) \/ Missed(r)
<1> USE LoggerAssumption DEF Actors
<1>1. /\ logPc["main"] = "done" /\ logPc["heartbeat"] = "gone" /\ logPc["writer"] = "gone"
      /\ ring # <<>> => ring[1].how \in Stray
  BY DEF IsAt, LogInv, Over
<1>2. CASE x \in InOwn(r)
  BY <1>2 DEF InOwn
<1>3. CASE x \in InCurrent(r, current)
  <2>1. PICK p \in Producers : \E k \in DOMAIN current[p] : current[p][k] = r
    BY <1>3, CurrentIs
  <2>2. current[p] = <<>>
    BY <1>1 DEF LogInv, Swept, Past, MainPoints
  <2> QED BY <2>1, <2>2
<1>4. CASE x \in InHand(r, hand)
  <2>1. PICK a \in Actors : \E j \in DOMAIN hand[a] : \E k \in DOMAIN hand[a][j] : hand[a][j][k] = r
    BY <1>4, HandIs
  <2>2. PICK j \in DOMAIN hand[a] : \E k \in DOMAIN hand[a][j] : hand[a][j][k] = r
    BY <2>1
  <2>3. Holds(hand[a][j], r)
    BY <2>2 DEF Holds, Where
  <2>4. logPc[a] \in Carrying \cup {"swap"}
    <3>1. hand[a] # <<>>
      BY <2>2
    <3> QED BY <3>1 DEF LogInv, Hands
  <2>5. a \in Producers
    BY <1>1, <2>4 DEF Carrying
  <2>6. mode[a] \in Stray
    <3>1. ~(mode[a] = "push" /\ logPc[a] \in Inflight) \/ logPc[a] \in Late
      BY <1>1, <2>5 DEF LogInv, Quiet, Past, MainPoints, InPush
    <3> QED BY <2>4, <2>5, <3>1
        DEF LogInv, Routes, Stray, Inflight, Late, Carrying, PushPoints, FlushPoints
  <2> QED BY <2>2, <2>3, <2>5, <2>6 DEF Missed
<1>5. CASE x \in InRing(r, ring)
  <2>1. PICK j \in DOMAIN ring : \E k \in DOMAIN ring[j].buf : ring[j].buf[k] = r
    BY <1>5, RingIs
  <2>2. Holds(ring[j].buf, r)
    BY <2>1 DEF Holds, Where
  <2>3. 1 \in 1..j /\ ring # <<>>
    BY <2>1 DEF LogInv, LogTypes, DataTypes
  <2> QED BY <1>1, <2>1, <2>2, <2>3 DEF Missed
<1>6. CASE x \in InBuffer("batch", r, batch)
  <2>1. batch = <<>>
    BY <1>1 DEF LogInv, Batch
  <2> QED BY <1>6, <2>1 DEF InBuffer, Where
<1>7. CASE x \in InBuffer("written", r, written)
  BY <1>7 DEF InBuffer, Holds
<1> QED BY <1>2, <1>3, <1>4, <1>5, <1>6, <1>7 DEF Places

(* Every record is in one place, once, and when shutdown is through every  *)
(* record is written but for those that an exiting thread or a FATAL flush *)
(* carries and those behind them in the ring.                              *)
THEOREM RecordsSafe == LogSpec => []RecordsKept
<1>1. LogInv => RecordsKept
  <2> SUFFICES ASSUME LogInv, NEW p \in Producers, NEW n \in 1..logged[p]
               PROVE  /\ Cardinality(Places(<<p, n>>)) = 1
                      /\ IsAt("main", "done") => \/ Holds(written, <<p, n>>)
                                                \/ Underway(<<p, n>>) \/ Missed(<<p, n>>)
    BY Zenon DEF RecordsKept
  <2>1. PICK r : r = <<p, n>>
    OBVIOUS
  <2>2. r \in Records /\ Logged(r)
    BY <2>1 DEF Records, Logged, LogInv, LogTypes, ControlTypes
  <2>3. PICK x : Places(r) = {x}
    BY <2>2 DEF LogInv, OnePlace
  <2>4. Cardinality(Places(r)) = 1
    BY <2>3, FS_Singleton
  <2>5. IsAt("main", "done") => Holds(written, r) \/ Underway(r) \/ Missed(r)
    BY <2>2, <2>3, LeftIsMissed
  <2> QED BY <2>1, <2>4, <2>5
<1> QED BY <1>1, LogStarts, LogStep, PTL DEF LogSpec
=============================================================================
