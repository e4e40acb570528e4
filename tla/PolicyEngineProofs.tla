------------------------- MODULE PolicyEngineProofs -------------------------
(***************************************************************************)
(* PolicyEngine is safe for any number of callers, ids, versions, crashes  *)
(* and failing writes.                                                     *)
(***************************************************************************)
EXTENDS PolicyEngine, SequenceTheorems, FiniteSetTheorems, TLAPS

LogEntries == [version : Nat, id : Ids, rule : Rules \cup {NoRule}]

(* The three parts of the type invariant that the edits, the flush and the *)
(* rest can disturb.                                                       *)
MemType ==
    /\ ver \in Nat
    /\ store \in [Ids -> Rules \cup {NoRule}]
    /\ log \in Seq(LogEntries)
    /\ heap \subseteq Node
    /\ persisted \subseteq Ids
    /\ pending \in Seq(PersistOp)
    /\ promise \in [Ids -> Rules \cup {NoRule, None}]
SeenType ==
    /\ seen \in [Reports -> -1 .. MaxNow]
    /\ seenOrder \in Seq(Reports \X (0 .. MaxNow))
CallType ==
    /\ pc \in [Callers -> PCs] /\ cont \in [Callers -> Conts]
    /\ edit \in [Callers -> Edit \cup {None}] /\ at \in [Callers -> 0 .. MaxNow]
FlushType ==
    /\ flushing \in BOOLEAN /\ healthy \in BOOLEAN
    /\ batch \in [Callers -> Seq(PersistOp)] /\ done \in [Callers -> Nat]
DbType ==
    /\ dbRules \in [Ids -> Rules \cup {NoRule}]
    /\ dbTomb \in [Ids -> Nat] /\ lastVer \in Nat
RestType ==
    /\ up \in BOOLEAN /\ now \in 0 .. MaxNow
    /\ epoch \in Nat
    /\ due \subseteq Node
    /\ minTtl \in MinTtls
    /\ mtx \in Callers \cup {None}
    /\ announced \in Nat
    /\ fails \in Nat /\ crashes \in Nat

LEMMA TypeParts ==
  TypeOK <=> MemType /\ SeenType /\ CallType /\ FlushType /\ DbType /\ RestType
  BY DEF TypeOK, MemType, SeenType, CallType, FlushType, DbType, RestType, LogEntries

-----------------------------------------------------------------------------
(* What the parts of an edit do to the types.                              *)

LEMMA LogAppendType ==
  ASSUME NEW S, NEW l \in Seq(S), NEW e \in S
  PROVE  Hub!LogAppend(l, e) \in Seq(S)
  <1>1. Append(l, e) \in Seq(S) /\ Append(l, e) # << >>
    BY AppendProperties
  <1>2. Tail(Append(l, e)) \in Seq(S)
    BY <1>1
  <1> QED
    BY <1>1, <1>2 DEF Hub!LogAppend

LEMMA PutRuleType ==
  ASSUME TypeOK, NEW i \in Ids, NEW r \in Rules, r.version = ver + 1, NEW u, PutRule(i, r, u)
  PROVE  MemType'
  <1> USE TypeParts DEF MemType
  <1>1. ver' \in Nat /\ log' \in Seq(LogEntries)
    <2>1. [version |-> ver + 1, id |-> i, rule |-> r] \in LogEntries
      BY DEF LogEntries
    <2> QED
      BY <2>1, LogAppendType DEF PutRule, record
  <1>2. store' \in [Ids -> Rules \cup {NoRule}] /\ promise' \in [Ids -> Rules \cup {NoRule, None}]
    BY DEF PutRule
  <1>3. heap' \subseteq Node
    BY DEF PutRule, expiryPush, Node, Rules
  <1>4. persisted' \subseteq Ids
    BY DEF PutRule, queueRule
  <1>5. pending' \in Seq(PersistOp)
    <2> DEFINE op == [id |-> i, version |-> r.version,
                      rule |-> IF shouldPersist(i, r, u) THEN r ELSE NoRule]
    <2>1. op \in PersistOp
      BY DEF PersistOp
    <2>2. pending' = pending \/ pending' = Append(pending, op)
      BY DEF PutRule, queueRule
    <2> HIDE DEF op
    <2>3. pending \in Seq(PersistOp)
      OBVIOUS
    <2>4. Append(pending, op) \in Seq(PersistOp)
      BY <2>1, <2>3, AppendProperties
    <2> QED
      BY <2>2, <2>3, <2>4
  <1> QED
    BY <1>1, <1>2, <1>3, <1>4, <1>5

LEMMA EraseRuleType ==
  ASSUME TypeOK, NEW i \in Ids, EraseRule(i)
  PROVE  MemType'
  <1> USE TypeParts DEF MemType
  <1>1. ver' \in Nat /\ log' \in Seq(LogEntries)
    <2>1. [version |-> ver + 1, id |-> i, rule |-> NoRule] \in LogEntries
      BY DEF LogEntries
    <2> QED
      BY <2>1, LogAppendType DEF EraseRule, record
  <1>2. store' \in [Ids -> Rules \cup {NoRule}] /\ promise' \in [Ids -> Rules \cup {NoRule, None}]
    BY DEF EraseRule
  <1>3. heap' \subseteq Node /\ persisted' \subseteq Ids
    BY DEF EraseRule, queueDel
  <1>5. pending' \in Seq(PersistOp)
    <2> DEFINE op == [id |-> i, version |-> ver + 1, rule |-> NoRule]
    <2>1. op \in PersistOp
      BY DEF PersistOp
    <2>2. pending' = pending \/ pending' = Append(pending, op)
      BY DEF EraseRule, queueDel
    <2> HIDE DEF op
    <2>3. pending \in Seq(PersistOp)
      OBVIOUS
    <2>4. Append(pending, op) \in Seq(PersistOp)
      BY <2>1, <2>3, AppendProperties
    <2> QED
      BY <2>2, <2>3, <2>4
  <1> QED
    BY <1>1, <1>2, <1>3, <1>5

LEMMA RememberType ==
  ASSUME TypeOK, NEW k \in Reports, NEW u \in 0 .. MaxNow, Remember(k, u)
  PROVE  SeenType'
  <1> USE EngineAssumption, TypeParts
  <1> DEFINE all   == [seen EXCEPT ![k] = u]
             order == Append(seenOrder, <<k, u>>)
             Left(n) == [j \in Reports |->
                IF \E m \in 1 .. n : order[m] = <<j, all[j]>> THEN -1 ELSE all[j]]
  <1>1. all \in [Reports -> -1 .. MaxNow]
    BY DEF SeenType
  <1>2. order \in Seq(Reports \X (0 .. MaxNow)) /\ Len(order) \in Nat
    BY AppendProperties DEF SeenType
  <1>3. PICK n \in 0 .. Len(order) : seen' = Left(n) /\ seenOrder' = SubSeq(order, n + 1, Len(order))
    BY DEF Remember
  <1>4. Left(n) \in [Reports -> -1 .. MaxNow]
    BY <1>1
  <1>5. SubSeq(order, n + 1, Len(order)) \in Seq(Reports \X (0 .. MaxNow))
    <2> HIDE DEF order
    <2>1. \A m \in n + 1 .. Len(order) : order[m] \in Reports \X (0 .. MaxNow)
      BY <1>2
    <2> QED
      BY <2>1, <1>2, SubSeqProperties
  <1> QED
    BY <1>3, <1>4, <1>5 DEF SeenType

LEMMA RiskRuleType ==
  ASSUME TypeOK, NEW t \in Ttls, NEW u \in 0 .. MaxNow, ver < MaxVer
  PROVE  ruleFromRisk(t, u) \in Rules /\ ruleFromRisk(t, u).version = ver + 1
  <1> USE EngineAssumption
  <1>1. ruleFromRisk(t, u).expireAtMs \in 0 .. TimeMax
    BY DEF ruleFromRisk, TypeOK
  <1>2. ver + 1 \in 1 .. MaxVer
    BY DEF TypeOK
  <1> QED
    BY <1>1, <1>2 DEF ruleFromRisk, Rules

LEMMA AdminRuleType ==
  ASSUME TypeOK, NEW a \in Acts, NEW t \in Ttls, NEW w \in Reasons, ver < MaxVer,
         NEW u \in 0 .. MaxNow, t = 0 \/ t <= TimeMax - u
  PROVE  AdminRule(a, t, w, u) \in Rules /\ AdminRule(a, t, w, u).version = ver + 1
  <1> USE EngineAssumption
  <1>1. AdminRule(a, t, w, u).expireAtMs \in 0 .. TimeMax
    BY DEF AdminRule, TypeOK
  <1>2. ver + 1 \in 1 .. MaxVer
    BY DEF TypeOK
  <1> QED
    BY <1>1, <1>2 DEF AdminRule, Rules

LEMMA NoBatch ==
  /\ << >> \in Seq(PersistOp)
  /\ [c \in Callers |-> << >>] \in [Callers -> Seq(PersistOp)]
  /\ [c \in Callers |-> 0] \in [Callers -> Nat]
  <1>1. << >> \in Seq(PersistOp)
    OBVIOUS
  <1> QED
    BY <1>1

(* A suffix of the queue is a queue.                                       *)
LEMMA SuffixType ==
  ASSUME NEW S, NEW q \in Seq(S), NEW n \in Nat
  PROVE  SubSeq(q, n + 1, Len(q)) \in Seq(S)
  BY SubSeqProperties

-----------------------------------------------------------------------------
LEMMA TypeInit == Init => TypeOK
  <1> SUFFICES ASSUME Init PROVE TypeOK
    OBVIOUS
  <1> USE EngineAssumption DEF Init
  <1>1. MemType /\ SeenType
    BY DEF MemType, SeenType, Node
  <1>2. CallType
    BY DEF CallType, PCs, Conts
  <1>3. FlushType
    BY NoBatch DEF FlushType
  <1>4. DbType /\ RestType
    BY DEF DbType, RestType
  <1> QED
    BY <1>1, <1>2, <1>3, <1>4, TypeParts

LEMMA TypeStep == TypeOK /\ [Next]_vars => TypeOK'
  <1> SUFFICES ASSUME TypeOK, [Next]_vars PROVE TypeOK'
    OBVIOUS
  <1> USE EngineAssumption
  <1>0. MemType /\ SeenType /\ CallType /\ FlushType /\ DbType /\ RestType
    BY TypeParts
  <1>p. MemType' /\ SeenType' /\ CallType' /\ FlushType' /\ DbType' /\ RestType' => TypeOK'
    BY TypeParts DEF TypeOK, MemType, SeenType, CallType, FlushType, DbType, RestType, LogEntries
  <1> USE DEF memVars, flushVars, sweepVars, dbVars
  <1>u. \A c \in Callers : at[c] \in 0 .. MaxNow
    BY <1>0 DEF CallType
  <1>a. 0 \in 0 .. MaxNow /\ now \in 0 .. MaxNow
    BY <1>0 DEF RestType
  <1>1. ASSUME NEW c \in Callers, NEW i \in RiskIds, NEW k \in Reports \cup {Anon},
               NEW t \in Ttls, OnRisk(c, i, k, t)
        PROVE  TypeOK'
    <2> USE <1>1 DEF OnRisk
    <2>1. MemType'
      BY <1>u, PutRuleType, RiskRuleType DEF RiskIds
    <2>2. SeenType'
      BY <1>0, <1>u, RememberType DEF SeenType
    <2>3. CallType' /\ FlushType' /\ DbType' /\ RestType'
      BY <1>0, <1>a DEF CallType, FlushType, DbType, RestType, StartFlush, PCs, Conts
    <2> QED
      BY <2>1, <2>2, <2>3, <1>p
  <1>2. ASSUME NEW c \in Callers, NEW i \in RiskIds, NEW k \in Reports \cup {Anon},
               NEW t \in Ttls, OnRiskReject(c, i, k, t)
        PROVE  TypeOK'
    <2> USE <1>2 DEF OnRiskReject
    <2>1. SeenType'
      BY <1>u, RememberType
    <2>2. MemType' /\ CallType' /\ FlushType' /\ DbType' /\ RestType'
      BY <1>0, <1>a DEF MemType, CallType, FlushType, DbType, RestType, Returns, PCs
    <2> QED
      BY <2>1, <2>2, <1>p
  <1>3. ASSUME NEW c \in Callers, NEW i \in AdminIds, NEW a \in Acts, NEW t \in Ttls,
               NEW w \in Reasons, SetAdmin(c, i, a, t, w)
        PROVE  TypeOK'
    <2> USE <1>3 DEF SetAdmin
    <2>0. i \in Ids
      BY DEF AdminIds
    <2>1. MemType' /\ CallType'
      <3>1. CASE store[i] # NoRule /\ SameRule(store[i], AdminRule(a, t, w, at[c]))
        <4>1. [id |-> i, rule |-> store[i]] \in Edit
          BY <1>0, <2>0 DEF MemType, Edit
        <4>2. MemType'
          BY <1>0, <3>1 DEF MemType
        <4> QED
          BY <1>0, <1>a, <3>1, <4>1, <4>2 DEF CallType, StartFlush, PCs, Conts
      <3>2. CASE ~(store[i] # NoRule /\ SameRule(store[i], AdminRule(a, t, w, at[c])))
        <4>1. AdminRule(a, t, w, at[c]) \in Rules /\ AdminRule(a, t, w, at[c]).version = ver + 1
              /\ PutRule(i, AdminRule(a, t, w, at[c]), at[c])
          BY <1>u, <3>2, AdminRuleType
        <4>2. MemType'
          BY <2>0, <4>1, PutRuleType
        <4>3. [id |-> i, rule |-> AdminRule(a, t, w, at[c])] \in Edit
          BY <2>0, <4>1 DEF Edit
        <4>4. CallType'
          BY <1>0, <1>a, <3>2, <4>3 DEF CallType, StartFlush, PCs, Conts
        <4> QED
          BY <4>2, <4>4
      <3> QED
        BY <3>1, <3>2
    <2>2. SeenType' /\ FlushType' /\ DbType' /\ RestType'
      BY <1>0 DEF SeenType, FlushType, DbType, RestType
    <2> QED
      BY <2>1, <2>2, <1>p
  <1>4. ASSUME NEW c \in Callers, NEW i \in Ids, Remove(c, i)
        PROVE  TypeOK'
    <2> USE <1>4 DEF Remove
    <2>1. MemType'
      BY <1>0, EraseRuleType DEF MemType
    <2>2. SeenType' /\ FlushType' /\ DbType' /\ RestType'
      BY <1>0 DEF SeenType, FlushType, DbType, RestType
    <2>3. [id |-> i, rule |-> NoRule] \in Edit
      BY DEF Edit
    <2>4. CallType'
      BY <1>0, <1>a, <2>3 DEF CallType, StartFlush, PCs, Conts
    <2> QED
      BY <2>1, <2>2, <2>4, <1>p
  <1>5. ASSUME NEW c \in Callers, TickExpiry(c) PROVE TypeOK'
    BY <1>0, <1>a, <1>5, <1>p DEF TickExpiry, MemType, SeenType, CallType, FlushType, DbType,
       RestType, StartFlush, PCs, Conts
  <1>6. ASSUME NEW c \in Callers, SweepBegin(c) PROVE TypeOK'
    BY <1>0, <1>6, <1>p DEF SweepBegin, MemType, SeenType, CallType, FlushType, DbType,
       RestType, PCs, Conts
  <1>7. ASSUME NEW c \in Callers, SweepNode(c) PROVE TypeOK'
    <2> USE <1>7 DEF SweepNode
    <2>1. PICK n \in due :
             /\ due' = due \ {n}
             /\ \/ EraseRule(n.id) /\ cont' = [cont EXCEPT ![c] = "fire"]
                \/ UNCHANGED <<ver, store, log, heap, persisted, pending, promise, cont>>
      OBVIOUS
    <2>2. n.id \in Ids
      BY <1>0 DEF RestType, Node
    <2>3. MemType'
      BY <1>0, <2>1, <2>2, EraseRuleType DEF MemType
    <2>4. SeenType' /\ CallType' /\ FlushType' /\ DbType' /\ RestType'
      BY <1>0, <2>1 DEF SeenType, CallType, FlushType, DbType, RestType, Conts
    <2> QED
      BY <2>3, <2>4, <1>p
  <1>8. ASSUME NEW c \in Callers, SweepEnd(c) PROVE TypeOK'
    BY <1>0, <1>a, <1>8, <1>p DEF SweepEnd, MemType, SeenType, CallType, FlushType, DbType,
       RestType, PCs, Conts
  <1>9. ASSUME NEW c \in Callers, FlushEnter(c) PROVE TypeOK'
    BY <1>0, <1>9, <1>p DEF FlushEnter, FlushReturns, MemType, SeenType, CallType, FlushType,
       DbType, RestType, PCs, Conts
  <1>10. ASSUME NEW c \in Callers, FlushTake(c) PROVE TypeOK'
    <2> USE <1>10 DEF FlushTake
    <2>1. \A n \in Nat : n <= Len(pending) => SubSeq(pending, 1, n) \in Seq(PersistOp)
      BY <1>0, SubSeqProperties DEF MemType
    <2> DEFINE size == IF Len(pending) < Batch THEN Len(pending) ELSE Batch
    <2>4. size \in Nat /\ size <= Len(pending)
      BY <1>0 DEF MemType
    <2>5. SubSeq(pending, 1, size) \in Seq(PersistOp)
      BY <2>1, <2>4
    <2>2. FlushType'
      BY <1>0, <2>5 DEF FlushType
    <2>3. MemType' /\ SeenType' /\ CallType' /\ DbType' /\ RestType'
      BY <1>0 DEF MemType, SeenType, CallType, DbType, RestType, PCs, Conts
    <2> QED
      BY <2>2, <2>3, <1>p
  <1>11. ASSUME NEW c \in Callers, FlushWrite(c) PROVE TypeOK'
    <2> USE <1>11 DEF FlushWrite
    <2>1. batch[c][done[c] + 1] \in PersistOp
      BY <1>0 DEF FlushType
    <2>2. DbType'
      <3> DEFINE op == batch[c][done[c] + 1]
      <3>1. op.id \in Ids /\ op.version \in Nat /\ op.rule \in Rules \cup {NoRule}
        BY <2>1 DEF PersistOp
      <3>2. DbApply(op)
        OBVIOUS
      <3> HIDE DEF op
      <3>3. CASE op.rule = NoRule
        BY <1>0, <3>1, <3>2, <3>3 DEF DbApply, DbDel, DelTomb, DelRules, Max2, DbType
      <3>4. CASE op.rule # NoRule
        <4>1. /\ dbTomb' = SaveTomb(op.id, op.rule) /\ dbRules' = SaveRules(op.id, op.rule)
              /\ lastVer' = Max2(lastVer, op.version)
          BY <3>2, <3>4 DEF DbApply, DbSave
        <4>2. dbTomb' \in [Ids -> Nat]
          BY <1>0, <3>1, <4>1 DEF SaveTomb, DbType
        <4>3. dbRules' \in [Ids -> Rules \cup {NoRule}]
          BY <1>0, <3>1, <3>4, <4>1 DEF SaveRules, DbType
        <4> QED
          BY <1>0, <3>1, <4>1, <4>2, <4>3 DEF Max2, DbType
      <3> QED
        BY <3>3, <3>4
    <2>3. MemType' /\ SeenType' /\ CallType' /\ FlushType' /\ RestType'
      BY <1>0 DEF MemType, SeenType, CallType, FlushType, RestType
    <2> QED
      BY <2>2, <2>3, <1>p
  <1>12. ASSUME NEW c \in Callers, FlushDone(c) PROVE TypeOK'
    <2> USE <1>12 DEF FlushDone
    <2>1. MemType'
      BY <1>0, SuffixType DEF MemType, FlushType
    <2>2. FlushType'
      BY <1>0, NoBatch DEF FlushType
    <2>3. SeenType' /\ CallType' /\ DbType' /\ RestType'
      BY <1>0 DEF SeenType, CallType, DbType, RestType, PCs
    <2> QED
      BY <2>1, <2>2, <2>3, <1>p
  <1>13. ASSUME NEW c \in Callers, FlushFail(c) PROVE TypeOK'
    <2> USE <1>13 DEF FlushFail
    <2>1. MemType'
      BY <1>0, SuffixType DEF MemType, FlushType
    <2>2. FlushType'
      BY <1>0, NoBatch DEF FlushType
    <2>3. SeenType' /\ CallType' /\ DbType' /\ RestType'
      BY <1>0 DEF SeenType, CallType, DbType, RestType, FlushReturns, PCs, Conts
    <2> QED
      BY <2>1, <2>2, <2>3, <1>p
  <1>14. ASSUME NEW c \in Callers, FlushRelease(c) PROVE TypeOK'
    BY <1>0, <1>14, <1>p DEF FlushRelease, MemType, SeenType, CallType, FlushType,
       DbType, RestType, PCs, Conts
  <1>15. ASSUME NEW c \in Callers, FlushRecheck(c) PROVE TypeOK'
    <2> USE <1>15 DEF FlushRecheck
    <2>1. MemType'
      BY <1>0 DEF MemType, CallType, Edit
    <2>2. SeenType' /\ FlushType' /\ DbType' /\ RestType'
      BY <1>0 DEF SeenType, FlushType, DbType, RestType
    <2>3. CallType'
      BY <1>0 DEF CallType, FlushReturns, PCs, Conts
    <2> QED
      BY <2>1, <2>2, <2>3, <1>p
  <1>16. ASSUME NEW c \in Callers, Fire(c) PROVE TypeOK'
    BY <1>0, <1>16, <1>p DEF Fire, MemType, SeenType, CallType, FlushType,
       DbType, RestType, PCs, Conts
  <1>17. ASSUME Clock PROVE TypeOK'
    BY <1>0, <1>17, <1>p DEF Clock, MemType, SeenType, CallType, FlushType, DbType, RestType
  <1>18. ASSUME Crash PROVE TypeOK'
    <2> USE <1>18 DEF Crash
    <2>1. MemType'
      BY <1>0, NoBatch DEF MemType
    <2>5. SeenType'
      <3>1. << >> \in Seq(Reports \X (0 .. MaxNow))
        OBVIOUS
      <3> QED
        BY <3>1 DEF SeenType
    <2>2. CallType'
      BY <1>a DEF CallType, PCs, Conts
    <2>3. FlushType'
      BY NoBatch DEF FlushType
    <2>6. up' \in BOOLEAN
      OBVIOUS
    <2>7. mtx' \in Callers \cup {None} /\ due' \subseteq Node
      OBVIOUS
    <2>8. crashes' \in Nat
      BY <1>0 DEF RestType
    <2>4. DbType' /\ RestType'
      BY <1>0, <2>6, <2>7, <2>8 DEF DbType, RestType
    <2> QED
      BY <2>1, <2>2, <2>3, <2>4, <2>5, <1>p
  <1>19. ASSUME Restore PROVE TypeOK'
    <2> USE <1>19 DEF Restore
    <2>1. Loaded \in [Ids -> Rules \cup {NoRule}]
      BY <1>0 DEF Loaded, DbType
    <2>2. heap' \subseteq Node
      <3> SUFFICES ASSUME NEW i \in Ids, Loaded[i] # NoRule, Loaded[i].expireAtMs # 0
                   PROVE  [expireAtMs |-> Loaded[i].expireAtMs, id |-> i,
                           version |-> Loaded[i].version] \in Node
        OBVIOUS
      <3> QED
        BY <2>1 DEF Node, Rules
    <2>3. log' \in Seq(LogEntries)
      OBVIOUS
    <2>4. MemType'
      BY <1>0, <2>1, <2>2, <2>3 DEF MemType, DbType
    <2>5. SeenType' /\ CallType' /\ FlushType' /\ DbType' /\ RestType'
      BY <1>0, <2>1 DEF SeenType, CallType, FlushType, DbType, RestType
    <2> QED
      BY <2>4, <2>5, <1>p
  <1>20. ASSUME UNCHANGED vars PROVE TypeOK'
    BY <1>20 DEF TypeOK, vars
  <1>21. ASSUME NEW c \in Callers, ReadClock(c) \/ SweepRead(c) \/ CallReturns(c)
         PROVE  TypeOK'
    <2> USE <1>21 DEF ReadClock, SweepRead, CallReturns, Returns
    <2>1. MemType' /\ SeenType' /\ FlushType' /\ DbType' /\ RestType'
      BY <1>0 DEF MemType, SeenType, FlushType, DbType, RestType
    <2>2. CallType'
      BY <1>0, <1>a DEF CallType, PCs
    <2> QED
      BY <2>1, <2>2, <1>p
  <1> QED
    BY <1>1, <1>2, <1>3, <1>4, <1>5, <1>6, <1>7, <1>8, <1>9, <1>10, <1>11, <1>12,
       <1>13, <1>14, <1>15, <1>16, <1>17, <1>18, <1>19, <1>20, <1>21
       DEF Next, EditCall, SweepStep, FlushStep

(* Every variable keeps its type, whatever the number of callers and ids.  *)
THEOREM EngineTyped == Spec => []TypeOK
  BY TypeInit, TypeStep, PTL DEF Spec

-----------------------------------------------------------------------------
(* The calls: who holds m_flushing, who still has to write, who to announce.*)

Holding == {"take", "write", "release"}

(* A process that is down has nothing in memory.                           *)
Down == ~up => /\ pending = << >> /\ mtx = None /\ heap = {} /\ due = {}
               /\ \A c \in Callers : pc[c] = "idle"

(* m_flushing is up exactly while one caller is between its compare-exchange*)
(* and its release.                                                        *)
Holder ==
    /\ \A c \in Callers : pc[c] \in Holding => flushing
    /\ \A c, d \in Callers : pc[c] \in Holding /\ pc[d] \in Holding => c = d
    /\ flushing => \E c \in Callers : pc[c] \in Holding

(* A version not yet announced has a caller that will fire; a sweep that   *)
(* removed something still holds m_mtx.                                    *)
Announcing ==
    /\ up => announced = ver \/ \E c \in Callers : /\ cont[c] = "fire"
                                                /\ pc[c] \notin {"idle", "call"}
    /\ \A c \in Callers : pc[c] \in {"sweep", "pop"} /\ cont[c] = "fire" => mtx = c

CallInv == Down /\ Holder /\ QueueIsWatched /\ Announcing

(* A call begins: its change, if it makes one, is made and it goes on to   *)
(* flush.                                                                  *)
CallStarts(c) ==
    /\ up /\ up' /\ pc[c] \in {"idle", "call"} /\ pc' = [pc EXCEPT ![c] = "flush"]
    /\ \/ cont' = [cont EXCEPT ![c] = "fire"]
       \/ cont' = [cont EXCEPT ![c] = "return"] /\ ver' = ver
    /\ UNCHANGED <<flushing, mtx, announced>>

LEMMA CallStep == TypeOK /\ CallInv /\ [Next]_vars => CallInv'
  <1> SUFFICES ASSUME TypeOK, CallInv, [Next]_vars PROVE CallInv'
    OBVIOUS
  <1> USE EngineAssumption, TypeParts
          DEF CallInv, CallType, FlushType, RestType, PCs, Conts, Holding,
              memVars, flushVars, sweepVars, dbVars
  <1>s. ASSUME NEW c \in Callers, CallStarts(c) PROVE CallInv'
    <2> USE <1>s DEF CallStarts
    <2>1. Down' /\ QueueIsWatched'
      BY DEF Down, QueueIsWatched
    <2>2. Holder'
      BY DEF Holder
    <2>3. Announcing'
      BY DEF Announcing
    <2> QED
      BY <2>1, <2>2, <2>3
  <1>1. ASSUME NEW c \in Callers, NEW i \in RiskIds, NEW k \in Reports \cup {Anon},
               NEW t \in Ttls, OnRisk(c, i, k, t)
        PROVE  CallInv'
    <2>1. CallStarts(c)
      BY <1>1 DEF OnRisk, Calls, PutRule, record, StartFlush, CallStarts
    <2> QED
      BY <2>1, <1>s
  <1>2. ASSUME NEW c \in Callers, NEW i \in RiskIds, NEW k \in Reports \cup {Anon},
               NEW t \in Ttls, OnRiskReject(c, i, k, t)
        PROVE  CallInv'
    <2> USE <1>2 DEF OnRiskReject, Calls, Returns
    <2>1. Down'
      BY DEF Down
    <2>2. Holder'
      BY DEF Down, Holder
    <2>3. QueueIsWatched'
      BY DEF Down, Holder, QueueIsWatched
    <2>4. Announcing'
      BY DEF Down, Announcing
    <2> QED
      BY <2>1, <2>2, <2>3, <2>4
  <1>3. ASSUME NEW c \in Callers, NEW i \in AdminIds, NEW a \in Acts, NEW t \in Ttls,
               NEW w \in Reasons, SetAdmin(c, i, a, t, w)
        PROVE  CallInv'
    <2>1. CallStarts(c)
      BY <1>3 DEF SetAdmin, Calls, PutRule, record, StartFlush, CallStarts
    <2> QED
      BY <2>1, <1>s
  <1>4. ASSUME NEW c \in Callers, NEW i \in Ids, Remove(c, i) PROVE CallInv'
    <2>1. CallStarts(c)
      BY <1>4 DEF Remove, EraseRule, record, StartFlush, CallStarts
    <2> QED
      BY <2>1, <1>s
  <1>5. ASSUME NEW c \in Callers, TickExpiry(c) PROVE CallInv'
    <2> USE <1>5 DEF TickExpiry, StartFlush
    <2>1. Down'
      BY DEF Down
    <2>2. Holder'
      BY DEF Down, Holder
    <2>3. QueueIsWatched'
      BY DEF Down, Holder, QueueIsWatched
    <2>4. Announcing'
      BY DEF Down, Announcing
    <2> QED
      BY <2>1, <2>2, <2>3, <2>4
  <1>6. ASSUME NEW c \in Callers, SweepBegin(c) PROVE CallInv'
    <2> USE <1>6 DEF SweepBegin
    <2>1. Down'
      BY DEF Down
    <2>2. Holder'
      BY DEF Down, Holder
    <2>3. QueueIsWatched'
      BY DEF Down, Holder, QueueIsWatched
    <2>4. Announcing'
      BY DEF Down, Announcing
    <2> QED
      BY <2>1, <2>2, <2>3, <2>4
  <1>7. ASSUME NEW c \in Callers, SweepNode(c) PROVE CallInv'
    <2> USE <1>7 DEF SweepNode, EraseRule, record
    <2>1. Down'
      BY DEF Down
    <2>2. Holder'
      BY DEF Down, Holder
    <2>3. QueueIsWatched'
      BY DEF Down, Holder, QueueIsWatched
    <2>4. Announcing'
      BY DEF Down, Announcing
    <2> QED
      BY <2>1, <2>2, <2>3, <2>4
  <1>8. ASSUME NEW c \in Callers, SweepEnd(c) PROVE CallInv'
    <2> USE <1>8 DEF SweepEnd
    <2>1. Down'
      BY DEF Down
    <2>2. Holder'
      BY DEF Down, Holder
    <2>3. QueueIsWatched'
      BY DEF Down, Holder, QueueIsWatched
    <2>4. Announcing'
      BY DEF Down, Announcing
    <2> QED
      BY <2>1, <2>2, <2>3, <2>4
  <1>9. ASSUME NEW c \in Callers, FlushEnter(c) PROVE CallInv'
    <2> USE <1>9 DEF FlushEnter, FlushReturns
    <2>1. Down'
      BY DEF Down
    <2>2. Holder'
      <3>1. CASE flushing
        <4>1. \A d \in Callers : pc'[d] \in Holding <=> pc[d] \in Holding
          BY <3>1
        <4> QED
          BY <3>1, <4>1 DEF Holder
      <3>2. CASE ~flushing
        <4>1. \A d \in Callers : pc'[d] \in Holding <=> d = c
          BY <3>2 DEF Holder
        <4> QED
          BY <3>2, <4>1 DEF Holder
      <3> QED
        BY <3>1, <3>2
    <2>3. QueueIsWatched'
      BY DEF Down, Holder, QueueIsWatched
    <2>4. Announcing'
      BY DEF Down, Announcing
    <2> QED
      BY <2>1, <2>2, <2>3, <2>4
  <1>10. ASSUME NEW c \in Callers, FlushTake(c) PROVE CallInv'
    <2> USE <1>10 DEF FlushTake
    <2>1. Down'
      BY DEF Down
    <2>2. Holder'
      BY DEF Down, Holder
    <2>3. QueueIsWatched'
      BY DEF Down, Holder, QueueIsWatched
    <2>4. Announcing'
      BY DEF Down, Announcing
    <2> QED
      BY <2>1, <2>2, <2>3, <2>4
  <1>11. ASSUME NEW c \in Callers, FlushWrite(c) PROVE CallInv'
    <2> USE <1>11 DEF FlushWrite
    <2>1. Down'
      BY DEF Down
    <2>2. Holder'
      BY DEF Down, Holder
    <2>3. QueueIsWatched'
      BY DEF Down, Holder, QueueIsWatched
    <2>4. Announcing'
      BY DEF Down, Announcing
    <2> QED
      BY <2>1, <2>2, <2>3, <2>4
  <1>12. ASSUME NEW c \in Callers, FlushDone(c) PROVE CallInv'
    <2> USE <1>12 DEF FlushDone
    <2>1. Down'
      BY DEF Down
    <2>2. Holder'
      BY DEF Down, Holder
    <2>3. QueueIsWatched'
      BY DEF Down, Holder, QueueIsWatched
    <2>4. Announcing'
      BY DEF Down, Announcing
    <2> QED
      BY <2>1, <2>2, <2>3, <2>4
  <1>13. ASSUME NEW c \in Callers, FlushFail(c) PROVE CallInv'
    <2> USE <1>13 DEF FlushFail, FlushReturns
    <2>1. Down'
      BY DEF Down
    <2>2. Holder'
      <3>1. \A d \in Callers : pc'[d] \notin Holding
        BY DEF Holder
      <3>2. ~flushing'
        OBVIOUS
      <3> QED
        BY <3>1, <3>2 DEF Holder
    <2>3. QueueIsWatched'
      BY DEF Down, Holder, QueueIsWatched
    <2>4. Announcing'
      BY DEF Down, Announcing
    <2> QED
      BY <2>1, <2>2, <2>3, <2>4
  <1>14. ASSUME NEW c \in Callers, FlushRelease(c) PROVE CallInv'
    <2> USE <1>14 DEF FlushRelease
    <2>1. Down'
      BY DEF Down
    <2>2. Holder'
      <3>1. \A d \in Callers : pc'[d] \notin Holding
        BY DEF Holder
      <3>2. ~flushing'
        OBVIOUS
      <3> QED
        BY <3>1, <3>2 DEF Holder
    <2>3. QueueIsWatched'
      BY DEF Down, Holder, QueueIsWatched
    <2>4. Announcing'
      BY DEF Down, Announcing
    <2> QED
      BY <2>1, <2>2, <2>3, <2>4
  <1>15. ASSUME NEW c \in Callers, FlushRecheck(c) PROVE CallInv'
    <2> USE <1>15 DEF FlushRecheck, FlushReturns
    <2>1. Down'
      BY DEF Down
    <2>2. Holder'
      <3>1. \A d \in Callers : pc'[d] \in Holding <=> pc[d] \in Holding
        OBVIOUS
      <3>2. flushing' = flushing
        OBVIOUS
      <3> QED
        BY <3>1, <3>2 DEF Holder
    <2>3. QueueIsWatched'
      BY DEF Down, Holder, QueueIsWatched
    <2>4. Announcing'
      BY DEF Down, Announcing
    <2> QED
      BY <2>1, <2>2, <2>3, <2>4
  <1>16. ASSUME NEW c \in Callers, Fire(c) PROVE CallInv'
    <2> USE <1>16 DEF Fire
    <2>1. Down'
      BY DEF Down
    <2>2. Holder'
      BY DEF Down, Holder
    <2>3. QueueIsWatched'
      BY DEF Down, Holder, QueueIsWatched
    <2>4. Announcing'
      BY DEF Down, Announcing
    <2> QED
      BY <2>1, <2>2, <2>3, <2>4
  <1>17. ASSUME Clock PROVE CallInv'
    <2> USE <1>17 DEF Clock
    <2>1. Down'
      BY DEF Down
    <2>2. Holder'
      BY DEF Down, Holder
    <2>3. QueueIsWatched'
      BY DEF Down, Holder, QueueIsWatched
    <2>4. Announcing'
      BY DEF Down, Announcing
    <2> QED
      BY <2>1, <2>2, <2>3, <2>4
  <1>18. ASSUME Crash PROVE CallInv'
    <2> USE <1>18 DEF Crash
    <2>1. Down'
      BY DEF Down
    <2>2. Holder'
      BY DEF Down, Holder
    <2>3. QueueIsWatched'
      BY DEF Down, Holder, QueueIsWatched
    <2>4. Announcing'
      BY DEF Down, Announcing
    <2> QED
      BY <2>1, <2>2, <2>3, <2>4
  <1>19. ASSUME Restore PROVE CallInv'
    <2> USE <1>19 DEF Restore
    <2>1. Down'
      BY DEF Down
    <2>2. Holder'
      BY DEF Down, Holder
    <2>3. QueueIsWatched'
      BY DEF Down, Holder, QueueIsWatched
    <2>4. Announcing'
      BY DEF Down, Announcing
    <2> QED
      BY <2>1, <2>2, <2>3, <2>4
  <1>20. ASSUME UNCHANGED vars PROVE CallInv'
    <2> USE <1>20 DEF vars
    <2>1. Down'
      BY DEF Down
    <2>2. Holder'
      BY DEF Down, Holder
    <2>3. QueueIsWatched'
      BY DEF Down, Holder, QueueIsWatched
    <2>4. Announcing'
      BY DEF Down, Announcing
    <2> QED
      BY <2>1, <2>2, <2>3, <2>4
  <1>21. ASSUME NEW c \in Callers, ReadClock(c) \/ SweepRead(c) \/ CallReturns(c)
         PROVE  CallInv'
    <2> USE <1>21 DEF ReadClock, SweepRead, CallReturns, Calls, Returns
    <2>1. Down'
      BY DEF Down
    <2>2. Holder'
      <3>1. \A d \in Callers : pc'[d] \in Holding <=> pc[d] \in Holding
        OBVIOUS
      <3> QED
        BY <3>1 DEF Holder
    <2>3. QueueIsWatched'
      BY DEF Down, Holder, QueueIsWatched
    <2>4. Announcing'
      BY DEF Down, Announcing
    <2> QED
      BY <2>1, <2>2, <2>3, <2>4
  <1> QED
    BY <1>1, <1>2, <1>3, <1>4, <1>5, <1>6, <1>7, <1>8, <1>9, <1>10, <1>11, <1>12,
       <1>13, <1>14, <1>15, <1>16, <1>17, <1>18, <1>19, <1>20, <1>21
       DEF Next, EditCall, SweepStep, FlushStep

(* Nothing queued is forgotten, and every version is announced: the two    *)
(* promises of flushPersistence and fire to the callers of the engine.     *)
LEMMA CallInit == Init => CallInv
  BY EngineAssumption DEF Init, CallInv, Down, Holder, QueueIsWatched, Announcing, Holding

LEMMA CallsInvariant == Spec => [](TypeOK /\ CallInv)
  BY TypeInit, TypeStep, CallInit, CallStep, PTL DEF Spec

(* flushPersistence leaves no operation unattended in m_pending: the caller*)
(* that lost m_flushing can rely on the one that holds it.                 *)
THEOREM QueueWatched == Spec => []QueueIsWatched
  BY CallsInvariant, PTL DEF CallInv

(* When all calls are over, onChange was fired for the last version.       *)
THEOREM AllAnnounced == Spec => []ChangesAnnounced
  <1>1. CallInv => ChangesAnnounced
    BY DEF CallInv, Announcing, ChangesAnnounced
  <1> QED
    BY <1>1, CallsInvariant, PTL

-----------------------------------------------------------------------------
(* The sweep: what a running tickExpiry has popped, and from which clock.  *)

Sweeping == /\ mtx = None => due = {}
            /\ \A c \in Callers : mtx = c => /\ pc[c] = "pop"
                                            /\ \A n \in due : n.expireAtMs <= at[c]
            /\ \A c \in Callers : at[c] <= now

SweepInv == Sweeping /\ TimedRulesTracked

LEMMA SweepInit == Init => SweepInv
  BY EngineAssumption DEF Init, SweepInv, Sweeping, TimedRulesTracked

NodeOf(i) == [expireAtMs |-> store[i].expireAtMs, id |-> i, version |-> store[i].version]

(* A step of a caller that is not popping leaves the sweep alone.          *)
Aside(c) == /\ pc[c] # "pop" /\ at'[c] <= now'
            /\ \A d \in Callers : d # c => pc'[d] = pc[d] /\ at'[d] = at[d]

LEMMA SweepInvStep == TypeOK /\ CallInv /\ SweepInv /\ [Next]_vars => SweepInv'
  <1> SUFFICES ASSUME TypeOK, CallInv, SweepInv, [Next]_vars PROVE SweepInv'
    OBVIOUS
  <1>t. MemType /\ RestType /\ DbType /\ CallType /\ Sweeping /\ TimedRulesTracked /\ Down
    BY TypeParts DEF CallInv, SweepInv
  <1> USE EngineAssumption, <1>t DEF SweepInv, memVars, flushVars, sweepVars, dbVars
  <1>a. now \in Nat /\ \A c \in Callers : at[c] \in 0 .. MaxNow
    BY DEF RestType, CallType
  <1>q. ASSUME NEW c \in Callers, Aside(c), UNCHANGED <<up, now, mtx, due, heap, store>>
        PROVE  SweepInv'
    <2>1. Sweeping'
      BY <1>q, <1>a DEF Sweeping, Aside
    <2> QED
      BY <1>q, <2>1 DEF TimedRulesTracked
  <1>p. ASSUME NEW c \in Callers, Aside(c), NEW i \in Ids, NEW r \in Rules, mtx = None, NEW u,
               PutRule(i, r, u), UNCHANGED <<up, now, mtx, due>>
        PROVE  SweepInv'
    <2>1. Sweeping'
      BY <1>p, <1>a DEF Sweeping, Aside
    <2>2. TimedRulesTracked'
      <3> SUFFICES ASSUME up', NEW j \in Ids, store'[j] # NoRule, store'[j].expireAtMs # 0
                   PROVE  NodeOf(j)' \in heap' \cup due'
        BY DEF TimedRulesTracked, NodeOf
      <3>1. CASE j = i
        <4>1. store'[j] = r
          BY <1>p, <3>1 DEF PutRule, MemType
        <4> QED
          BY <1>p, <3>1, <4>1 DEF PutRule, expiryPush, NodeOf
      <3>2. CASE j # i
        <4>1. store'[j] = store[j] /\ heap \subseteq heap'
          BY <1>p, <3>2 DEF PutRule, MemType, expiryPush
        <4>2. NodeOf(j) \in heap \cup due
          BY <1>p, <4>1 DEF TimedRulesTracked, NodeOf
        <4> QED
          BY <1>p, <4>1, <4>2 DEF NodeOf
      <3> QED
        BY <3>1, <3>2
    <2> QED
      BY <2>1, <2>2
  <1>1. ASSUME NEW c \in Callers, NEW i \in RiskIds, NEW k \in Reports \cup {Anon},
               NEW t \in Ttls, OnRisk(c, i, k, t)
        PROVE  SweepInv'
    <2>1. Aside(c)
      BY <1>1, <1>a DEF OnRisk, Calls, StartFlush, Aside, CallType
    <2> QED
      BY <1>1, <1>p, <1>a, <2>1, RiskRuleType DEF OnRisk, Calls, RiskIds
  <1>2. ASSUME NEW c \in Callers, NEW i \in RiskIds, NEW k \in Reports \cup {Anon},
               NEW t \in Ttls, OnRiskReject(c, i, k, t)
        PROVE  SweepInv'
    <2>1. Aside(c)
      BY <1>2, <1>a DEF OnRiskReject, Calls, Returns, Aside, CallType
    <2> QED
      BY <1>2, <1>q, <2>1 DEF OnRiskReject
  <1>3. ASSUME NEW c \in Callers, NEW i \in AdminIds, NEW a \in Acts, NEW t \in Ttls,
               NEW w \in Reasons, SetAdmin(c, i, a, t, w)
        PROVE  SweepInv'
    <2>0. Aside(c)
      BY <1>3, <1>a DEF SetAdmin, Calls, StartFlush, Aside, CallType
    <2>1. CASE store[i] # NoRule /\ SameRule(store[i], AdminRule(a, t, w, at[c]))
      BY <1>3, <1>q, <2>0, <2>1 DEF SetAdmin
    <2>2. CASE ~(store[i] # NoRule /\ SameRule(store[i], AdminRule(a, t, w, at[c])))
      BY <1>3, <1>p, <1>a, <2>0, <2>2, AdminRuleType DEF SetAdmin, Calls, AdminIds
    <2> QED
      BY <2>1, <2>2
  <1>4. ASSUME NEW c \in Callers, NEW i \in Ids, Remove(c, i) PROVE SweepInv'
    <2>0. Aside(c)
      BY <1>4, <1>a DEF Remove, StartFlush, Aside, CallType
    <2>1. /\ UNCHANGED <<up, now, mtx, due, heap>>
          /\ store' = store \/ store' = [store EXCEPT ![i] = NoRule]
      BY <1>4 DEF Remove, EraseRule
    <2> QED
      BY <2>0, <2>1, <1>a DEF Sweeping, TimedRulesTracked, MemType, Aside
  <1>5. ASSUME NEW c \in Callers, SweepBegin(c) PROVE SweepInv'
    BY <1>5, <1>a DEF SweepBegin, Sweeping, TimedRulesTracked, RestType
  <1>6. ASSUME NEW c \in Callers, SweepNode(c) PROVE SweepInv'
    <2>1. PICK n \in due :
             /\ due' = due \ {n}
             /\ IF Reaps(n, at[c]) THEN EraseRule(n.id) ELSE UNCHANGED <<store, heap>>
             /\ UNCHANGED <<up, now, mtx, at, pc>>
      BY <1>6 DEF SweepNode
    <2>2. Sweeping'
      BY <2>1, <1>6 DEF Sweeping, SweepNode
    <2>3. heap' = heap /\ \A j \in Ids : store'[j] = store[j] \/ store'[j] = NoRule
      BY <2>1 DEF EraseRule, MemType
    <2>4. TimedRulesTracked'
      <3> SUFFICES ASSUME up', NEW j \in Ids, store'[j] # NoRule, store'[j].expireAtMs # 0
                   PROVE  NodeOf(j)' \in heap' \cup due'
        BY DEF TimedRulesTracked, NodeOf
      <3>1. store'[j] = store[j]
        BY <2>3
      <3>2. NodeOf(j) \in heap \cup due
        BY <2>1, <3>1 DEF TimedRulesTracked, NodeOf
      <3>3. ASSUME NodeOf(j) = n PROVE FALSE
        <4>1. n.id = j /\ n.version = store[j].version /\ n.expireAtMs = store[j].expireAtMs
          BY <3>3 DEF NodeOf
        <4>2. at[c] >= store[j].expireAtMs
          BY <1>6, <1>a, <4>1 DEF SweepNode, Sweeping, RestType, Node
        <4>3. Reaps(n, at[c])
          BY <3>1, <4>1, <4>2 DEF Reaps
        <4>4. store'[j] = NoRule
          BY <2>1, <4>1, <4>3 DEF EraseRule, MemType
        <4> QED
          BY <4>4
      <3>4. NodeOf(j)' = NodeOf(j)
        BY <3>1 DEF NodeOf
      <3> QED
        BY <2>1, <2>3, <3>2, <3>3, <3>4
    <2> QED
      BY <2>2, <2>4
  <1>7. ASSUME NEW c \in Callers, SweepEnd(c) PROVE SweepInv'
    BY <1>7, <1>a DEF SweepEnd, Sweeping, TimedRulesTracked, RestType, CallType
  <1>8. ASSUME NEW c \in Callers,
               \/ ReadClock(c) \/ CallReturns(c) \/ SweepRead(c)
               \/ TickExpiry(c) \/ FlushEnter(c) \/ FlushTake(c) \/ FlushWrite(c) \/ FlushDone(c)
               \/ FlushFail(c) \/ FlushRelease(c) \/ FlushRecheck(c) \/ Fire(c)
        PROVE  SweepInv'
    <2>1. /\ UNCHANGED <<up, now, mtx, due, heap, store>>
          /\ pc[c] # "pop" /\ (at' = at \/ \E u \in {0, now} : at' = [at EXCEPT ![c] = u])
      BY <1>8 DEF ReadClock, CallReturns, SweepRead, Calls, Returns, TickExpiry, StartFlush,
         FlushEnter, FlushTake, FlushWrite, FlushDone, FlushFail, FlushRelease, FlushRecheck, Fire
    <2>2. \A d \in Callers : d # c => pc'[d] = pc[d]
      BY <1>8 DEF ReadClock, CallReturns, SweepRead, Returns, TickExpiry, StartFlush, FlushReturns,
         FlushEnter, FlushTake, FlushWrite, FlushDone, FlushFail, FlushRelease, FlushRecheck, Fire,
         CallType
    <2>3. Aside(c)
      BY <2>1, <2>2, <1>a DEF Aside, CallType, Sweeping
    <2> QED
      BY <2>1, <2>3, <1>q
  <1>9. ASSUME Clock PROVE SweepInv'
    BY <1>9, <1>a DEF Clock, Sweeping, TimedRulesTracked, RestType
  <1>10. ASSUME Crash PROVE SweepInv'
    BY <1>10 DEF Crash, Sweeping, TimedRulesTracked, RestType
  <1>11. ASSUME Restore PROVE SweepInv'
    <2>1. Sweeping'
      BY <1>11 DEF Restore, Sweeping
    <2>2. TimedRulesTracked'
      BY <1>11 DEF Restore, TimedRulesTracked
    <2> QED
      BY <2>1, <2>2
  <1>12. ASSUME UNCHANGED vars PROVE SweepInv'
    BY <1>12 DEF vars, Sweeping, TimedRulesTracked
  <1> QED
    BY <1>1, <1>2, <1>3, <1>4, <1>5, <1>6, <1>7, <1>8, <1>9, <1>10, <1>11, <1>12
       DEF Next, EditCall, SweepStep, FlushStep

LEMMA SweepInvariant == Spec => [](TypeOK /\ CallInv /\ SweepInv)
  BY TypeInit, TypeStep, CallInit, CallStep, SweepInit, SweepInvStep, PTL DEF Spec

(* No timed rule is lost from the expiry heap, whatever renewals, removals *)
(* and restarts do.                                                        *)
THEOREM TimedTracked == Spec => []TimedRulesTracked
  BY SweepInvariant, PTL DEF SweepInv

(* tickExpiry removes no rule that is not due, however stale its heap node.*)
THEOREM SweepSafe == Spec => SweepRemovesOnlyDue
  <1> DEFINE OnlyDue == \A i \in Ids :
        mtx # None /\ store[i] # NoRule /\ store'[i] = NoRule /\ up' => Lapsed(store[i])
  <1>1. TypeOK /\ CallInv /\ SweepInv /\ [Next]_vars => [OnlyDue]_vars
    <2> SUFFICES ASSUME TypeOK, CallInv, SweepInv, Next, NEW i \in Ids,
                        mtx # None, store[i] # NoRule, store'[i] = NoRule
                 PROVE  Lapsed(store[i])
      OBVIOUS
    <2>1. up
      BY DEF CallInv, Down
    <2>2. store' # store
      OBVIOUS
    <2>3. PICK c \in Callers : SweepNode(c)
      <3>1. ASSUME NEW c \in Callers, EditCall(c) \/ \E j \in Ids : Remove(c, j) PROVE FALSE
        BY <3>1 DEF EditCall, OnRisk, OnRiskReject, SetAdmin, CallReturns, Remove, Calls
      <3>2. ASSUME NEW c \in Callers,
                   \/ ReadClock(c) \/ SweepRead(c) \/ TickExpiry(c) \/ SweepBegin(c) \/ SweepEnd(c)
                   \/ FlushStep(c) \/ FlushFail(c)
            PROVE  FALSE
        <4>1. store' = store
          BY <3>2 DEF ReadClock, SweepRead, FlushStep, TickExpiry, SweepBegin, SweepEnd, FlushEnter, FlushTake,
             FlushWrite, FlushDone, FlushFail, FlushRelease, FlushRecheck, Fire, memVars
        <4> QED
          BY <4>1, <2>2
      <3>3. ASSUME Clock \/ Crash \/ Restore PROVE FALSE
        BY <3>3, <2>1, <2>2 DEF Clock, Crash, Restore, memVars
      <3> QED
        BY <3>1, <3>2, <3>3 DEF Next, SweepStep
    <2>4. PICK n \in due : Reaps(n, at[c]) /\ EraseRule(n.id)
      BY <2>2, <2>3 DEF SweepNode
    <2>5. n.id = i
      BY <2>4 DEF EraseRule, TypeOK
    <2>6. at[c] <= now /\ at[c] \in Nat /\ now \in Nat /\ store[i].expireAtMs \in Nat
      BY EngineAssumption DEF SweepInv, Sweeping, TypeOK, Rules
    <2> QED
      BY <2>4, <2>5, <2>6 DEF Reaps, Lapsed
  <1> QED
    BY <1>1, SweepInvariant, PTL DEF Spec, SweepRemovesOnlyDue

-----------------------------------------------------------------------------
(* The memory of reports.                                                  *)

SeenKeys == {k \in Reports : seen[k] >= 0}

(* The types of the two, element by element.                               *)
LEMMA SeenTypes ==
  ASSUME TypeOK
  PROVE  /\ now \in Nat /\ Len(seenOrder) \in Nat
         /\ \A k \in Reports : seen[k] \in Int /\ seen[k] >= -1
         /\ \A n \in 1 .. Len(seenOrder) :
               /\ seenOrder[n][1] \in Reports /\ seenOrder[n][2] \in Nat
               /\ seenOrder[n] = <<seenOrder[n][1], seenOrder[n][2]>>
  <1>1. now \in Nat /\ seen \in [Reports -> -1 .. MaxNow]
        /\ seenOrder \in Seq(Reports \X (0 .. MaxNow))
    BY EngineAssumption DEF TypeOK
  <1>2. \A n \in 1 .. Len(seenOrder) : seenOrder[n] \in Reports \X (0 .. MaxNow)
    BY <1>1
  <1>3. Len(seenOrder) \in Nat
    BY <1>1
  <1>4. \A k \in Reports : seen[k] \in Int /\ seen[k] >= -1
    BY <1>1, EngineAssumption
  <1>5. \A x \in Reports \X (0 .. MaxNow) :
           x[1] \in Reports /\ x[2] \in Nat /\ x = <<x[1], x[2]>>
    BY EngineAssumption
  <1> QED
    BY <1>1, <1>2, <1>3, <1>4, <1>5

(* There are finitely many records: the nodes of m_seenOrder name them.    *)
LEMMA SeenFinite ==
  ASSUME TypeOK, SeenBounded
  PROVE  IsFiniteSet(SeenKeys)
  <1> DEFINE f == [n \in 1 .. Len(seenOrder) |-> seenOrder[n][1]]
             names == {seenOrder[n][1] : n \in 1 .. Len(seenOrder)}
  <1>1. f \in Surjection(1 .. Len(seenOrder), names)
    BY DEF Surjection
  <1>2. IsFiniteSet(1 .. Len(seenOrder))
    BY SeenTypes, FS_Interval
  <1>3. IsFiniteSet(names)
    BY <1>1, <1>2, FS_Surjection
  <1>4. SeenKeys \subseteq names
    <2> SUFFICES ASSUME NEW k \in SeenKeys PROVE k \in names
      OBVIOUS
    <2>1. PICK n \in 1 .. Len(seenOrder) : seenOrder[n] = <<k, seen[k]>>
      BY DEF SeenBounded, SeenKeys
    <2>2. seenOrder[n][1] = k
      BY <2>1
    <2> QED
      BY <2>2
  <1> QED
    BY <1>3, <1>4, FS_Subset

(* What remembering a report at the time u does, node by node: the queue   *)
(* with the new node loses its first n nodes, and with them their records. *)
Order(k, u) == Append(seenOrder, <<k, u>>)
Noted(k, u, j) == IF j = k THEN u ELSE seen[j]
Staying(k, u, n) == {j \in Reports : /\ Noted(k, u, j) >= 0
                                     /\ \A m \in 1 .. n : Order(k, u)[m] # <<j, Noted(k, u, j)>>}
Trimmed(k, u, n) ==
    /\ n \in 0 .. Len(seenOrder) + 1
    /\ Len(seenOrder') = Len(seenOrder) + 1 - n
    /\ \A m \in 1 .. Len(seenOrder') : seenOrder'[m] = Order(k, u)[n + m]
    /\ \A j \in Reports :
          seen'[j] = IF \E m \in 1 .. n : Order(k, u)[m] = <<j, Noted(k, u, j)>> THEN -1
                     ELSE Noted(k, u, j)
    /\ n <= Len(seenOrder) => Cardinality(Staying(k, u, n)) <= SeenMax
    /\ \A m \in 0 .. n - 1 :
          Expired(Order(k, u)[m + 1], u) \/ ~(Cardinality(Staying(k, u, m)) <= SeenMax)

LEMMA OrderIs ==
  ASSUME TypeOK, NEW k \in Reports, NEW u \in 0 .. MaxNow
  PROVE  /\ Order(k, u) \in Seq(Reports \X (0 .. MaxNow))
         /\ Len(Order(k, u)) = Len(seenOrder) + 1
         /\ \A m \in 1 .. Len(seenOrder) : Order(k, u)[m] = seenOrder[m]
         /\ Order(k, u)[Len(seenOrder) + 1] = <<k, u>>
  <1>1. seenOrder \in Seq(Reports \X (0 .. MaxNow)) /\ <<k, u>> \in Reports \X (0 .. MaxNow)
    BY EngineAssumption DEF TypeOK
  <1> QED
    BY <1>1, AppendProperties DEF Order

LEMMA RememberTrims ==
  ASSUME TypeOK, NEW k \in Reports, NEW u \in 0 .. MaxNow, Remember(k, u)
  PROVE  \E n : Trimmed(k, u, n)
  <1> DEFINE all   == [seen EXCEPT ![k] = u]
             Left(n) == [j \in Reports |->
                IF \E m \in 1 .. n : Order(k, u)[m] = <<j, all[j]>> THEN -1 ELSE all[j]]
             Size(f) == Cardinality({j \in Reports : f[j] >= 0})
             Enough(n) == IF n = Len(Order(k, u)) THEN TRUE
                          ELSE ~Expired(Order(k, u)[n + 1], u) /\ Size(Left(n)) <= SeenMax
  <1>1. PICK n \in 0 .. Len(Order(k, u)) :
           /\ Enough(n)
           /\ \A m \in 0 .. n - 1 : ~Enough(m)
           /\ seen' = Left(n)
           /\ seenOrder' = SubSeq(Order(k, u), n + 1, Len(Order(k, u)))
    BY DEF Remember, Order
  <1>2. \A j \in Reports : all[j] = Noted(k, u, j)
    BY DEF TypeOK, Noted
  <1>3. \A m : {j \in Reports : Left(m)[j] >= 0} = Staying(k, u, m)
    BY <1>2 DEF Staying
  <1>e. \A m : Enough(m) <=> IF m = Len(Order(k, u)) THEN TRUE
                             ELSE /\ ~Expired(Order(k, u)[m + 1], u)
                                  /\ Cardinality(Staying(k, u, m)) <= SeenMax
    BY <1>3
  <1>4. Len(Order(k, u)) = Len(seenOrder) + 1 /\ Len(seenOrder) \in Nat
    BY OrderIs, SeenTypes
  <1>5. n \in 0 .. Len(seenOrder) + 1
    BY <1>1, <1>4
  <1>6. /\ Len(seenOrder') = Len(seenOrder) + 1 - n
        /\ \A m \in 1 .. Len(seenOrder') : seenOrder'[m] = Order(k, u)[n + m]
    <2>1. Order(k, u) \in Seq(Reports \X (0 .. MaxNow))
      BY OrderIs
    <2> QED
      BY <1>1, <1>4, <1>5, <2>1, SubSeqProperties
  <1>7. \A j \in Reports :
          seen'[j] = IF \E m \in 1 .. n : Order(k, u)[m] = <<j, Noted(k, u, j)>> THEN -1
                     ELSE Noted(k, u, j)
    BY <1>1, <1>2
  <1> HIDE DEF all, Left, Enough
  <1>8. n <= Len(seenOrder) => Cardinality(Staying(k, u, n)) <= SeenMax
    BY <1>1, <1>e, <1>4, <1>5
  <1>9. \A m \in 0 .. n - 1 :
          Expired(Order(k, u)[m + 1], u) \/ ~(Cardinality(Staying(k, u, m)) <= SeenMax)
    BY <1>1, <1>e, <1>4, <1>5
  <1> QED
    BY <1>5, <1>6, <1>7, <1>8, <1>9 DEF Trimmed

(* Remembering a report keeps the memory bounded, and every record's node  *)
(* queued, also when the report's clock is older than some records.        *)
LEMMA RememberSound ==
  ASSUME TypeOK, SeenBounded, NEW k \in Reports, NEW u \in 0 .. MaxNow, Remember(k, u)
  PROVE  SeenBounded'
  <1> USE SeenTypes, EngineAssumption
  <1> DEFINE N == Len(seenOrder)
  <1>1. PICK n : Trimmed(k, u, n)
    BY RememberTrims
  <1>2. n \in 0 .. N + 1 /\ N \in Nat /\ Len(seenOrder') = N + 1 - n
    BY <1>1 DEF Trimmed
  <1>3. \A m \in 1 .. N + 1 : /\ m <= N => Order(k, u)[m] = seenOrder[m]
                              /\ m = N + 1 => Order(k, u)[m] = <<k, u>>
    BY OrderIs
  <1>4. \A j \in Reports : Noted(k, u, j) \in Int
    BY DEF Noted
  <1>5. ASSUME NEW j \in Reports
        PROVE  /\ j \in SeenKeys' <=> j \in Staying(k, u, n)
               /\ j \in SeenKeys' => seen'[j] = Noted(k, u, j)
    <2>1. CASE \E m \in 1 .. n : Order(k, u)[m] = <<j, Noted(k, u, j)>>
      <3>1. seen'[j] = -1
        BY <1>1, <2>1 DEF Trimmed
      <3> QED
        BY <2>1, <3>1 DEF SeenKeys, Staying
    <2>2. CASE ~\E m \in 1 .. n : Order(k, u)[m] = <<j, Noted(k, u, j)>>
      <3>1. seen'[j] = Noted(k, u, j)
        BY <1>1, <2>2 DEF Trimmed
      <3> QED
        BY <2>2, <3>1, <1>4 DEF SeenKeys, Staying
    <2> QED
      BY <2>1, <2>2
  <1>8. SeenKeys' = Staying(k, u, n)
    <2>1. SeenKeys' \subseteq Reports /\ Staying(k, u, n) \subseteq Reports
      BY DEF SeenKeys, Staying
    <2> QED
      BY <2>1, <1>5
  <1>9. ASSUME NEW j \in SeenKeys'
        PROVE  \E m \in 1 .. Len(seenOrder') : seenOrder'[m] = <<j, seen'[j]>>
    <2>1. /\ j \in Reports /\ Noted(k, u, j) >= 0 /\ seen'[j] = Noted(k, u, j)
          /\ \A m \in 1 .. n : Order(k, u)[m] # <<j, Noted(k, u, j)>>
      BY <1>5, <1>8, <1>9 DEF Staying
    <2>2. PICK q \in 1 .. N + 1 : Order(k, u)[q] = <<j, Noted(k, u, j)>>
      <3>1. CASE j = k
        BY <3>1, <1>2, <1>3 DEF Noted
      <3>2. CASE j # k
        <4>1. j \in SeenKeys /\ Noted(k, u, j) = seen[j]
          BY <3>2, <2>1 DEF Noted, SeenKeys
        <4>2. PICK q \in 1 .. N : seenOrder[q] = <<j, seen[j]>>
          BY <4>1 DEF SeenBounded, SeenKeys
        <4> QED
          BY <4>1, <4>2, <1>2, <1>3
      <3> QED
        BY <3>1, <3>2
    <2>3. q > n
      BY <1>2, <2>1, <2>2
    <2>4. q - n \in 1 .. Len(seenOrder') /\ n + (q - n) = q
      BY <1>2, <2>3
    <2>5. seenOrder'[q - n] = Order(k, u)[q]
      BY <1>1, <2>4 DEF Trimmed
    <2> QED
      BY <2>1, <2>2, <2>4, <2>5
  <1>10. Cardinality(SeenKeys') <= SeenMax
    <2>1. CASE n <= N
      BY <1>1, <1>8, <2>1 DEF Trimmed
    <2>2. CASE n = N + 1
      <3>1. Len(seenOrder') = 0
        BY <1>2, <2>2
      <3>2. SeenKeys' = {}
        BY <3>1, <1>9
      <3> QED
        BY <3>2, FS_EmptySet
    <2> QED
      BY <2>1, <2>2, <1>2
  <1> QED
    BY <1>9, <1>10 DEF SeenBounded, SeenKeys

(* Below the limit nothing that still cools is dropped, whenever the       *)
(* report's clock was read; its own record may be set back to that time.   *)
LEMMA RememberKeeps ==
  ASSUME TypeOK, SeenBounded, NEW k \in Reports, NEW u \in 0 .. MaxNow, u <= now,
         ~Cooling(k, u), Remember(k, u),
         NEW j \in Reports, Cooling(j, now), Cardinality(SeenKeys) < SeenMax
  PROVE  seen'[j] = seen[j] \/ (seen'[j] = u /\ u < seen[j])
  <1> USE SeenTypes, EngineAssumption
  <1>1. PICK n : Trimmed(k, u, n)
    BY RememberTrims
  <1>2. \/ j # k /\ Noted(k, u, j) = seen[j]
        \/ j = k /\ Noted(k, u, j) = u /\ u < seen[j]
    BY DEF Noted, Cooling
  <1>3. ASSUME NEW m \in 1 .. n, Order(k, u)[m] = <<j, Noted(k, u, j)>> PROVE FALSE
    <2>1. n \in 0 .. Len(seenOrder) + 1 /\ m - 1 \in 0 .. n - 1 /\ (m - 1) + 1 = m
      BY <1>1 DEF Trimmed
    <2>2. ~Expired(Order(k, u)[m], u)
      <3>1. Order(k, u)[m][2] = Noted(k, u, j)
        BY <1>3
      <3>2. now - seen[j] < CoolMs /\ seen[j] \in Nat /\ seen[j] <= now
        BY DEF Cooling
      <3> QED
        BY <1>2, <3>1, <3>2 DEF Expired
    <2>3. ~(Cardinality(Staying(k, u, m - 1)) <= SeenMax)
      BY <1>1, <2>1, <2>2 DEF Trimmed
    <2>4. IsFiniteSet(SeenKeys \cup {k}) /\ Cardinality(SeenKeys \cup {k}) <= SeenMax
      <3>1. IsFiniteSet(SeenKeys)
        BY SeenFinite
      <3>2. Cardinality(SeenKeys) \in Nat
        BY <3>1, FS_CardinalityType
      <3>3. /\ IsFiniteSet(SeenKeys \cup {k})
            /\ Cardinality(SeenKeys \cup {k}) = Cardinality(SeenKeys)
               \/ Cardinality(SeenKeys \cup {k}) = Cardinality(SeenKeys) + 1
        BY <3>1, FS_AddElement
      <3> QED
        BY <3>2, <3>3
    <2>5. Staying(k, u, m - 1) \subseteq SeenKeys \cup {k}
      BY DEF Staying, SeenKeys, Noted
    <2>6. /\ Cardinality(Staying(k, u, m - 1)) <= Cardinality(SeenKeys \cup {k})
          /\ IsFiniteSet(Staying(k, u, m - 1))
      BY <2>4, <2>5, FS_Subset
    <2>7. Cardinality(Staying(k, u, m - 1)) \in Nat /\ Cardinality(SeenKeys \cup {k}) \in Nat
      BY <2>4, <2>6, FS_CardinalityType
    <2> QED
      BY <2>3, <2>4, <2>6, <2>7
  <1>4. seen'[j] = Noted(k, u, j)
    BY <1>1, <1>3 DEF Trimmed
  <1> QED
    BY <1>2, <1>4

(* The steps as far as the memory of reports is concerned: some call       *)
(* remembers a report at the time it has read.                             *)
Reporting(c, k) == ~Cooling(k, at[c]) /\ Remember(k, at[c])
LEMMA SeenKinds ==
  ASSUME [Next]_vars
  PROVE  \/ UNCHANGED <<seen, seenOrder>>
         \/ \E c \in Callers, k \in Reports : Reporting(c, k)
         \/ ~up' /\ seen' = [k \in Reports |-> -1] /\ seenOrder' = << >>
  <1> USE DEF memVars
  <1>1. ASSUME NEW c \in Callers, NEW i \in RiskIds, NEW k \in Reports \cup {Anon},
               NEW t \in Ttls, OnRisk(c, i, k, t) \/ OnRiskReject(c, i, k, t)
        PROVE  UNCHANGED <<seen, seenOrder>> \/ \E j \in Reports : Reporting(c, j)
    <2>1. CASE k = Anon
      BY <1>1, <2>1 DEF OnRisk, OnRiskReject
    <2>2. CASE k # Anon
      <3>1. k \in Reports /\ Reporting(c, k)
        BY <1>1, <2>2 DEF OnRisk, OnRiskReject, Reporting
      <3> QED
        BY <3>1
    <2> QED
      BY <2>1, <2>2
  <1>2. ASSUME NEW c \in Callers,
               \/ \E i \in AdminIds, a \in Acts, t \in Ttls, w \in Reasons :
                     SetAdmin(c, i, a, t, w)
               \/ \E i \in Ids : Remove(c, i)
               \/ ReadClock(c) \/ CallReturns(c)
               \/ TickExpiry(c) \/ SweepStep(c) \/ FlushStep(c) \/ FlushFail(c)
        PROVE  UNCHANGED <<seen, seenOrder>>
    BY <1>2 DEF SetAdmin, Remove, ReadClock, CallReturns, TickExpiry, SweepStep, SweepRead,
       SweepBegin, SweepNode, SweepEnd, FlushStep, FlushFail, FlushEnter, FlushTake, FlushWrite,
       FlushDone, FlushRelease, FlushRecheck, Fire
  <1>3. ASSUME Clock \/ Restore \/ UNCHANGED vars PROVE UNCHANGED <<seen, seenOrder>>
    BY <1>3 DEF Clock, Restore, vars
  <1>4. ASSUME Crash
        PROVE  ~up' /\ seen' = [k \in Reports |-> -1] /\ seenOrder' = << >>
    BY <1>4 DEF Crash
  <1> QED
    BY <1>1, <1>2, <1>3, <1>4 DEF Next, EditCall

LEMMA SeenInit == Init => SeenBounded
  <1> SUFFICES ASSUME Init PROVE SeenBounded
    OBVIOUS
  <1>1. {k \in Reports : seen[k] >= 0} = {}
    BY DEF Init
  <1>2. Cardinality({k \in Reports : seen[k] >= 0}) = 0
    BY <1>1, FS_EmptySet
  <1> QED
    BY <1>1, <1>2, EngineAssumption DEF SeenBounded

LEMMA SeenStep == TypeOK /\ SeenBounded /\ [Next]_vars => SeenBounded'
  <1> SUFFICES ASSUME TypeOK, SeenBounded, [Next]_vars PROVE SeenBounded'
    OBVIOUS
  <1>1. CASE UNCHANGED <<seen, seenOrder>>
    BY <1>1 DEF SeenBounded
  <1>2. CASE \E c \in Callers, k \in Reports : Reporting(c, k)
    <2>1. \A c \in Callers : at[c] \in 0 .. MaxNow
      BY DEF TypeOK
    <2> QED
      BY <1>2, <2>1, RememberSound DEF Reporting
  <1>3. CASE ~up' /\ seen' = [k \in Reports |-> -1] /\ seenOrder' = << >>
    <2>1. {k \in Reports : seen'[k] >= 0} = {}
      BY <1>3
    <2>2. Cardinality({k \in Reports : seen'[k] >= 0}) = 0
      BY <2>1, FS_EmptySet
    <2> QED
      BY <2>1, <2>2, EngineAssumption DEF SeenBounded
  <1> QED
    BY <1>1, <1>2, <1>3, SeenKinds

(* The deduplication of reports never forgets a key that is still cooling, *)
(* unless the memory is full; a report overtaken on its way to m_mtx can   *)
(* only set the key back. Its memory is bounded, and each record of the map*)
(* of seenLocked has the node that will drop it.                           *)
THEOREM CoolingSafe == Spec => CoolingRemembered
  <1> DEFINE Remembers == \A k \in Reports :
        /\ Cooling(k, now) /\ up'
        /\ Cardinality({j \in Reports : seen[j] >= 0}) < SeenMax
        => seen'[k] \in {seen[k]} \cup Overtaken(k)
  <1>2. TypeOK /\ SweepInv /\ SeenBounded /\ [Next]_vars => [Remembers]_vars
    <2> SUFFICES ASSUME TypeOK, SweepInv, SeenBounded, Next,
                        NEW k \in Reports, Cooling(k, now), up',
                        Cardinality(SeenKeys) < SeenMax
                 PROVE  seen'[k] \in {seen[k]} \cup Overtaken(k)
      BY DEF SeenKeys
    <2>1. \A c \in Callers : at[c] \in 0 .. MaxNow /\ at[c] <= now
      BY DEF TypeOK, SweepInv, Sweeping
    <2>2. CASE \E c \in Callers, j \in Reports : Reporting(c, j)
      <3>1. PICK c \in Callers, j \in Reports : Reporting(c, j)
        BY <2>2
      <3>2. seen'[k] = seen[k] \/ (seen'[k] = at[c] /\ at[c] < seen[k])
        BY <2>1, <3>1, RememberKeeps DEF Reporting
      <3> QED
        BY <3>2 DEF Overtaken
    <2> QED
      BY <2>2, SeenKinds
  <1>3. Spec => []SeenBounded
    BY TypeInit, TypeStep, SeenInit, SeenStep, PTL DEF Spec
  <1> QED
    BY <1>2, <1>3, SweepInvariant, PTL DEF Spec, CoolingRemembered

-----------------------------------------------------------------------------
(* The engine and its database agree, for any number of callers, crashes   *)
(* and failing writes. Versions order everything: the queue is sorted, a   *)
(* queued operation whose version the database has passed (lastVer) is     *)
(* already reflected in the tables and writing it again changes nothing,   *)
(* and the last operation queued on an id carries what memory wants kept.  *)

(* The batch of the caller that writes is a prefix of the queue.           *)
Prefix ==
    \A c \in Callers :
      /\ pc[c] = "write" => /\ Len(batch[c]) <= Len(pending)
                            /\ done[c] <= Len(batch[c])
                            /\ \A n \in 1 .. Len(batch[c]) : batch[c][n] = pending[n]
      /\ pc[c] # "write" => done[c] = 0

LEMMA PrefixInit == Init => Prefix
  BY DEF Init, Prefix

(* Edits only append to the queue.                                         *)
Grows ==
    /\ pending' = pending \/ \E op \in PersistOp : pending' = Append(pending, op)
    /\ \A c \in Callers : pc'[c] = "write" <=> pc[c] = "write"
    /\ UNCHANGED <<batch, done>>

LEMMA PutGrows ==
  ASSUME TypeOK, NEW i \in Ids, NEW r \in Rules, NEW u, PutRule(i, r, u)
  PROVE  pending' = pending \/ \E op \in PersistOp : pending' = Append(pending, op)
  <1> DEFINE op == [id |-> i, version |-> r.version,
                    rule |-> IF shouldPersist(i, r, u) THEN r ELSE NoRule]
  <1>1. op \in PersistOp
    BY EngineAssumption DEF PersistOp, Rules
  <1>2. pending' = pending \/ pending' = Append(pending, op)
    BY DEF PutRule, queueRule
  <1> HIDE DEF op
  <1> QED
    BY <1>1, <1>2

LEMMA EraseGrows ==
  ASSUME TypeOK, NEW i \in Ids, EraseRule(i)
  PROVE  pending' = pending \/ \E op \in PersistOp : pending' = Append(pending, op)
  <1> DEFINE op == [id |-> i, version |-> ver + 1, rule |-> NoRule]
  <1>1. op \in PersistOp
    BY DEF PersistOp, TypeOK
  <1>2. pending' = pending \/ pending' = Append(pending, op)
    BY DEF EraseRule, queueDel
  <1> HIDE DEF op
  <1> QED
    BY <1>1, <1>2

LEMMA PrefixStep == TypeOK /\ CallInv /\ Prefix /\ [Next]_vars => Prefix'
  <1> SUFFICES ASSUME TypeOK, CallInv, Prefix, [Next]_vars PROVE Prefix'
    OBVIOUS
  <1>t. /\ MemType /\ CallType /\ FlushType /\ RestType /\ Holder /\ Down
        /\ pending \in Seq(PersistOp) /\ pc \in [Callers -> PCs]
        /\ batch \in [Callers -> Seq(PersistOp)] /\ done \in [Callers -> Nat]
    BY TypeParts DEF CallInv, MemType, CallType, FlushType
  <1> USE EngineAssumption, <1>t DEF memVars, flushVars, sweepVars, dbVars
  <1>a. \A c \in Callers : at[c] \in 0 .. MaxNow
    BY DEF CallType
  <1>g. ASSUME Grows PROVE Prefix'
    <2>a. \A op \in PersistOp :
             /\ Len(Append(pending, op)) = Len(pending) + 1
             /\ \A n \in 1 .. Len(pending) : Append(pending, op)[n] = pending[n]
      BY AppendProperties
    <2>1. \A n \in 1 .. Len(pending) : pending'[n] = pending[n]
      BY <1>g, <2>a DEF Grows
    <2>2. Len(pending') >= Len(pending) /\ Len(pending') \in Nat
      BY <1>g, <2>a DEF Grows
    <2> QED
      BY <1>g, <2>1, <2>2 DEF Grows, Prefix
  <1>1. ASSUME NEW c \in Callers, NEW i \in RiskIds, NEW k \in Reports \cup {Anon},
               NEW t \in Ttls, OnRisk(c, i, k, t)
        PROVE  Prefix'
    <2>1. pending' = pending \/ \E op \in PersistOp : pending' = Append(pending, op)
      BY <1>1, <1>a, PutGrows, RiskRuleType DEF OnRisk, RiskIds
    <2> QED
      BY <1>1, <1>g, <2>1 DEF OnRisk, Calls, StartFlush, Grows
  <1>2. ASSUME NEW c \in Callers, NEW i \in RiskIds, NEW k \in Reports \cup {Anon},
               NEW t \in Ttls, OnRiskReject(c, i, k, t)
        PROVE  Prefix'
    BY <1>2, <1>g DEF OnRiskReject, Calls, Returns, Grows
  <1>3. ASSUME NEW c \in Callers, NEW i \in AdminIds, NEW a \in Acts, NEW t \in Ttls,
               NEW w \in Reasons, SetAdmin(c, i, a, t, w)
        PROVE  Prefix'
    <2>1. pending' = pending \/ \E op \in PersistOp : pending' = Append(pending, op)
      BY <1>3, <1>a, PutGrows, AdminRuleType DEF SetAdmin, AdminIds
    <2>2. /\ pc[c] = "call" /\ pc' = [pc EXCEPT ![c] = "flush"]
          /\ UNCHANGED <<batch, done>>
      BY <1>3 DEF SetAdmin, Calls, StartFlush
    <2> QED
      BY <1>g, <2>1, <2>2 DEF Grows
  <1>4. ASSUME NEW c \in Callers, NEW i \in Ids, Remove(c, i) PROVE Prefix'
    <2>1. pending' = pending \/ \E op \in PersistOp : pending' = Append(pending, op)
      BY <1>4, EraseGrows DEF Remove
    <2>2. /\ pc[c] = "idle" /\ pc' = [pc EXCEPT ![c] = "flush"]
          /\ UNCHANGED <<batch, done>>
      BY <1>4 DEF Remove, StartFlush
    <2> QED
      BY <1>g, <2>1, <2>2 DEF Grows
  <1>5. ASSUME NEW c \in Callers, SweepNode(c) PROVE Prefix'
    <2>1. PICK n \in due : EraseRule(n.id) \/ pending' = pending
      BY <1>5 DEF SweepNode
    <2>2. n.id \in Ids
      BY DEF RestType, Node
    <2>3. pending' = pending \/ \E op \in PersistOp : pending' = Append(pending, op)
      BY <2>1, <2>2, EraseGrows
    <2> QED
      BY <1>5, <1>g, <2>3 DEF SweepNode, Grows
  <1>6. ASSUME NEW c \in Callers,
               \/ ReadClock(c) \/ CallReturns(c) \/ SweepRead(c)
               \/ TickExpiry(c) \/ SweepBegin(c) \/ SweepEnd(c) \/ FlushRelease(c) \/ Fire(c)
        PROVE  Prefix'
    BY <1>6, <1>g DEF ReadClock, CallReturns, Calls, Returns, SweepRead, TickExpiry, StartFlush,
       SweepBegin, SweepEnd, FlushRelease, Fire, Grows
  <1>7. ASSUME NEW c \in Callers, FlushEnter(c) \/ FlushRecheck(c) PROVE Prefix'
    <2>1. pc[c] # "write" /\ pc'[c] # "write" /\ \A d \in Callers : d # c => pc'[d] = pc[d]
      BY <1>7 DEF FlushEnter, FlushRecheck, FlushReturns, CallType, Conts
    <2> QED
      BY <1>7, <1>g, <2>1 DEF FlushEnter, FlushRecheck, Grows
  <1>8. ASSUME NEW c \in Callers, FlushTake(c) PROVE Prefix'
    <2> DEFINE size == IF Len(pending) < Batch THEN Len(pending) ELSE Batch
    <2>1. size \in Nat /\ size <= Len(pending)
      OBVIOUS
    <2>2. /\ Len(SubSeq(pending, 1, size)) = size
          /\ \A n \in 1 .. size : SubSeq(pending, 1, size)[n] = pending[n]
      BY <2>1, SubSeqProperties
    <2> QED
      BY <1>8, <2>1, <2>2 DEF FlushTake, Prefix
  <1>9. ASSUME NEW c \in Callers, FlushWrite(c) PROVE Prefix'
    BY <1>9 DEF FlushWrite, Prefix
  <1>10. ASSUME NEW c \in Callers, FlushDone(c) \/ FlushFail(c) PROVE Prefix'
    <2>1. \A d \in Callers : d # c => pc[d] # "write"
      BY <1>10 DEF FlushDone, FlushFail, Holder, Holding
    <2>2. pc'[c] # "write" /\ done'[c] = 0
      BY <1>10 DEF FlushDone, FlushFail, FlushReturns, CallType, Conts
    <2>3. \A d \in Callers : d # c => pc'[d] = pc[d] /\ done'[d] = done[d]
      BY <1>10 DEF FlushDone, FlushFail, FlushReturns
    <2> QED
      BY <2>1, <2>2, <2>3 DEF Prefix
  <1>11. ASSUME Clock \/ Restore \/ UNCHANGED vars PROVE Prefix'
    BY <1>11, <1>g DEF Clock, Restore, vars, Grows
  <1>12. ASSUME Crash PROVE Prefix'
    BY <1>12 DEF Crash, Prefix
  <1> QED
    BY <1>1, <1>2, <1>3, <1>4, <1>5, <1>6, <1>7, <1>8, <1>9, <1>10, <1>11, <1>12
       DEF Next, EditCall, SweepStep, FlushStep

-----------------------------------------------------------------------------
(* What a step can do to the queue, the tables and the promises.           *)

Quiet == /\ UNCHANGED <<up, ver, store, persisted, pending, done, dbRules, dbTomb,
                        lastVer, promise>>
         /\ now' \in Nat /\ now' >= now

(* An edit leaves r under i; keep says whether the database is to hold it. *)
EditStep(i, r, keep) ==
    /\ up
    /\ ver' = ver + 1
    /\ store' = [store EXCEPT ![i] = r]
    /\ promise' = [promise EXCEPT ![i] = None]
    /\ r # NoRule => r.version = ver + 1
    /\ keep => r # NoRule
    /\ i \in AdminIds /\ r # NoRule => keep
    /\ \/ ~keep /\ i \notin persisted /\ UNCHANGED <<persisted, pending>>
       \/ /\ persisted' = IF keep THEN persisted \cup {i} ELSE persisted \ {i}
          /\ pending' = Append(pending, [id |-> i, version |-> ver + 1,
                                         rule |-> IF keep THEN r ELSE NoRule])
    /\ UNCHANGED <<up, now, done, dbRules, dbTomb, lastVer>>

Write(c) ==
    /\ done[c] + 1 \in 1 .. Len(pending)
    /\ DbApply(pending[done[c] + 1])
    /\ done' = [done EXCEPT ![c] = done[c] + 1]
    /\ UNCHANGED <<up, now, ver, store, persisted, pending, promise>>

Drop(c, n) ==
    /\ n = 0 \/ n = done[c]
    /\ n <= Len(pending)
    /\ pending' = SubSeq(pending, n + 1, Len(pending))
    /\ done' = [d \in Callers |-> 0]
    /\ UNCHANGED <<up, now, ver, store, persisted, dbRules, dbTomb, lastVer, promise>>

DbStep == \/ Quiet
          \/ \E i \in Ids, r \in Rules \cup {NoRule}, keep \in BOOLEAN : EditStep(i, r, keep)
          \/ \E c \in Callers : Write(c)
          \/ \E c \in Callers, n \in Nat : Drop(c, n)
          \/ \E c \in Callers : FlushRecheck(c)
          \/ Crash \/ Restore

LEMMA PutIsEdit ==
  ASSUME TypeOK, NEW i \in Ids, NEW r \in Rules, r.version = ver + 1, up, NEW u,
         PutRule(i, r, u), UNCHANGED <<up, now, done, dbVars>>
  PROVE  \E keep \in BOOLEAN : EditStep(i, r, keep)
  <1> DEFINE keep == shouldPersist(i, r, u)
  <1>1. i \in AdminIds => keep
    BY DEF shouldPersist
  <1>2. CASE keep
    <2>1. EditStep(i, r, TRUE)
      BY <1>2, NoRuleAssumption DEF EditStep, PutRule, record, queueRule, dbVars
    <2> QED
      BY <2>1
  <1>3. CASE ~keep
    <2>1. EditStep(i, r, FALSE)
      BY <1>1, <1>3 DEF EditStep, PutRule, record, queueRule, dbVars
    <2> QED
      BY <2>1
  <1> QED
    BY <1>2, <1>3

LEMMA EraseIsEdit ==
  ASSUME TypeOK, NEW i \in Ids, up, EraseRule(i), UNCHANGED <<up, now, done, dbVars>>
  PROVE  \E keep \in BOOLEAN : EditStep(i, NoRule, keep)
  <1>1. EditStep(i, NoRule, FALSE)
    BY DEF EditStep, EraseRule, record, queueDel, dbVars
  <1> QED
    BY <1>1

LEMMA StepKinds == TypeOK /\ CallInv /\ Prefix /\ [Next]_vars => DbStep
  <1> SUFFICES ASSUME TypeOK, CallInv, Prefix, [Next]_vars PROVE DbStep
    OBVIOUS
  <1>t. /\ CallType /\ FlushType /\ RestType /\ Holder /\ now \in Nat
        /\ pending \in Seq(PersistOp) /\ pc \in [Callers -> PCs]
        /\ batch \in [Callers -> Seq(PersistOp)] /\ done \in [Callers -> Nat]
    BY TypeParts, EngineAssumption DEF CallInv, MemType, CallType, FlushType, RestType
  <1> USE <1>t DEF memVars, flushVars, sweepVars
  <1>a. \A c \in Callers : at[c] \in 0 .. MaxNow
    BY DEF CallType
  <1>1. ASSUME NEW c \in Callers, NEW i \in RiskIds, NEW k \in Reports \cup {Anon},
               NEW t \in Ttls, OnRisk(c, i, k, t)
        PROVE  DbStep
    <2>1. /\ i \in Ids /\ ruleFromRisk(t, at[c]) \in Rules
          /\ ruleFromRisk(t, at[c]).version = ver + 1
          /\ up /\ PutRule(i, ruleFromRisk(t, at[c]), at[c]) /\ UNCHANGED <<up, now, done, dbVars>>
      BY <1>1, <1>a, RiskRuleType DEF OnRisk, Calls, RiskIds
    <2> QED
      BY <2>1, PutIsEdit DEF DbStep
  <1>2. ASSUME NEW c \in Callers, NEW i \in RiskIds, NEW k \in Reports \cup {Anon},
               NEW t \in Ttls, OnRiskReject(c, i, k, t)
        PROVE  DbStep
    BY <1>2 DEF OnRiskReject, DbStep, Quiet, dbVars
  <1>3. ASSUME NEW c \in Callers, NEW i \in AdminIds, NEW a \in Acts, NEW t \in Ttls,
               NEW w \in Reasons, SetAdmin(c, i, a, t, w)
        PROVE  DbStep
    <2>1. CASE store[i] # NoRule /\ SameRule(store[i], AdminRule(a, t, w, at[c]))
      BY <1>3, <2>1 DEF SetAdmin, DbStep, Quiet, dbVars
    <2>2. CASE ~(store[i] # NoRule /\ SameRule(store[i], AdminRule(a, t, w, at[c])))
      <3>1. /\ i \in Ids /\ AdminRule(a, t, w, at[c]) \in Rules
            /\ AdminRule(a, t, w, at[c]).version = ver + 1 /\ up
            /\ PutRule(i, AdminRule(a, t, w, at[c]), at[c]) /\ UNCHANGED <<up, now, done, dbVars>>
        BY <1>3, <1>a, <2>2, AdminRuleType DEF SetAdmin, Calls, AdminIds
      <3> QED
        BY <3>1, PutIsEdit DEF DbStep
    <2> QED
      BY <2>1, <2>2
  <1>4. ASSUME NEW c \in Callers, NEW i \in Ids, Remove(c, i) PROVE DbStep
    <2>1. CASE store[i] = NoRule
      BY <1>4, <2>1 DEF Remove, DbStep, Quiet, dbVars
    <2>2. CASE store[i] # NoRule
      <3>1. up /\ EraseRule(i) /\ UNCHANGED <<up, now, done, dbVars>>
        BY <1>4, <2>2 DEF Remove
      <3> QED
        BY <3>1, EraseIsEdit DEF DbStep
    <2> QED
      BY <2>1, <2>2
  <1>5. ASSUME NEW c \in Callers, SweepNode(c) PROVE DbStep
    <2>1. PICK n \in due : \/ EraseRule(n.id)
                           \/ UNCHANGED <<ver, store, persisted, pending, promise>>
      BY <1>5 DEF SweepNode
    <2>2. n.id \in Ids
      BY DEF RestType, Node
    <2>3. up /\ UNCHANGED <<up, now, done, dbVars>>
      BY <1>5 DEF SweepNode
    <2>4. CASE EraseRule(n.id)
      BY <2>2, <2>3, <2>4, EraseIsEdit DEF DbStep
    <2>5. CASE UNCHANGED <<ver, store, persisted, pending, promise>>
      BY <2>3, <2>5 DEF DbStep, Quiet, dbVars
    <2> QED
      BY <2>1, <2>4, <2>5
  <1>6. ASSUME NEW c \in Callers,
               \/ ReadClock(c) \/ CallReturns(c) \/ SweepRead(c)
               \/ TickExpiry(c) \/ SweepBegin(c) \/ SweepEnd(c) \/ FlushEnter(c)
               \/ FlushTake(c) \/ FlushRelease(c) \/ Fire(c)
        PROVE  DbStep
    <2>1. Quiet
      BY <1>6 DEF ReadClock, CallReturns, SweepRead, TickExpiry, SweepBegin, SweepEnd, FlushEnter,
         FlushTake, FlushRelease,
         Fire, Quiet, dbVars
    <2> QED
      BY <2>1 DEF DbStep
  <1>7. ASSUME NEW c \in Callers, FlushWrite(c) PROVE DbStep
    <2>a. pc[c] = "write" /\ done[c] < Len(batch[c]) /\ done[c] \in Nat /\ Len(batch[c]) \in Nat
      BY <1>7 DEF FlushWrite
    <2>1. /\ done[c] + 1 \in 1 .. Len(pending)
          /\ batch[c][done[c] + 1] = pending[done[c] + 1]
      BY <2>a DEF Prefix
    <2>2. Write(c)
      BY <1>7, <2>1 DEF FlushWrite, Write
    <2> QED
      BY <2>2 DEF DbStep
  <1>8. ASSUME NEW c \in Callers, FlushDone(c) \/ FlushFail(c) PROVE DbStep
    <2>a. pc[c] = "write"
      BY <1>8 DEF FlushDone, FlushFail
    <2>1. \A d \in Callers : d # c => done[d] = 0
      BY <2>a DEF Holder, Holding, Prefix
    <2>2. done' = [d \in Callers |-> 0]
      <3>1. done' = [done EXCEPT ![c] = 0]
        BY <1>8 DEF FlushDone, FlushFail
      <3> QED
        BY <2>1, <3>1
    <2>3. \E n \in {0, done[c]} : pending' = SubSeq(pending, n + 1, Len(pending))
      BY <1>8 DEF FlushDone, FlushFail
    <2>4. done[c] \in Nat /\ done[c] <= Len(pending)
      BY <1>8 DEF FlushDone, FlushFail, Prefix
    <2>5. UNCHANGED <<up, now, ver, store, persisted, dbRules, dbTomb, lastVer, promise>>
      BY <1>8 DEF FlushDone, FlushFail, dbVars
    <2>6. Drop(c, 0) \/ Drop(c, done[c])
      BY <2>2, <2>3, <2>4, <2>5 DEF Drop
    <2> QED
      BY <2>4, <2>6 DEF DbStep
  <1>9. ASSUME Clock \/ UNCHANGED vars PROVE DbStep
    BY <1>9 DEF Clock, vars, DbStep, Quiet, dbVars
  <1> QED
    BY <1>1, <1>2, <1>3, <1>4, <1>5, <1>6, <1>7, <1>8, <1>9
       DEF Next, EditCall, SweepStep, FlushStep, DbStep

-----------------------------------------------------------------------------
(* The queue after a step.                                                 *)

LEMMA Appended ==
  ASSUME NEW q \in Seq(PersistOp), NEW op \in PersistOp
  PROVE  /\ Append(q, op) \in Seq(PersistOp)
         /\ Len(q) \in Nat /\ Len(Append(q, op)) = Len(q) + 1
         /\ Append(q, op)[Len(q) + 1] = op
         /\ \A n \in 1 .. Len(q) : Append(q, op)[n] = q[n]
         /\ \A n \in 1 .. Len(Append(q, op)) : n \in 1 .. Len(q) \/ n = Len(q) + 1
  BY AppendProperties

LEMMA Dropped ==
  ASSUME NEW q \in Seq(PersistOp), NEW k \in Nat, k <= Len(q),
         NEW s, s = SubSeq(q, k + 1, Len(q))
  PROVE  /\ Len(q) \in Nat /\ Len(s) \in Nat /\ Len(s) = Len(q) - k
         /\ \A n \in 1 .. Len(s) : n + k \in 1 .. Len(q) /\ s[n] = q[n + k]
  <1>1. \A n \in k + 1 .. Len(q) : q[n] \in PersistOp
    OBVIOUS
  <1>2. /\ Len(s) = IF k + 1 <= Len(q) THEN Len(q) - (k + 1) + 1 ELSE 0
        /\ \A n \in 1 .. Len(q) - (k + 1) + 1 : s[n] = q[(k + 1) + n - 1]
    BY <1>1, SubSeqProperties
  <1> QED
    BY <1>2

LEMMA QueueType ==
  ASSUME TypeOK
  PROVE  /\ pending \in Seq(PersistOp) /\ Len(pending) \in Nat
         /\ \A n \in 1 .. Len(pending) :
              /\ pending[n] \in PersistOp /\ pending[n].id \in Ids
              /\ pending[n].version \in Nat /\ pending[n].rule \in Rules \cup {NoRule}
  <1>1. pending \in Seq(PersistOp)
    BY DEF TypeOK
  <1>2. \A op \in PersistOp : op.id \in Ids /\ op.version \in Nat /\ op.rule \in Rules \cup {NoRule}
    BY DEF PersistOp
  <1>3. Len(pending) \in Nat /\ \A n \in 1 .. Len(pending) : pending[n] \in PersistOp
    BY <1>1
  <1> QED
    BY <1>1, <1>2, <1>3

LEMMA TablesType ==
  ASSUME TypeOK
  PROVE  /\ ver \in Nat /\ lastVer \in Nat
         /\ dbRules \in [Ids -> Rules \cup {NoRule}] /\ dbTomb \in [Ids -> Nat]
         /\ store \in [Ids -> Rules \cup {NoRule}]
         /\ \A r \in Rules : r.version \in Nat /\ r # NoRule
  BY EngineAssumption, NoRuleAssumption DEF TypeOK, Rules

(* Versions order the queue, the memory and the tables.                    *)
Versions ==
    /\ \A m, n \in 1 .. Len(pending) : m < n => pending[m].version < pending[n].version
    /\ \A n \in 1 .. Len(pending) :
         /\ pending[n].version <= ver
         /\ pending[n].rule # NoRule => pending[n].rule.version = pending[n].version
    /\ lastVer <= ver
    /\ \A i \in Ids : /\ dbTomb[i] <= lastVer
                      /\ dbRules[i] # NoRule => dbRules[i].version <= lastVer

(* The tables already show what op says, or something later.               *)
Reflected(op) ==
    IF op.rule = NoRule
    THEN dbRules[op.id] = NoRule \/ dbRules[op.id].version > op.version
    ELSE \/ dbTomb[op.id] >= op.version
         \/ dbRules[op.id] # NoRule /\ dbRules[op.id].version >= op.version

(* Whatever is still queued with a version that the database has passed is *)
(* reflected in it, the written part of a batch among it.                  *)
Applied ==
    /\ \A c \in Callers : /\ done[c] <= Len(pending)
                          /\ \A n \in 1 .. done[c] : pending[n].version <= lastVer
    /\ \A n \in 1 .. Len(pending) : pending[n].version <= lastVer => Reflected(pending[n])

(* The last operation queued on an id, or the row, is what memory wants.   *)
LastOn(i, n) == pending[n].id = i /\ \A m \in 1 .. Len(pending) : m > n => pending[m].id # i
Kept ==
    up => \A i \in Ids :
       /\ (\A n \in 1 .. Len(pending) : pending[n].id = i => pending[n].version <= lastVer)
             => dbRules[i] = Want(i)
       /\ \A n \in 1 .. Len(pending) :
             LastOn(i, n) /\ pending[n].version > lastVer => pending[n].rule = Want(i)

DbInv == Versions /\ Applied /\ Kept

LEMMA DbInit == Init => DbInv
  BY DEF Init, DbInv, Versions, Applied, Kept, Want

LEMMA KeptIsEnough == TypeOK /\ Versions /\ Kept => DbCatchesUp
  <1> SUFFICES ASSUME TypeOK, Versions, Kept, up, NEW i \in Ids
               PROVE  /\ Unapplied(i) = {} => dbRules[i] = Want(i)
                      /\ \A n \in Unapplied(i) :
                           (\A m \in Unapplied(i) : m <= n) => pending[n].rule = Want(i)
    BY DEF DbCatchesUp
  <1>t. /\ pending \in Seq(PersistOp) /\ lastVer \in Nat /\ Len(pending) \in Nat
        /\ \A n \in 1 .. Len(pending) : pending[n].version \in Nat
    BY QueueType, TablesType
  <1>1. ASSUME Unapplied(i) = {} PROVE dbRules[i] = Want(i)
    BY <1>t, <1>1 DEF Unapplied, Kept
  <1>2. ASSUME NEW n \in Unapplied(i), \A m \in Unapplied(i) : m <= n
        PROVE  pending[n].rule = Want(i)
    <2>1. n \in 1 .. Len(pending) /\ pending[n].id = i /\ pending[n].version > lastVer
      BY DEF Unapplied
    <2>2. ASSUME NEW m \in 1 .. Len(pending), m > n, pending[m].id = i PROVE FALSE
      <3>1. pending[m].version > lastVer
        BY <1>t, <2>1, <2>2 DEF Versions
      <3>2. m \in Unapplied(i)
        BY <2>2, <3>1 DEF Unapplied
      <3>3. m <= n
        BY <1>2, <3>2
      <3> QED
        BY <1>t, <2>1, <2>2, <3>3
    <2> QED
      BY <2>1, <2>2 DEF Kept, LastOn
  <1> QED
    BY <1>1, <1>2

-----------------------------------------------------------------------------
(* The version guard of SqliteDb: an operation newer than the database wins*)
(* whatever is there, an older one that is reflected leaves the rules alone*)
(* and weakens no tombstone that something else relies on.                 *)
LEMMA WriteEffect ==
  ASSUME TypeOK, Versions, NEW op \in PersistOp,
         op.rule # NoRule => op.rule.version = op.version,
         op.version <= lastVer => Reflected(op),
         DbApply(op)
  PROVE  /\ \A j \in Ids : j # op.id => dbRules'[j] = dbRules[j] /\ dbTomb'[j] = dbTomb[j]
         /\ op.version > lastVer =>
              /\ lastVer' = op.version /\ dbRules'[op.id] = op.rule
              /\ dbTomb'[op.id] <= op.version
              /\ op.rule = NoRule => dbTomb'[op.id] = op.version
         /\ op.version <= lastVer =>
              /\ lastVer' = lastVer /\ dbRules' = dbRules
              /\ dbTomb'[op.id] <= lastVer
              /\ \/ dbTomb'[op.id] >= dbTomb[op.id]
                 \/ dbRules[op.id] # NoRule /\ dbRules[op.id].version > dbTomb[op.id]
  <1>t. /\ op.id \in Ids /\ op.version \in Nat /\ op.rule \in Rules \cup {NoRule}
        /\ lastVer \in Nat /\ dbTomb[op.id] \in Nat
        /\ dbRules \in [Ids -> Rules \cup {NoRule}] /\ dbTomb \in [Ids -> Nat]
        /\ dbRules[op.id] # NoRule => dbRules[op.id].version \in Nat
    BY TablesType DEF PersistOp
  <1>v. /\ dbTomb[op.id] <= lastVer
        /\ dbRules[op.id] # NoRule => dbRules[op.id].version <= lastVer
    BY <1>t DEF Versions
  <1>1. CASE op.rule = NoRule
    <2>1. /\ dbTomb' = [dbTomb EXCEPT ![op.id] = Max2(dbTomb[op.id], op.version)]
          /\ dbRules' = [dbRules EXCEPT ![op.id] =
                IF dbRules[op.id] = NoRule THEN dbRules[op.id]
                ELSE IF dbRules[op.id].version <= op.version THEN NoRule ELSE dbRules[op.id]]
          /\ lastVer' = Max2(lastVer, op.version)
      BY <1>1 DEF DbApply, DbDel, DelTomb, DelRules
    <2>2. CASE op.version > lastVer
      BY <1>t, <1>v, <1>1, <2>1, <2>2 DEF Max2
    <2>3. CASE op.version <= lastVer
      <3>1. dbRules[op.id] = NoRule \/ dbRules[op.id].version > op.version
        BY <1>1, <2>3 DEF Reflected
      <3>2. dbRules' = dbRules
        BY <1>t, <2>1, <3>1
      <3> QED
        BY <1>t, <1>v, <2>1, <2>3, <3>2 DEF Max2
    <2> QED
      BY <1>t, <2>2, <2>3
  <1>2. CASE op.rule # NoRule
    <2>1. /\ dbTomb' = [dbTomb EXCEPT ![op.id] =
                IF dbTomb[op.id] < op.version THEN 0 ELSE dbTomb[op.id]]
          /\ dbRules' = [dbRules EXCEPT ![op.id] =
                IF dbTomb[op.id] >= op.version THEN dbRules[op.id]
                ELSE IF dbRules[op.id] = NoRule THEN op.rule
                ELSE IF op.version > dbRules[op.id].version THEN op.rule ELSE dbRules[op.id]]
          /\ lastVer' = Max2(lastVer, op.version)
      BY <1>2 DEF DbApply, DbSave, SaveTomb, SaveRules
    <2>2. CASE op.version > lastVer
      BY <1>t, <1>v, <1>2, <2>1, <2>2 DEF Max2
    <2>3. CASE op.version <= lastVer
      <3>1. \/ dbTomb[op.id] >= op.version
            \/ dbRules[op.id] # NoRule /\ dbRules[op.id].version >= op.version
        BY <1>2, <2>3 DEF Reflected
      <3>2. dbRules' = dbRules
        BY <1>t, <2>1, <3>1
      <3> QED
        BY <1>t, <1>v, <2>1, <2>3, <3>1, <3>2 DEF Max2
    <2> QED
      BY <1>t, <2>2, <2>3
  <1> QED
    BY <1>1, <1>2

LEMMA DbInvEdit ==
  ASSUME TypeOK, DbInv, NEW i \in Ids, NEW r \in Rules \cup {NoRule}, NEW keep \in BOOLEAN,
         EditStep(i, r, keep)
  PROVE  DbInv'
  <1> DEFINE op == [id |-> i, version |-> ver + 1, rule |-> IF keep THEN r ELSE NoRule]
  <1>t. op \in PersistOp
    BY TablesType DEF PersistOp
  <1>q. /\ ver' = ver + 1 /\ UNCHANGED <<up, done, dbRules, dbTomb, lastVer>> /\ up
        /\ store' = [store EXCEPT ![i] = r]
    BY DEF EditStep
  <1> USE QueueType, TablesType DEF DbInv
  <1>1. CASE ~keep /\ i \notin persisted /\ UNCHANGED <<persisted, pending>>
    <2>1. Versions' /\ Applied'
      BY <1>1, <1>q DEF Versions, Applied, Reflected
    <2>2. \A j \in Ids : Want(j)' = Want(j)
      BY <1>1, <1>q DEF Want
    <2>3. Kept'
      BY <1>1, <1>q, <2>2 DEF Kept, LastOn
    <2> QED
      BY <2>1, <2>3
  <1>2. CASE /\ persisted' = IF keep THEN persisted \cup {i} ELSE persisted \ {i}
             /\ pending' = Append(pending, op)
    <2>1. /\ op.id = i /\ op.version = ver + 1 /\ op.rule = IF keep THEN r ELSE NoRule
          /\ op.rule # NoRule => op.rule.version = op.version
      BY DEF EditStep
    <2> HIDE DEF op
    <2>2. /\ Len(pending') = Len(pending) + 1
          /\ pending'[Len(pending) + 1] = op
          /\ \A n \in 1 .. Len(pending) : pending'[n] = pending[n]
          /\ \A n \in 1 .. Len(pending') : n \in 1 .. Len(pending) \/ n = Len(pending) + 1
      BY <1>2, <1>t, Appended
    <2>3. Versions'
      <3>1. \A m, n \in 1 .. Len(pending') : m < n => pending'[m].version < pending'[n].version
        BY <2>1, <2>2 DEF Versions
      <3>2. \A n \in 1 .. Len(pending') :
              /\ pending'[n].version <= ver'
              /\ pending'[n].rule # NoRule => pending'[n].rule.version = pending'[n].version
        <4>1. \A n \in 1 .. Len(pending) :
                /\ pending[n].version <= ver + 1
                /\ pending[n].rule # NoRule => pending[n].rule.version = pending[n].version
          BY DEF Versions
        <4> QED
          BY <1>q, <2>1, <2>2, <4>1
      <3> QED
        BY <1>q, <3>1, <3>2 DEF Versions
    <2>4. Applied'
      <3>1. ASSUME NEW c \in Callers
            PROVE  done[c] <= Len(pending') /\ \A n \in 1 .. done[c] : pending'[n].version <= lastVer
        <4>1. done[c] \in Nat /\ done[c] <= Len(pending)
          BY DEF Applied, TypeOK
        <4>2. \A n \in 1 .. done[c] : n \in 1 .. Len(pending) /\ pending[n].version <= lastVer
          BY <4>1 DEF Applied
        <4> QED
          BY <2>2, <4>1, <4>2
      <3>2. ASSUME NEW n \in 1 .. Len(pending'), pending'[n].version <= lastVer
            PROVE  Reflected(pending'[n])
        <4>1. n # Len(pending) + 1
          BY <2>1, <2>2, <3>2 DEF Versions
        <4> QED
          BY <2>2, <3>2, <4>1 DEF Applied
      <3> QED
        BY <1>q, <3>1, <3>2 DEF Applied, Reflected
    <2>5. Kept'
      <3> SUFFICES ASSUME NEW j \in Ids
                   PROVE  /\ (\A n \in 1 .. Len(pending') :
                                pending'[n].id = j => pending'[n].version <= lastVer)
                                => dbRules[j] = Want(j)'
                          /\ \A n \in 1 .. Len(pending') :
                                LastOn(j, n)' /\ pending'[n].version > lastVer
                                => pending'[n].rule = Want(j)'
        BY <1>q DEF Kept
      <3>1. CASE j = i
        <4>1. Len(pending) + 1 \in 1 .. Len(pending')
          BY <2>2
        <4>2. op.rule = Want(j)'
          BY <1>2, <1>q, <2>1, <3>1 DEF Want
        <4>3. op.version > lastVer
          BY <2>1 DEF Versions
        <4>4. ~ \A n \in 1 .. Len(pending') : pending'[n].id = j => pending'[n].version <= lastVer
          <5>1. ~(op.version <= lastVer)
            BY <2>1, <4>3 DEF TypeOK
          <5> QED
            BY <2>1, <2>2, <3>1, <4>1, <5>1
        <4>5. ASSUME NEW n \in 1 .. Len(pending'), LastOn(j, n)'
              PROVE  n = Len(pending) + 1
          <5>1. Len(pending) + 1 > n => pending'[Len(pending) + 1].id # j
            BY <4>1, <4>5 DEF LastOn
          <5>2. n \in 1 .. Len(pending) => Len(pending) + 1 > n
            OBVIOUS
          <5> QED
            BY <2>1, <2>2, <3>1, <5>1, <5>2
        <4> QED
          BY <2>2, <4>2, <4>4, <4>5
      <3>2. CASE j # i
        <4>1. Want(j)' = Want(j)
          BY <1>2, <1>q, <3>2 DEF Want
        <4>2. \A n \in 1 .. Len(pending) : LastOn(j, n)' => LastOn(j, n)
          BY <2>2 DEF LastOn
        <4>3. \A n \in 1 .. Len(pending') : pending'[n].id = j => n \in 1 .. Len(pending)
          BY <2>1, <2>2, <3>2
        <4>4. \A n \in 1 .. Len(pending) : n \in 1 .. Len(pending')
          BY <2>2
        <4>5. (\A n \in 1 .. Len(pending') : pending'[n].id = j => pending'[n].version <= lastVer)
              => dbRules[j] = Want(j)
          BY <1>q, <2>2, <4>4 DEF Kept
        <4>6. ASSUME NEW n \in 1 .. Len(pending'), LastOn(j, n)', pending'[n].version > lastVer
              PROVE  pending'[n].rule = Want(j)
          <5>1. n \in 1 .. Len(pending)
            BY <4>3, <4>6 DEF LastOn
          <5> QED
            BY <1>q, <2>2, <4>2, <4>6, <5>1 DEF Kept
        <4> QED
          BY <4>1, <4>5, <4>6
      <3> QED
        BY <3>1, <3>2
    <2> QED
      BY <2>3, <2>4, <2>5
  <1> QED
    BY <1>1, <1>2 DEF EditStep

LEMMA DbInvWrite ==
  ASSUME TypeOK, DbInv, NEW c \in Callers, Write(c)
  PROVE  DbInv'
  <1> DEFINE k  == done[c] + 1
             op == pending[k]
  <1>t. /\ k \in 1 .. Len(pending) /\ op \in PersistOp /\ done \in [Callers -> Nat]
        /\ UNCHANGED <<up, ver, store, persisted, pending>>
        /\ done' = [done EXCEPT ![c] = k] /\ DbApply(op)
    BY QueueType DEF Write, TypeOK
  <1>o. /\ op.rule # NoRule => op.rule.version = op.version
        /\ op.version <= lastVer => Reflected(op)
        /\ op.version <= ver /\ op.id \in Ids /\ op.version \in Nat
        /\ op.rule \in Rules \cup {NoRule}
    BY <1>t, QueueType DEF DbInv, Versions, Applied
  <1>e. /\ \A j \in Ids : j # op.id => dbRules'[j] = dbRules[j] /\ dbTomb'[j] = dbTomb[j]
        /\ op.version > lastVer =>
             /\ lastVer' = op.version /\ dbRules'[op.id] = op.rule
             /\ dbTomb'[op.id] <= op.version
             /\ op.rule = NoRule => dbTomb'[op.id] = op.version
        /\ op.version <= lastVer =>
             /\ lastVer' = lastVer /\ dbRules' = dbRules
             /\ dbTomb'[op.id] <= lastVer
             /\ \/ dbTomb'[op.id] >= dbTomb[op.id]
                \/ dbRules[op.id] # NoRule /\ dbRules[op.id].version > dbTomb[op.id]
    <2> HIDE DEF op
    <2> QED
      BY <1>t, <1>o, WriteEffect DEF DbInv
  <1>b. \A n \in 1 .. Len(pending) : n < k => pending[n].version <= lastVer
    BY <1>t, QueueType DEF DbInv, Applied
  <1>a. \A n \in 1 .. Len(pending) : n > k => pending[n].version > op.version
    BY <1>t, QueueType DEF DbInv, Versions
  <1>d. \A d \in Callers : done'[d] = IF d = c THEN k ELSE done[d]
    BY <1>t
  <1> HIDE DEF op, k
  <1>1. CASE op.version <= lastVer
    <2>0. lastVer' = lastVer /\ dbRules' = dbRules
      BY <1>1, <1>e
    <2>1. Versions'
      <3>1. \A j \in Ids : dbTomb'[j] <= lastVer
        BY <1>1, <1>e DEF DbInv, Versions
      <3> QED
        BY <1>t, <2>0, <3>1 DEF DbInv, Versions
    <2>2. Applied'
      <3>1. ASSUME NEW d \in Callers
            PROVE  done'[d] <= Len(pending) /\ \A n \in 1 .. done'[d] : pending[n].version <= lastVer
        BY QueueType, <1>1, <1>t, <1>d, <1>b DEF DbInv, Applied, op
      <3>2. ASSUME NEW q \in PersistOp, Reflected(q) PROVE Reflected(q)'
        <4>1. q.id \in Ids /\ q.version \in Nat
          BY DEF PersistOp
        <4>2. q.id = op.id \/ dbTomb'[q.id] = dbTomb[q.id]
          BY <4>1, <1>e
        <4>3. /\ dbTomb[q.id] \in Nat /\ dbTomb'[q.id] \in Int
              /\ dbRules[q.id] # NoRule => dbRules[q.id].version \in Nat
          <5>1. dbTomb'[q.id] \in Nat
            BY <4>1, <1>o, <1>t, TablesType DEF DbApply, DbSave, DbDel, SaveTomb, DelTomb, Max2
          <5> QED
            BY <5>1, <4>1, TablesType
        <4> QED
          BY <1>1, <1>e, <2>0, <3>2, <4>1, <4>2, <4>3 DEF Reflected
      <3> QED
        BY QueueType, <1>t, <2>0, <3>1, <3>2 DEF DbInv, Applied
    <2>3. Kept'
      BY <1>t, <2>0 DEF DbInv, Kept, LastOn, Want
    <2> QED
      BY <2>1, <2>2, <2>3 DEF DbInv
  <1>2. CASE op.version > lastVer
    <2>0. /\ lastVer' = op.version /\ dbRules'[op.id] = op.rule /\ dbTomb'[op.id] <= op.version
          /\ op.rule = NoRule => dbTomb'[op.id] = op.version
      BY <1>2, <1>e
    <2>1. Versions'
      <3>1. \A j \in Ids : /\ dbTomb'[j] <= lastVer'
                           /\ dbRules'[j] # NoRule => dbRules'[j].version <= lastVer'
        <4> SUFFICES ASSUME NEW j \in Ids
                     PROVE  /\ dbTomb'[j] <= lastVer'
                            /\ dbRules'[j] # NoRule => dbRules'[j].version <= lastVer'
          OBVIOUS
        <4>1. CASE j = op.id
          BY <1>o, <2>0, <4>1
        <4>2. CASE j # op.id
          BY <1>2, <1>o, <1>e, <2>0, <4>2, TablesType DEF DbInv, Versions
        <4> QED
          BY <4>1, <4>2
      <3> QED
        BY <1>t, <1>o, <2>0, <3>1 DEF DbInv, Versions
    <2>2. Applied'
      <3>1. ASSUME NEW d \in Callers
            PROVE  done'[d] <= Len(pending) /\ \A n \in 1 .. done'[d] : pending[n].version <= lastVer'
        <4>1. CASE d = c
          BY QueueType, TablesType, <1>2, <1>o, <1>t, <1>d, <1>b, <2>0, <4>1 DEF op
        <4>2. CASE d # c
          BY QueueType, TablesType, <1>2, <1>o, <1>t, <1>d, <2>0, <4>2 DEF DbInv, Applied
        <4> QED
          BY <4>1, <4>2
      <3>2. ASSUME NEW n \in 1 .. Len(pending), pending[n].version <= lastVer'
            PROVE  Reflected(pending[n])'
        <4>1. n = k \/ pending[n].version <= lastVer
          BY QueueType, TablesType, <1>o, <1>t, <1>a, <1>b, <2>0, <3>2
        <4>2. CASE pending[n].id = op.id
          BY QueueType, TablesType, <1>t, <1>o, <1>2, <2>0, <3>2, <4>1, <4>2 DEF Reflected, op
        <4>3. CASE pending[n].id # op.id
          <5>1. pending[n].version <= lastVer
            BY <4>1, <4>3 DEF op
          <5> QED
            BY QueueType, <1>t, <1>e, <4>3, <5>1 DEF Reflected, DbInv, Applied
        <4> QED
          BY <4>2, <4>3
      <3> QED
        BY <1>t, <3>1, <3>2 DEF Applied
    <2>3. Kept'
      <3> SUFFICES ASSUME up, NEW j \in Ids
                   PROVE  /\ (\A n \in 1 .. Len(pending) :
                                pending[n].id = j => pending[n].version <= lastVer')
                                => dbRules'[j] = Want(j)
                          /\ \A n \in 1 .. Len(pending) :
                                LastOn(j, n) /\ pending[n].version > lastVer'
                                => pending[n].rule = Want(j)
        BY <1>t DEF Kept, LastOn, Want
      <3>1. ASSUME NEW n \in 1 .. Len(pending), LastOn(j, n), pending[n].version > lastVer'
            PROVE  pending[n].rule = Want(j)
        BY QueueType, TablesType, <1>o, <1>2, <2>0, <3>1 DEF DbInv, Kept
      <3>2. ASSUME \A n \in 1 .. Len(pending) : pending[n].id = j => pending[n].version <= lastVer'
            PROVE  dbRules'[j] = Want(j)
        <4>1. CASE j = op.id
          <5>1. LastOn(j, k)
            BY QueueType, <1>t, <1>o, <1>a, <2>0, <3>2, <4>1 DEF LastOn, op
          <5> QED
            BY <1>t, <1>2, <2>0, <4>1, <5>1 DEF DbInv, Kept, op
        <4>2. CASE j # op.id
          <5>1. \A n \in 1 .. Len(pending) : pending[n].id = j => pending[n].version <= lastVer
            BY QueueType, TablesType, <1>t, <1>o, <1>a, <1>b, <2>0, <3>2, <4>2 DEF op
          <5> QED
            BY <1>e, <4>2, <5>1 DEF DbInv, Kept
        <4> QED
          BY <4>1, <4>2
      <3> QED
        BY <3>1, <3>2
    <2> QED
      BY <2>1, <2>2, <2>3 DEF DbInv
  <1> QED
    BY <1>1, <1>2, <1>o, TablesType

LEMMA DbInvDrop ==
  ASSUME TypeOK, DbInv, NEW c \in Callers, NEW k \in Nat, Drop(c, k)
  PROVE  DbInv'
  <1>t. /\ UNCHANGED <<up, ver, store, persisted, dbRules, dbTomb, lastVer>>
        /\ done' = [d \in Callers |-> 0] /\ k <= Len(pending)
        /\ pending' = SubSeq(pending, k + 1, Len(pending))
    BY DEF Drop
  <1>s. /\ Len(pending') \in Nat /\ Len(pending') = Len(pending) - k
        /\ \A n \in 1 .. Len(pending') : n + k \in 1 .. Len(pending) /\ pending'[n] = pending[n + k]
    BY <1>t, QueueType, Dropped
  <1>b. \A n \in 1 .. Len(pending) : n <= k => pending[n].version <= lastVer
    <2>1. k = 0 \/ k = done[c]
      BY DEF Drop
    <2> QED
      BY <2>1, QueueType DEF DbInv, Applied
  <1>1. Versions'
    <2>1. \A m, n \in 1 .. Len(pending') : m < n => pending'[m].version < pending'[n].version
      BY <1>s, QueueType DEF DbInv, Versions
    <2> QED
      BY <1>t, <1>s, <2>1, QueueType DEF DbInv, Versions
  <1>2. Applied'
    <2>1. \A n \in 1 .. Len(pending') : pending'[n].version <= lastVer => Reflected(pending'[n])
      BY <1>s DEF DbInv, Applied
    <2>2. \A d \in Callers : done'[d] = 0
      BY <1>t
    <2>3. \A d \in Callers : done'[d] <= Len(pending')
      BY <1>s, <2>2
    <2>4. \A d \in Callers : \A n \in 1 .. done'[d] : FALSE
      BY <2>2
    <2>5. \A op : Reflected(op)' <=> Reflected(op)
      BY <1>t DEF Reflected
    <2> QED
      BY <1>t, <2>1, <2>3, <2>4, <2>5 DEF Applied
  <1>3. Kept'
    <2> SUFFICES ASSUME up, NEW i \in Ids
                 PROVE  /\ (\A n \in 1 .. Len(pending') :
                              pending'[n].id = i => pending'[n].version <= lastVer)
                              => dbRules[i] = Want(i)
                        /\ \A n \in 1 .. Len(pending') :
                              LastOn(i, n)' /\ pending'[n].version > lastVer
                              => pending'[n].rule = Want(i)
      BY <1>t DEF Kept, Want
    <2>m. \A m \in 1 .. Len(pending) : m > k => m - k \in 1 .. Len(pending') /\ pending'[m - k] = pending[m]
      BY <1>s, QueueType
    <2>1. ASSUME \A n \in 1 .. Len(pending') : pending'[n].id = i => pending'[n].version <= lastVer
          PROVE  dbRules[i] = Want(i)
      <3>1. \A m \in 1 .. Len(pending) : pending[m].id = i => pending[m].version <= lastVer
        <4> SUFFICES ASSUME NEW m \in 1 .. Len(pending), pending[m].id = i
                     PROVE  pending[m].version <= lastVer
          OBVIOUS
        <4>1. m <= k \/ m > k
          OBVIOUS
        <4> QED
          BY <1>b, <2>m, <2>1, <4>1
      <3> QED
        BY <3>1 DEF DbInv, Kept
    <2>2. ASSUME NEW n \in 1 .. Len(pending'), LastOn(i, n)', pending'[n].version > lastVer
          PROVE  pending'[n].rule = Want(i)
      <3>1. n + k \in 1 .. Len(pending) /\ pending'[n] = pending[n + k]
        BY <1>s
      <3>2. ASSUME NEW m \in 1 .. Len(pending), m > n + k PROVE pending[m].id # i
        <4>1. m > k /\ m - k > n
          BY <1>s, <3>2
        <4> QED
          BY <2>m, <2>2, <4>1 DEF LastOn
      <3>3. LastOn(i, n + k)
        BY <2>2, <3>1, <3>2 DEF LastOn
      <3> QED
        BY <2>2, <3>1, <3>3 DEF DbInv, Kept
    <2> QED
      BY <2>1, <2>2
  <1> QED
    BY <1>1, <1>2, <1>3 DEF DbInv

LEMMA DbInvStep == TypeOK /\ CallInv /\ DbInv /\ DbStep => DbInv'
  <1> SUFFICES ASSUME TypeOK, CallInv, DbInv, DbStep PROVE DbInv'
    OBVIOUS
  <1>q. ASSUME UNCHANGED <<up, ver, store, persisted, pending, done, dbRules, dbTomb, lastVer>>
        PROVE  DbInv'
    BY <1>q DEF DbInv, Versions, Applied, Reflected, Kept, LastOn, Want
  <1>1. CASE Quiet
    BY <1>1, <1>q DEF Quiet
  <1>2. ASSUME NEW c \in Callers, FlushRecheck(c) PROVE DbInv'
    BY <1>2, <1>q DEF FlushRecheck, memVars, dbVars
  <1>3. CASE Crash
    BY <1>3 DEF Crash, dbVars, DbInv, Versions, Applied, Kept
  <1>4. CASE Restore
    <2>1. /\ pending = << >> /\ pending' = << >> /\ UNCHANGED <<done, lastVer, dbTomb>>
          /\ ver' = lastVer /\ dbRules' = Loaded /\ store' = Loaded
          /\ persisted' = {i \in Ids : Loaded[i] # NoRule}
      BY <1>4 DEF Restore, CallInv, Down, flushVars
    <2>2. \A i \in Ids : Loaded[i] = NoRule \/ Loaded[i] = dbRules[i]
      BY DEF Loaded
    <2>3. Versions'
      BY <2>1, <2>2, TablesType DEF DbInv, Versions
    <2>4. Applied'
      BY <2>1 DEF DbInv, Applied
    <2>5. Kept'
      BY <2>1 DEF Kept, Want
    <2> QED
      BY <2>3, <2>4, <2>5 DEF DbInv
  <1> QED
    BY <1>1, <1>2, <1>3, <1>4, DbInvEdit, DbInvWrite, DbInvDrop DEF DbStep

LEMMA DbInvariant == Spec => [](TypeOK /\ CallInv /\ Prefix /\ DbInv)
  BY TypeInit, TypeStep, CallInit, CallStep, PrefixInit, PrefixStep, StepKinds,
     DbInit, DbInvStep, PTL DEF Spec

(* The write-behind queue and SQLite together hold what memory wants kept, *)
(* through failed and half-applied batches, replays, crashes and restarts. *)
THEOREM DbAgrees == Spec => []DbCatchesUp
  <1>1. TypeOK /\ DbInv => DbCatchesUp
    BY KeptIsEnough DEF DbInv
  <1> QED
    BY <1>1, DbInvariant, PTL

-----------------------------------------------------------------------------
(* Promises: an answer "durable" is given with an empty queue, about a rule*)
(* that memory wants kept.                                                 *)

Promised ==
    /\ \A i \in Ids : promise[i] # None => \A n \in 1 .. Len(pending) : pending[n].id # i
    /\ up => \A i \in AdminIds : store[i] # NoRule => i \in persisted

EditsAreAdmin ==
    \A c \in Callers : edit[c] # None /\ edit[c].rule # NoRule => edit[c].id \in AdminIds

LEMMA EditsStep == TypeOK /\ EditsAreAdmin /\ [Next]_vars => EditsAreAdmin'
  <1> SUFFICES ASSUME TypeOK, EditsAreAdmin, [Next]_vars PROVE EditsAreAdmin'
    OBVIOUS
  <1>t. edit \in [Callers -> Edit \cup {None}]
    BY DEF TypeOK
  <1> USE <1>t DEF EditsAreAdmin, memVars, flushVars, sweepVars, dbVars
  <1>1. ASSUME edit' = edit PROVE EditsAreAdmin'
    BY <1>1
  <1>2. ASSUME NEW c \in Callers, edit' = [edit EXCEPT ![c] = None] PROVE EditsAreAdmin'
    BY <1>2
  <1>3. ASSUME NEW c \in Callers, EditCall(c) \/ \E i \in Ids : Remove(c, i)
        PROVE  EditsAreAdmin'
    <2>1. ASSUME NEW i \in RiskIds, NEW k \in Reports \cup {Anon}, NEW t \in Ttls,
                 OnRisk(c, i, k, t) \/ OnRiskReject(c, i, k, t)
          PROVE  EditsAreAdmin'
      BY <1>1, <1>2, <2>1 DEF OnRisk, OnRiskReject
    <2>2. ASSUME NEW i \in AdminIds, NEW a \in Acts, NEW t \in Ttls, NEW w \in Reasons,
                 SetAdmin(c, i, a, t, w)
          PROVE  EditsAreAdmin'
      <3>1. \E r : edit' = [edit EXCEPT ![c] = [id |-> i, rule |-> r]]
        BY <2>2 DEF SetAdmin
      <3> QED
        BY <3>1
    <2>3. ASSUME NEW i \in Ids, Remove(c, i) PROVE EditsAreAdmin'
      <3>1. edit' = [edit EXCEPT ![c] = [id |-> i, rule |-> NoRule]]
        BY <2>3 DEF Remove
      <3> QED
        BY <3>1
    <2>4. ASSUME CallReturns(c) PROVE EditsAreAdmin'
      BY <1>1, <2>4 DEF CallReturns
    <2> QED
      BY <1>3, <2>1, <2>2, <2>3, <2>4 DEF EditCall
  <1>4. ASSUME NEW c \in Callers,
               \/ ReadClock(c) \/ TickExpiry(c) \/ SweepStep(c) \/ FlushStep(c) \/ FlushFail(c)
        PROVE  EditsAreAdmin'
    <2>1. edit' = edit \/ edit' = [edit EXCEPT ![c] = None]
      BY <1>4 DEF ReadClock, TickExpiry, SweepStep, SweepRead, SweepBegin, SweepNode, SweepEnd,
         FlushStep, FlushEnter,
         FlushTake, FlushWrite, FlushDone, FlushRelease, FlushRecheck, Fire, FlushFail, FlushReturns
    <2> QED
      BY <1>1, <1>2, <2>1
  <1>5. ASSUME Clock \/ Restore \/ UNCHANGED vars PROVE EditsAreAdmin'
    BY <1>5, <1>1 DEF Clock, Restore, vars
  <1>6. ASSUME Crash PROVE EditsAreAdmin'
    BY <1>6 DEF Crash
  <1> QED
    BY <1>3, <1>4, <1>5, <1>6 DEF Next

DurableInv == Promised /\ EditsAreAdmin /\ DurableEditSurvives

LEMMA DurableInit == Init => DurableInv
  BY DEF Init, DurableInv, Promised, EditsAreAdmin, DurableEditSurvives, AdminIds

LEMMA PromiseStep ==
  TypeOK /\ CallInv /\ DbInv /\ DurableInv /\ DbStep => Promised' /\ DurableEditSurvives'
  <1> SUFFICES ASSUME TypeOK, CallInv, DbInv, DurableInv, DbStep
               PROVE  Promised' /\ DurableEditSurvives'
    OBVIOUS
  <1>t. /\ now \in Nat /\ promise \in [Ids -> Rules \cup {NoRule, None}]
        /\ \A r \in Rules : r.expireAtMs \in Nat
        /\ Promised /\ EditsAreAdmin /\ DurableEditSurvives
    BY EngineAssumption DEF TypeOK, DurableInv, Rules
  <1>1. CASE Quiet
    <2>1. /\ UNCHANGED <<up, store, persisted, pending, dbRules, promise>>
          /\ now' \in Nat /\ now' >= now
      BY <1>1 DEF Quiet
    <2>3. \A i \in Ids : promise[i] # None /\ Lapsed(promise[i]) => Lapsed(promise[i])'
      BY <1>t, <2>1 DEF Lapsed
    <2>4. Promised'
      BY <1>t, <2>1 DEF Promised
    <2>5. DurableEditSurvives'
      BY <1>t, <2>1, <2>3 DEF DurableEditSurvives, Holds
    <2> QED
      BY <2>4, <2>5
  <1>2. ASSUME NEW i \in Ids, NEW r \in Rules \cup {NoRule}, NEW keep \in BOOLEAN,
               EditStep(i, r, keep)
        PROVE  Promised' /\ DurableEditSurvives'
    <2>1. /\ promise' = [promise EXCEPT ![i] = None] /\ store' = [store EXCEPT ![i] = r]
          /\ UNCHANGED <<up, now, dbRules>>
      BY <1>2 DEF EditStep
    <2>2. \A j \in Ids : /\ j # i => promise'[j] = promise[j] /\ store'[j] = store[j]
                         /\ j = i => promise'[j] = None /\ store'[j] = r
      BY <1>t, <2>1, TablesType
    <2>3. DurableEditSurvives'
      BY <1>t, <2>1, <2>2 DEF DurableEditSurvives, Holds, Lapsed
    <2>4. \A j \in AdminIds : up /\ store'[j] # NoRule => j \in persisted'
      BY <1>t, <1>2, <2>2 DEF Promised, EditStep, AdminIds
    <2>5. \A j \in Ids : promise'[j] # None => \A n \in 1 .. Len(pending') : pending'[n].id # j
      <3> DEFINE op == [id |-> i, version |-> ver + 1, rule |-> IF keep THEN r ELSE NoRule]
      <3>1. op \in PersistOp /\ op.id = i
        BY TablesType DEF PersistOp
      <3>2. pending' = pending \/ pending' = Append(pending, op)
        BY <1>2 DEF EditStep
      <3> HIDE DEF op
      <3>3. \A n \in 1 .. Len(pending') :
               pending'[n].id = i \/ (n \in 1 .. Len(pending) /\ pending'[n] = pending[n])
        BY <3>1, <3>2, QueueType, Appended
      <3> QED
        BY <1>t, <2>2, <3>3 DEF Promised
    <2> QED
      BY <2>1, <2>3, <2>4, <2>5 DEF Promised
  <1>3. ASSUME NEW c \in Callers, Write(c) PROVE Promised' /\ DurableEditSurvives'
    <2> DEFINE op == pending[done[c] + 1]
    <2>1. /\ op.id \in Ids /\ promise[op.id] = None
          /\ UNCHANGED <<up, now, store, persisted, pending, promise>> /\ DbApply(op)
      BY <1>3, <1>t, QueueType DEF Write, Promised
    <2> HIDE DEF op
    <2>2. \A j \in Ids : j # op.id => dbRules'[j] = dbRules[j]
      BY <2>1, TablesType DEF DbApply, DbSave, DbDel, SaveRules, DelRules
    <2>3. Promised'
      BY <1>t, <2>1 DEF Promised
    <2>4. DurableEditSurvives'
      BY <1>t, <2>1, <2>2 DEF DurableEditSurvives, Holds, Lapsed
    <2> QED
      BY <2>3, <2>4
  <1>4. ASSUME NEW c \in Callers, NEW k \in Nat, Drop(c, k)
        PROVE  Promised' /\ DurableEditSurvives'
    <2>1. /\ UNCHANGED <<up, now, store, persisted, dbRules, promise>>
          /\ k <= Len(pending) /\ pending' = SubSeq(pending, k + 1, Len(pending))
      BY <1>4 DEF Drop
    <2>2. \A n \in 1 .. Len(pending') : n + k \in 1 .. Len(pending) /\ pending'[n] = pending[n + k]
      BY <2>1, QueueType, Dropped
    <2>3. Promised'
      BY <1>t, <2>1, <2>2 DEF Promised
    <2>4. DurableEditSurvives'
      BY <1>t, <2>1 DEF DurableEditSurvives, Holds, Lapsed
    <2> QED
      BY <2>3, <2>4
  <1>5. ASSUME NEW c \in Callers, FlushRecheck(c) PROVE Promised' /\ DurableEditSurvives'
    <2>1. UNCHANGED <<up, now, store, persisted, pending, dbRules>> /\ up
      BY <1>5 DEF FlushRecheck, memVars, dbVars
    <2>2. CASE promise' = promise
      BY <1>t, <2>1, <2>2 DEF Promised, DurableEditSurvives, Holds, Lapsed
    <2>3. CASE promise' # promise
      <3> DEFINE e == edit[c]
      <3>1. /\ pending = << >> /\ e # None /\ e.rule = store[e.id]
            /\ promise' = [promise EXCEPT ![e.id] = e.rule]
        BY <1>5, <2>3 DEF FlushRecheck
      <3>2. e.id \in Ids
        BY <3>1 DEF TypeOK, Edit
      <3>3. dbRules[e.id] = Want(e.id)
        BY <2>1, <3>1, <3>2 DEF DbInv, Kept
      <3>4. dbRules[e.id] = store[e.id]
        BY <1>t, <2>1, <3>1, <3>2, <3>3 DEF Want, Promised, EditsAreAdmin
      <3>5. \A j \in Ids : promise'[j] = IF j = e.id THEN store[j] ELSE promise[j]
        BY <1>t, <3>1, <3>2
      <3>6. Promised'
        BY <1>t, <2>1, <3>1 DEF Promised
      <3>7. DurableEditSurvives'
        BY <1>t, <2>1, <3>4, <3>5 DEF DurableEditSurvives, Holds, Lapsed
      <3> QED
        BY <3>6, <3>7
    <2> QED
      BY <2>2, <2>3
  <1>6. CASE Crash
    BY <1>6, <1>t DEF Crash, dbVars, Promised, DurableEditSurvives, Holds, Lapsed
  <1>7. CASE Restore
    <2>1. /\ pending' = << >> /\ UNCHANGED <<now, promise>>
          /\ dbRules' = Loaded /\ store' = Loaded
          /\ persisted' = {i \in Ids : Loaded[i] # NoRule}
      BY <1>7 DEF Restore, CallInv, Down, flushVars
    <2>2. \A i \in Ids : \/ Loaded[i] = dbRules[i]
                         \/ Loaded[i] = NoRule /\ Lapsed(dbRules[i])
      BY DEF Loaded, Lapsed
    <2>3. Promised'
      BY <2>1 DEF Promised, AdminIds
    <2>4. DurableEditSurvives'
      BY <1>t, <2>1, <2>2 DEF DurableEditSurvives, Holds, Lapsed
    <2> QED
      BY <2>3, <2>4
  <1> QED
    BY <1>1, <1>2, <1>3, <1>4, <1>5, <1>6, <1>7 DEF DbStep

LEMMA DurableInvariant == Spec => [](TypeOK /\ CallInv /\ Prefix /\ DbInv /\ DurableInv)
  <1>1. TypeOK /\ CallInv /\ Prefix /\ DbInv /\ DurableInv /\ [Next]_vars => DurableInv'
    BY StepKinds, EditsStep, PromiseStep DEF DurableInv
  <1> QED
    BY <1>1, DurableInit, DbInvariant, PTL DEF Spec

(* An edit answered durable survives every crash until the next edit.      *)
THEOREM DurableSurvives == Spec => []DurableEditSurvives
  BY DurableInvariant, PTL DEF DurableInv

-----------------------------------------------------------------------------
(* The hub that gateways see.                                              *)

LEMMA HubInitial == Init => Hub!HubInit
  BY DEF Init, Hub!HubInit

LEMMA HubStep ==
  TypeOK /\ CallInv /\ DbInv /\ [Next]_vars => [Hub!HubNext]_(Hub!hubVars)
  <1> SUFFICES ASSUME TypeOK, DbInv, [Next]_vars
               PROVE  Hub!HubNext \/ UNCHANGED <<epoch, ver, store, log>>
    BY DEF Hub!hubVars
  <1> USE DEF memVars
  <1>a. \A c \in Callers : at[c] \in 0 .. MaxNow
    BY DEF TypeOK
  <1>p. ASSUME NEW i \in Ids, NEW r \in Rules, r.version = ver + 1, ver < MaxVer,
               NEW u, PutRule(i, r, u), epoch' = epoch
        PROVE  Hub!HubNext
    <2>1. Hub!Put(i, r)
      BY <1>p DEF PutRule, record, Hub!Put
    <2> QED
      BY <2>1 DEF Hub!HubNext
  <1>e. ASSUME NEW i \in Ids, store[i] # NoRule, EraseRule(i), epoch' = epoch
        PROVE  Hub!HubNext
    <2>1. Hub!Erase(i)
      BY <1>e DEF EraseRule, record, Hub!Erase
    <2> QED
      BY <2>1 DEF Hub!HubNext
  <1>1. ASSUME NEW c \in Callers, NEW i \in RiskIds, NEW k \in Reports \cup {Anon},
               NEW t \in Ttls, OnRisk(c, i, k, t)
        PROVE  Hub!HubNext
    BY <1>1, <1>p, <1>a, RiskRuleType DEF OnRisk, RiskIds
  <1>2. ASSUME NEW c \in Callers, NEW i \in AdminIds, NEW a \in Acts, NEW t \in Ttls,
               NEW w \in Reasons, SetAdmin(c, i, a, t, w)
        PROVE  Hub!HubNext \/ UNCHANGED <<epoch, ver, store, log>>
    BY <1>2, <1>p, <1>a, AdminRuleType DEF SetAdmin, AdminIds
  <1>3. ASSUME NEW c \in Callers, NEW i \in Ids, Remove(c, i)
        PROVE  Hub!HubNext \/ UNCHANGED <<epoch, ver, store, log>>
    BY <1>3, <1>e DEF Remove
  <1>4. ASSUME NEW c \in Callers, SweepNode(c)
        PROVE  Hub!HubNext \/ UNCHANGED <<epoch, ver, store, log>>
    <2>1. PICK n \in due : \/ Reaps(n, at[c]) /\ EraseRule(n.id)
                           \/ UNCHANGED <<ver, store, log>>
      BY <1>4 DEF SweepNode
    <2>2. n.id \in Ids /\ epoch' = epoch
      BY <1>4 DEF SweepNode, TypeOK, Node
    <2> QED
      BY <1>e, <2>1, <2>2 DEF Reaps
  <1>5. ASSUME NEW c \in Callers,
               \/ ReadClock(c) \/ CallReturns(c) \/ SweepRead(c)
               \/ TickExpiry(c) \/ SweepBegin(c) \/ SweepEnd(c) \/ FlushStep(c) \/ FlushFail(c)
        PROVE  UNCHANGED <<epoch, ver, store, log>>
    BY <1>5 DEF ReadClock, CallReturns, SweepRead, TickExpiry, SweepBegin, SweepEnd, FlushStep, FlushEnter, FlushTake, FlushWrite,
       FlushDone, FlushRelease, FlushRecheck, Fire, FlushFail
  <1>6. ASSUME Restore PROVE Hub!HubNext
    <2>1. /\ epoch' = epoch + 1 /\ ver' = lastVer /\ store' = Loaded /\ log' = << >>
      BY <1>6 DEF Restore
    <2>2. lastVer \in 0 .. ver
      BY TablesType DEF DbInv, Versions
    <2>3. Loaded \in [Ids -> {r \in Rules : r.version <= lastVer} \cup {NoRule}]
      BY TablesType DEF Loaded, DbInv, Versions
    <2>4. Hub!HubRestart
      BY <2>1, <2>2, <2>3 DEF Hub!HubRestart
    <2> QED
      BY <2>4 DEF Hub!HubNext
  <1>7. ASSUME Clock \/ Crash \/ UNCHANGED vars PROVE UNCHANGED <<epoch, ver, store, log>>
    BY <1>7 DEF Clock, Crash, vars
  <1>8. ASSUME NEW c \in Callers, NEW i \in RiskIds, NEW k \in Reports \cup {Anon},
               NEW t \in Ttls, OnRiskReject(c, i, k, t)
        PROVE  UNCHANGED <<epoch, ver, store, log>>
    BY <1>8 DEF OnRiskReject
  <1> QED
    BY <1>1, <1>2, <1>3, <1>4, <1>5, <1>6, <1>7, <1>8 DEF Next, EditCall, SweepStep

(* The engine implements RuleHub: one change, one version, one log entry,  *)
(* and a restart never shows a rule newer than the version it starts from. *)
THEOREM HubImplemented == Spec => ImplementsHub
  <1>1. Spec => Hub!HubInit /\ [][Hub!HubNext]_(Hub!hubVars)
    BY HubInitial, HubStep, DbInvariant, PTL DEF Spec
  <1> QED
    BY <1>1 DEF ImplementsHub, Hub!HubSpec
=============================================================================
