----------------------------- MODULE HttpProofs -----------------------------
(***************************************************************************)
(* Proofs about reading HTTP: the framing that the two parsers take from   *)
(* any header lines in any order (OneFraming), and the client connection   *)
(* for any requests, bodies and limits (BoundaryKept, AnswersInOrder).     *)
(*                                                                         *)
(* Framing: the parser after n lines is a recursive function; that it has  *)
(* a value, and that one line more is one call of onHttpField more, is     *)
(* shown by induction over the numbers, as a statement about sets          *)
(* (Numbers). The invariant says that a parser without an error remembers  *)
(* exactly what the lines so far say, and that an error means they can no  *)
(* longer be read in one way.                                              *)
(*                                                                         *)
(* Connection: BoundaryKept says nothing of a body that is half read, so   *)
(* the invariant says at every step of readChunk which token comes next    *)
(* (BodyAt): with n bytes left in the reader there are n left on the wire. *)
(* It also follows the request that the last token was of (Owned), which   *)
(* ties the number of a head to m_req_count, and with it the answers to    *)
(* their requests, even where a broken body sent the reader astray.        *)
(***************************************************************************)
EXTENDS HttpConn, HttpFraming, SequenceTheorems, NaturalsInduction, WellFoundedInduction, TLAPS

(* What holds at 0 and goes on from n to n + 1 holds of all numbers.       *)
LEMMA Numbers ==
  ASSUME NEW S, 0 \in S, \A n \in Nat : n \in S => n + 1 \in S
  PROVE  Nat \subseteq S
  <1> SUFFICES ASSUME Nat \ S # {} PROVE FALSE
    OBVIOUS
  <1> DEFINE T == Nat \ S
  <1>1. PICK x \in T : \A y \in T : ~(<<y, x>> \in OpToRel(<, Nat))
    BY WFMin, NatLessThanWellFounded
  <1>2. \A y \in T : ~(y < x)
    BY <1>1 DEF OpToRel
  <1>3. x \in Nat /\ x # 0
    OBVIOUS
  <1>4. x - 1 \in Nat /\ x - 1 < x /\ (x - 1) + 1 = x
    BY <1>3
  <1>5. x - 1 \in S
    BY <1>2, <1>4
  <1> QED
    BY <1>4, <1>5

(* The parser's state after n lines is what onHttpField makes of the state *)
(* after n - 1: the recursive definition has a solution.                   *)
LEMMA ReqAfterIs ==
  ASSUME NEW ls, Len(ls) \in Nat
  PROVE  ReqAfter(ls) = [n \in 0..Len(ls) |->
            IF n = 0 THEN NewReq ELSE OnReqField(ReqAfter(ls)[n - 1], ls[n])]
  <1> DEFINE Sol(f, k) == f = [n \in 0..k |-> IF n = 0 THEN NewReq ELSE OnReqField(f[n - 1], ls[n])]
             S == {k \in Nat : \E f : Sol(f, k)}
  <1>1. 0 \in S
    <2>1. Sol([n \in 0..0 |-> NewReq], 0)
      OBVIOUS
    <2> QED
      BY <2>1
  <1>2. ASSUME NEW k \in Nat, k \in S PROVE k + 1 \in S
    <2>1. PICK f : Sol(f, k)
      BY <1>2
    <2> DEFINE g == [n \in 0..k + 1 |-> IF n = k + 1 THEN OnReqField(f[k], ls[k + 1]) ELSE f[n]]
    <2>2. ASSUME NEW n \in 0..k + 1
          PROVE  g[n] = IF n = 0 THEN NewReq ELSE OnReqField(g[n - 1], ls[n])
      <3>1. CASE n = k + 1
        <4>1. g[n - 1] = f[k] /\ n # 0
          BY <3>1
        <4> QED
          BY <3>1, <4>1
      <3>2. CASE n # k + 1
        <4>1. n \in 0..k /\ g[n] = f[n]
          BY <3>2
        <4>2. f[n] = IF n = 0 THEN NewReq ELSE OnReqField(f[n - 1], ls[n])
          BY <2>1, <4>1
        <4>3. n # 0 => g[n - 1] = f[n - 1]
          BY <4>1
        <4> QED
          BY <4>1, <4>2, <4>3
      <3> QED
        BY <3>1, <3>2
    <2>3. g = [n \in 0..k + 1 |-> g[n]]
      OBVIOUS
    <2>4. Sol(g, k + 1)
      <3> HIDE DEF g
      <3> QED
        BY <2>2, <2>3
    <2>5. \E h : Sol(h, k + 1)
      <3> HIDE DEF g, Sol
      <3> QED
        BY <2>4
    <2> QED
      BY <2>5
  <1>3. Len(ls) \in S
    <2> HIDE DEF S
    <2>1. Nat \subseteq S
      BY <1>1, <1>2, Numbers
    <2> QED
      BY <2>1
  <1>4. \E f : Sol(f, Len(ls))
    BY <1>3
  <1> QED
    BY <1>4 DEF ReqAfter

(* A line more is one call of onHttpField more.                            *)
LEMMA ReqAfterAppend ==
  ASSUME NEW L, NEW ls \in Seq(L), NEW l \in L
  PROVE  ReqAfter(Append(ls, l))[Len(ls) + 1] = OnReqField(ReqAfter(ls)[Len(ls)], l)
  <1> DEFINE more == Append(ls, l)
             N == Len(ls)
             S == {n \in Nat : n <= N => ReqAfter(more)[n] = ReqAfter(ls)[n]}
  <1>1. N \in Nat /\ Len(more) = N + 1 /\ more[N + 1] = l /\ \A n \in 1..N : more[n] = ls[n]
    BY AppendProperties
  <1>2. \A n \in 0..N :
           ReqAfter(ls)[n] = IF n = 0 THEN NewReq ELSE OnReqField(ReqAfter(ls)[n - 1], ls[n])
    BY <1>1, ReqAfterIs
  <1>3. \A n \in 0..N + 1 :
           ReqAfter(more)[n] = IF n = 0 THEN NewReq ELSE OnReqField(ReqAfter(more)[n - 1], more[n])
    BY <1>1, ReqAfterIs
  <1> HIDE DEF N, more
  <1>4. 0 \in S
    BY <1>1, <1>2, <1>3
  <1>5. ASSUME NEW n \in Nat, n \in S PROVE n + 1 \in S
    <2>1. CASE n + 1 <= N
      <3>1. n + 1 \in 0..N /\ n + 1 \in 0..N + 1 /\ n + 1 \in 1..N /\ n + 1 # 0 /\ (n + 1) - 1 = n
        BY <1>1, <2>1
      <3>2. ReqAfter(more)[n] = ReqAfter(ls)[n]
        BY <1>1, <1>5, <2>1
      <3> QED
        BY <1>1, <1>2, <1>3, <3>1, <3>2
    <2> QED
      BY <2>1
  <1>6. N \in S
    <2> HIDE DEF S
    <2> QED
      BY <1>1, <1>4, <1>5, Numbers
  <1>7. ReqAfter(more)[N] = ReqAfter(ls)[N]
    BY <1>1, <1>6
  <1>8. N + 1 \in 0..N + 1 /\ N + 1 # 0 /\ (N + 1) - 1 = N
    BY <1>1
  <1>9. ReqAfter(more)[N + 1] = OnReqField(ReqAfter(ls)[N], l)
    BY <1>1, <1>3, <1>7, <1>8
  <1> QED
    BY <1>9 DEF N, more

(* The same of the parser of answers.                                      *)
LEMMA RespAfterIs ==
  ASSUME NEW ls, Len(ls) \in Nat
  PROVE  RespAfter(ls) = [n \in 0..Len(ls) |->
            IF n = 0 THEN NewResp ELSE OnRespField(RespAfter(ls)[n - 1], ls[n])]
  <1> DEFINE Sol(f, k) ==
               f = [n \in 0..k |-> IF n = 0 THEN NewResp ELSE OnRespField(f[n - 1], ls[n])]
             S == {k \in Nat : \E f : Sol(f, k)}
  <1>1. 0 \in S
    <2>1. Sol([n \in 0..0 |-> NewResp], 0)
      OBVIOUS
    <2> QED
      BY <2>1
  <1>2. ASSUME NEW k \in Nat, k \in S PROVE k + 1 \in S
    <2>1. PICK f : Sol(f, k)
      BY <1>2
    <2> DEFINE g == [n \in 0..k + 1 |-> IF n = k + 1 THEN OnRespField(f[k], ls[k + 1]) ELSE f[n]]
    <2>2. ASSUME NEW n \in 0..k + 1
          PROVE  g[n] = IF n = 0 THEN NewResp ELSE OnRespField(g[n - 1], ls[n])
      <3>1. CASE n = k + 1
        <4>1. g[n - 1] = f[k] /\ n # 0
          BY <3>1
        <4> QED
          BY <3>1, <4>1
      <3>2. CASE n # k + 1
        <4>1. n \in 0..k /\ g[n] = f[n]
          BY <3>2
        <4>2. f[n] = IF n = 0 THEN NewResp ELSE OnRespField(f[n - 1], ls[n])
          BY <2>1, <4>1
        <4>3. n # 0 => g[n - 1] = f[n - 1]
          BY <4>1
        <4> QED
          BY <4>1, <4>2, <4>3
      <3> QED
        BY <3>1, <3>2
    <2>3. g = [n \in 0..k + 1 |-> g[n]]
      OBVIOUS
    <2>4. Sol(g, k + 1)
      <3> HIDE DEF g
      <3> QED
        BY <2>2, <2>3
    <2>5. \E h : Sol(h, k + 1)
      <3> HIDE DEF g, Sol
      <3> QED
        BY <2>4
    <2> QED
      BY <2>5
  <1>3. Len(ls) \in S
    <2> HIDE DEF S
    <2>1. Nat \subseteq S
      BY <1>1, <1>2, Numbers
    <2> QED
      BY <2>1
  <1>4. \E f : Sol(f, Len(ls))
    BY <1>3
  <1> QED
    BY <1>4 DEF RespAfter

(* A line more, for the parser of answers.                                 *)
LEMMA RespAfterAppend ==
  ASSUME NEW L, NEW ls \in Seq(L), NEW l \in L
  PROVE  RespAfter(Append(ls, l))[Len(ls) + 1] = OnRespField(RespAfter(ls)[Len(ls)], l)
  <1> DEFINE more == Append(ls, l)
             N == Len(ls)
             S == {n \in Nat : n <= N => RespAfter(more)[n] = RespAfter(ls)[n]}
  <1>1. N \in Nat /\ Len(more) = N + 1 /\ more[N + 1] = l /\ \A n \in 1..N : more[n] = ls[n]
    BY AppendProperties
  <1>2. \A n \in 0..N :
           RespAfter(ls)[n] = IF n = 0 THEN NewResp ELSE OnRespField(RespAfter(ls)[n - 1], ls[n])
    BY <1>1, RespAfterIs
  <1>3. \A n \in 0..N + 1 :
           RespAfter(more)[n] =
             IF n = 0 THEN NewResp ELSE OnRespField(RespAfter(more)[n - 1], more[n])
    BY <1>1, RespAfterIs
  <1> HIDE DEF N, more
  <1>4. 0 \in S
    BY <1>1, <1>2, <1>3
  <1>5. ASSUME NEW n \in Nat, n \in S PROVE n + 1 \in S
    <2>1. CASE n + 1 <= N
      <3>1. n + 1 \in 0..N /\ n + 1 \in 0..N + 1 /\ n + 1 \in 1..N /\ n + 1 # 0 /\ (n + 1) - 1 = n
        BY <1>1, <2>1
      <3>2. RespAfter(more)[n] = RespAfter(ls)[n]
        BY <1>1, <1>5, <2>1
      <3> QED
        BY <1>1, <1>2, <1>3, <3>1, <3>2
    <2> QED
      BY <2>1
  <1>6. N \in S
    <2> HIDE DEF S
    <2> QED
      BY <1>1, <1>4, <1>5, Numbers
  <1>7. RespAfter(more)[N] = RespAfter(ls)[N]
    BY <1>1, <1>6
  <1>8. N + 1 \in 0..N + 1 /\ N + 1 # 0 /\ (N + 1) - 1 = N
    BY <1>1
  <1>9. RespAfter(more)[N + 1] = OnRespField(RespAfter(ls)[N], l)
    BY <1>1, <1>3, <1>7, <1>8
  <1> QED
    BY <1>9 DEF N, more

-----------------------------------------------------------------------------
(* HttpFraming: what the parsers know of the lines they have seen.         *)

(* The states of the two parsers after these lines.                        *)
Request == ReqAfter(lines)[Len(lines)]
Answer == RespAfter(lines)[Len(lines)]

(* The lines so far are taken by a parser in the state p, and p remembers  *)
(* what they say of the body.                                              *)
Agreeing(p) ==
  /\ NotDigits \notin Lengths(lines) /\ Lengths(lines) \subseteq {p.clen}
  /\ p.has_clen <=> Lengths(lines) # {}
  /\ ~p.has_clen => p.clen = 0
  /\ Codings(lines) \subseteq {<<"chunked">>}
  /\ p.chunked <=> Codings(lines) # {}

(* The types of the two parsers.                                           *)
ReqStates == [clen : Nat, has_clen : BOOLEAN, chunked : BOOLEAN, error : BOOLEAN,
              close : BOOLEAN, websocket : BOOLEAN, named : SUBSET {l[1] : l \in Lines}]
RespStates == [clen : Nat, has_clen : BOOLEAN, chunked : BOOLEAN, error : BOOLEAN,
               close : BOOLEAN]

(* A parser without error agrees with its lines; one with an error has seen*)
(* two readings, and no further line takes that back. The parser of        *)
(* requests looks for a length beside a coding only at the end             *)
(* (getBodyFraming), the one of answers at each line.                      *)
FramingInv ==
  /\ lines \in Seq(Lines)
  /\ Request \in ReqStates /\ Answer \in RespStates
  /\ ~Request.error => Agreeing(Request)
  /\ Request.error => ~OneReading(lines)
  /\ ~Answer.error => Agreeing(Answer) /\ ~(Answer.has_clen /\ Answer.chunked)
  /\ Answer.error => ~OneReading(lines)

(* The lengths and codings of one line more.                               *)
LEMMA LinesGrow ==
  ASSUME NEW ls \in Seq(Lines), NEW l \in Lines
  PROVE  /\ Lengths(Append(ls, l)) =
              Lengths(ls) \cup (IF l[1] = "Content-Length" THEN {l[2][1]} ELSE {})
         /\ Codings(Append(ls, l)) =
              Codings(ls) \cup (IF l[1] = "Transfer-Encoding" THEN {l[2]} ELSE {})
  <1>1. Range(Append(ls, l)) = Range(ls) \cup {l}
    <2>1. /\ Len(Append(ls, l)) = Len(ls) + 1 /\ Len(ls) \in Nat
          /\ Append(ls, l)[Len(ls) + 1] = l /\ \A n \in 1..Len(ls) : Append(ls, l)[n] = ls[n]
          /\ DOMAIN ls = 1..Len(ls) /\ DOMAIN Append(ls, l) = 1..Len(ls) + 1
      BY AppendProperties
    <2>2. ASSUME NEW x \in Range(Append(ls, l)) PROVE x \in Range(ls) \cup {l}
      BY <2>1, <2>2 DEF Range
    <2>3. ASSUME NEW x \in Range(ls) \cup {l} PROVE x \in Range(Append(ls, l))
      BY <2>1, <2>3 DEF Range
    <2> QED
      BY <2>2, <2>3
  <1> HIDE DEF Range
  <1>2. Lengths(Append(ls, l)) =
          Lengths(ls) \cup (IF l[1] = "Content-Length" THEN {l[2][1]} ELSE {})
    BY <1>1 DEF Lengths
  <1>3. Codings(Append(ls, l)) =
          Codings(ls) \cup (IF l[1] = "Transfer-Encoding" THEN {l[2]} ELSE {})
    BY <1>1 DEF Codings
  <1> QED
    BY <1>2, <1>3

(* parse_te takes the single coding "chunked" and nothing else.            *)
LEMMA OnlyChunked ==
  ASSUME NEW v \in Seq(STRING), v # <<>>
  PROVE  /\ ParseTe(v).refused \in BOOLEAN /\ ParseTe(v).chunked \in BOOLEAN
         /\ ~ParseTe(v).refused <=> v = <<"chunked">>
         /\ v = <<"chunked">> => ParseTe(v).chunked
  <1>1. Len(v) \in Nat /\ Len(v) > 0 /\ DOMAIN v = 1..Len(v)
    OBVIOUS
  <1>2. ASSUME v = <<"chunked">> PROVE ~ParseTe(v).refused /\ ParseTe(v).chunked
    <2>1. Len(v) = 1 /\ v[1] = "chunked" /\ DOMAIN v = 1..1
      BY <1>2
    <2>2. \A i \in 1..Len(v) : v[i] = "chunked" /\ ~(i < Len(v))
      <3>1. \A i \in 1..1 : i = 1
        OBVIOUS
      <3> QED
        BY <2>1, <3>1
    <2>4. "chunked" # ""
      OBVIOUS
    <2>3. HasToken(v, "chunked")
      BY <2>1 DEF HasToken
    <2> QED
      BY <2>2, <2>3, <2>4 DEF ParseTe
  <1>3. ASSUME ~ParseTe(v).refused PROVE v = <<"chunked">>
    <2>1. \A i \in 1..Len(v) : v[i] = "chunked" /\ ~(i < Len(v))
      BY <1>3 DEF ParseTe
    <2>2. Len(v) = 1 /\ v[1] = "chunked"
      BY <2>1, <1>1
    <2> QED
      BY <2>2
  <1>4. ParseTe(v).refused \in BOOLEAN /\ ParseTe(v).chunked \in BOOLEAN
    BY DEF ParseTe, HasToken
  <1> QED
    BY <1>2, <1>3, <1>4

(* One line more: what the parser of requests makes of it.                 *)
LEMMA ReqStep ==
  ASSUME FramingInv, NEW l \in Lines, lines' = Append(lines, l)
  PROVE  /\ lines' \in Seq(Lines)
         /\ Request' \in ReqStates
         /\ ~Request'.error => Agreeing(Request)'
         /\ Request'.error => ~OneReading(lines)'
  <1>0. lines' \in Seq(Lines) /\ Len(lines') = Len(lines) + 1 /\ lines \in Seq(Lines)
    BY AppendProperties DEF FramingInv
  <1>1. Request' = OnReqField(Request, l)
    BY <1>0, ReqAfterAppend DEF Request
  <1>2. /\ Lengths(lines') =
              Lengths(lines) \cup (IF l[1] = "Content-Length" THEN {l[2][1]} ELSE {})
        /\ Codings(lines') =
              Codings(lines) \cup (IF l[1] = "Transfer-Encoding" THEN {l[2]} ELSE {})
    BY <1>0, LinesGrow
  <1>3. PICK p : p = Request
    OBVIOUS
  <1>4. p \in ReqStates /\ (~p.error => Agreeing(p)) /\ (p.error => ~OneReading(lines))
    BY <1>3 DEF FramingInv
  <1>5. /\ l[1] = "Content-Length" => l[2][1] \in Nat \cup {NotDigits}
        /\ l[1] = "Transfer-Encoding" => l[2] \in Seq(STRING) /\ l[2] # <<>>
    BY FramingAssumption DEF IsLine
  <1>6. OneReading(lines') => OneReading(lines)
    BY <1>2 DEF OneReading
  <1>7. PICK q : q = OnReqField(p, l)
    OBVIOUS
  <1> SUFFICES /\ q \in ReqStates
               /\ ~q.error => Agreeing(q)'
               /\ q.error => ~OneReading(lines')
    BY <1>0, <1>1, <1>3, <1>7 DEF Agreeing
  <1>8. PICK o : o = (CASE l[1] = "Content-Length" -> OnContentLength(p, l[2][1])
                       [] l[1] = "Transfer-Encoding" -> OnTransferEncoding(p, l[2])
                       [] l[1] = "Connection" -> OnConnection(p, l[2])
                       [] l[1] = "Upgrade" ->
                            [p EXCEPT !.websocket = @ \/ HasToken(l[2], "websocket")]
                       [] OTHER -> p)
    OBVIOUS
  <1>9. q = [o EXCEPT !.named = @ \cup {l[1]}]
    BY <1>7, <1>8 DEF OnReqField
  <1> SUFFICES /\ o \in ReqStates
               /\ ~o.error => Agreeing(o)'
               /\ o.error => ~OneReading(lines')
    <2>1. o \in ReqStates =>
             /\ q \in ReqStates /\ q.error = o.error /\ q.clen = o.clen
             /\ q.has_clen = o.has_clen /\ q.chunked = o.chunked
      BY <1>9 DEF ReqStates
    <2> QED
      BY <2>1 DEF Agreeing
  <1> HIDE DEF ReqStates
  <1>10. CASE l[1] = "Content-Length"
    <2>1. PICK cl : cl = l[2][1]
      OBVIOUS
    <2>2. cl \in Nat \cup {NotDigits} /\ o = OnContentLength(p, cl)
      BY <1>5, <1>8, <1>10, <2>1
    <2>3. Lengths(lines') = Lengths(lines) \cup {cl} /\ Codings(lines') = Codings(lines)
      BY <1>2, <1>10, <2>1
    <2>4. CASE cl = NotDigits \/ (p.has_clen /\ p.clen # cl)
      <3>1. o = [p EXCEPT !.error = TRUE]
        BY <2>2, <2>4 DEF OnContentLength
      <3>2. o \in ReqStates /\ o.error
        BY <1>4, <3>1 DEF ReqStates
      <3>3. ~OneReading(lines')
        <4>1. CASE p.error
          BY <4>1, <1>4, <1>6
        <4>2. CASE ~p.error /\ cl = NotDigits
          BY <4>2, <2>3 DEF OneReading
        <4>3. CASE ~p.error /\ p.has_clen /\ p.clen # cl
          <5>1. p.clen \in Lengths(lines)
            BY <4>3, <1>4 DEF Agreeing
          <5> QED
            BY <4>3, <5>1, <2>3 DEF OneReading
        <4> QED
          BY <2>4, <4>1, <4>2, <4>3
      <3> QED
        BY <3>2, <3>3
    <2>5. CASE cl # NotDigits /\ ~(p.has_clen /\ p.clen # cl)
      <3>1. o = [p EXCEPT !.clen = cl, !.has_clen = TRUE]
        BY <2>2, <2>5 DEF OnContentLength
      <3>2. /\ o \in ReqStates /\ o.error = p.error /\ o.clen = cl /\ o.has_clen = TRUE
            /\ o.chunked = p.chunked
        BY <1>4, <2>2, <2>5, <3>1 DEF ReqStates
      <3>3. CASE p.error
        BY <1>4, <1>6, <3>2, <3>3
      <3>4. CASE ~p.error
        <4>1. Agreeing(p)
          BY <1>4, <3>4
        <4>2. Lengths(lines') = {cl}
          BY <4>1, <2>3, <2>5 DEF Agreeing
        <4> QED
          BY <3>2, <3>4, <4>1, <4>2, <2>3, <2>5 DEF Agreeing
      <3> QED
        BY <3>3, <3>4
    <2> QED
      BY <2>4, <2>5
  <1>11. CASE l[1] = "Transfer-Encoding"
    <2>1. PICK v : v = l[2]
      OBVIOUS
    <2>2. v \in Seq(STRING) /\ v # <<>> /\ o = OnTransferEncoding(p, v)
      BY <1>5, <1>8, <1>11, <2>1
    <2>3. Codings(lines') = Codings(lines) \cup {v} /\ Lengths(lines') = Lengths(lines)
      BY <1>2, <1>11, <2>1
    <2>4. CASE v # <<"chunked">>
      <3>1. o = [p EXCEPT !.error = TRUE]
        BY <2>2, <2>4, OnlyChunked DEF OnTransferEncoding
      <3>2. o \in ReqStates /\ o.error
        BY <1>4, <3>1 DEF ReqStates
      <3>3. ~OneReading(lines')
        BY <2>3, <2>4 DEF OneReading
      <3> QED
        BY <3>2, <3>3
    <2>5. CASE v = <<"chunked">>
      <3>0. ParseTe(v).chunked = TRUE /\ ~ParseTe(v).refused
        BY <2>2, <2>5, OnlyChunked
      <3>1. o = [p EXCEPT !.chunked = TRUE]
        BY <2>2, <3>0 DEF OnTransferEncoding
      <3>2. /\ o \in ReqStates /\ o.error = p.error /\ o.clen = p.clen
            /\ o.has_clen = p.has_clen /\ o.chunked = TRUE
        BY <1>4, <3>1 DEF ReqStates
      <3>3. CASE p.error
        BY <1>4, <1>6, <3>2, <3>3
      <3>4. CASE ~p.error
        <4>1. Agreeing(p)
          BY <1>4, <3>4
        <4>2. Codings(lines') = {v}
          BY <4>1, <2>3, <2>5 DEF Agreeing
        <4> QED
          BY <3>2, <3>4, <4>1, <4>2, <2>3, <2>5 DEF Agreeing
      <3> QED
        BY <3>3, <3>4
    <2> QED
      BY <2>4, <2>5
  <1>12. CASE l[1] # "Content-Length" /\ l[1] # "Transfer-Encoding"
    <2>1. Lengths(lines') = Lengths(lines) /\ Codings(lines') = Codings(lines)
      BY <1>2, <1>12
    <2>2. /\ o \in ReqStates /\ o.error = p.error /\ o.clen = p.clen
          /\ o.has_clen = p.has_clen /\ o.chunked = p.chunked
      <3>1. CASE l[1] = "Connection"
        <4>1. o = OnConnection(p, l[2])
          BY <3>1, <1>8
        <4> QED
          BY <1>4, <4>1 DEF OnConnection, ReqStates
      <3>2. CASE l[1] = "Upgrade"
        <4>1. o = [p EXCEPT !.websocket = @ \/ HasToken(l[2], "websocket")]
          BY <3>2, <1>8
        <4> QED
          BY <1>4, <4>1 DEF ReqStates, HasToken
      <3>3. CASE l[1] # "Connection" /\ l[1] # "Upgrade"
        <4>1. o = p
          BY <3>3, <1>8, <1>12
        <4> QED
          BY <1>4, <4>1
      <3> QED
        BY <3>1, <3>2, <3>3
    <2>3. OneReading(lines') = OneReading(lines)
      BY <2>1 DEF OneReading
    <2> QED
      BY <1>4, <2>1, <2>2, <2>3 DEF Agreeing
  <1> QED
    BY <1>10, <1>11, <1>12

(* One line more: what the parser of answers makes of it.                  *)
LEMMA RespStep ==
  ASSUME FramingInv, NEW l \in Lines, lines' = Append(lines, l)
  PROVE  /\ lines' \in Seq(Lines)
         /\ Answer' \in RespStates
         /\ ~Answer'.error => Agreeing(Answer)' /\ ~(Answer.has_clen /\ Answer.chunked)'
         /\ Answer'.error => ~OneReading(lines)'
  <1>0. lines' \in Seq(Lines) /\ Len(lines') = Len(lines) + 1 /\ lines \in Seq(Lines)
    BY AppendProperties DEF FramingInv
  <1>1. Answer' = OnRespField(Answer, l)
    BY <1>0, RespAfterAppend DEF Answer
  <1>2. /\ Lengths(lines') =
              Lengths(lines) \cup (IF l[1] = "Content-Length" THEN {l[2][1]} ELSE {})
        /\ Codings(lines') =
              Codings(lines) \cup (IF l[1] = "Transfer-Encoding" THEN {l[2]} ELSE {})
    BY <1>0, LinesGrow
  <1>3. PICK p : p = Answer
    OBVIOUS
  <1>4. /\ p \in RespStates
        /\ ~p.error => Agreeing(p) /\ ~(p.has_clen /\ p.chunked)
        /\ p.error => ~OneReading(lines)
    BY <1>3 DEF FramingInv
  <1>5. /\ l[1] = "Content-Length" => l[2][1] \in Nat \cup {NotDigits}
        /\ l[1] = "Transfer-Encoding" => l[2] \in Seq(STRING) /\ l[2] # <<>>
    BY FramingAssumption DEF IsLine
  <1>6. OneReading(lines') => OneReading(lines)
    BY <1>2 DEF OneReading
  <1>7. PICK o : o = OnRespField(p, l)
    OBVIOUS
  <1> SUFFICES /\ o \in RespStates
               /\ ~o.error => Agreeing(o)' /\ ~(o.has_clen /\ o.chunked)
               /\ o.error => ~OneReading(lines')
    BY <1>0, <1>1, <1>3, <1>7 DEF Agreeing
  <1> HIDE DEF RespStates
  <1>10. CASE l[1] = "Content-Length"
    <2>1. PICK cl : cl = l[2][1]
      OBVIOUS
    <2>2. cl \in Nat \cup {NotDigits} /\ o = OnRespContentLength(p, cl)
      BY <1>5, <1>7, <1>10, <2>1 DEF OnRespField
    <2>3. Lengths(lines') = Lengths(lines) \cup {cl} /\ Codings(lines') = Codings(lines)
      BY <1>2, <1>10, <2>1
    <2>4. CASE cl = NotDigits \/ (p.has_clen /\ p.clen # cl) \/ p.chunked
      <3>1. o = [p EXCEPT !.error = TRUE]
        BY <2>2, <2>4 DEF OnContentLength, OnRespContentLength
      <3>2. o \in RespStates /\ o.error
        BY <1>4, <3>1 DEF RespStates
      <3>3. ~OneReading(lines')
        <4>1. CASE p.error
          BY <4>1, <1>4, <1>6
        <4>2. CASE ~p.error /\ cl = NotDigits
          BY <4>2, <2>3 DEF OneReading
        <4>3. CASE ~p.error /\ p.has_clen /\ p.clen # cl
          <5>1. p.clen \in Lengths(lines)
            BY <4>3, <1>4 DEF Agreeing
          <5> QED
            BY <4>3, <5>1, <2>3 DEF OneReading
        <4>4. CASE ~p.error /\ p.chunked
          <5>1. Codings(lines) # {}
            BY <4>4, <1>4 DEF Agreeing
          <5> QED
            BY <5>1, <2>3 DEF OneReading
        <4> QED
          BY <2>4, <4>1, <4>2, <4>3, <4>4
      <3> QED
        BY <3>2, <3>3
    <2>5. CASE cl # NotDigits /\ ~(p.has_clen /\ p.clen # cl) /\ ~p.chunked
      <3>1. o = [p EXCEPT !.clen = cl, !.has_clen = TRUE]
        BY <2>2, <2>5 DEF OnContentLength, OnRespContentLength
      <3>2. /\ o \in RespStates /\ o.error = p.error /\ o.clen = cl /\ o.has_clen = TRUE
            /\ o.chunked = p.chunked
        BY <1>4, <2>2, <2>5, <3>1 DEF RespStates
      <3>3. CASE p.error
        BY <1>4, <1>6, <3>2, <3>3
      <3>4. CASE ~p.error
        <4>1. Agreeing(p)
          BY <1>4, <3>4
        <4>2. Lengths(lines') = {cl}
          BY <4>1, <2>3, <2>5 DEF Agreeing
        <4> QED
          BY <3>2, <3>4, <4>1, <4>2, <2>3, <2>5 DEF Agreeing
      <3> QED
        BY <3>3, <3>4
    <2> QED
      BY <2>4, <2>5
  <1>11. CASE l[1] = "Transfer-Encoding"
    <2>1. PICK v : v = l[2]
      OBVIOUS
    <2>2. v \in Seq(STRING) /\ v # <<>> /\ o = OnRespTransferEncoding(p, v)
      BY <1>5, <1>7, <1>11, <2>1 DEF OnRespField
    <2>3. Codings(lines') = Codings(lines) \cup {v} /\ Lengths(lines') = Lengths(lines)
      BY <1>2, <1>11, <2>1
    <2>4. CASE v # <<"chunked">>
      <3>1. o = [p EXCEPT !.error = TRUE]
        BY <2>2, <2>4, OnlyChunked DEF OnRespTransferEncoding
      <3>2. o \in RespStates /\ o.error
        BY <1>4, <3>1 DEF RespStates
      <3>3. ~OneReading(lines')
        BY <2>3, <2>4 DEF OneReading
      <3> QED
        BY <3>2, <3>3
    <2>5. CASE v = <<"chunked">>
      <3>0. ParseTe(v).chunked = TRUE /\ ~ParseTe(v).refused
        BY <2>2, <2>5, OnlyChunked
      <3>1. o = [p EXCEPT !.error = @ \/ p.has_clen, !.chunked = TRUE]
        BY <2>2, <3>0 DEF OnRespTransferEncoding
      <3>2. /\ o \in RespStates /\ (o.error <=> p.error \/ p.has_clen) /\ o.clen = p.clen
            /\ o.has_clen = p.has_clen /\ o.chunked = TRUE
        BY <1>4, <3>1 DEF RespStates
      <3>3. CASE p.error
        BY <1>4, <1>6, <3>2, <3>3
      <3>4. CASE ~p.error
        <4>1. Agreeing(p)
          BY <1>4, <3>4
        <4>2. Codings(lines') = {v}
          BY <4>1, <2>3, <2>5 DEF Agreeing
        <4>3. CASE p.has_clen
          <5>1. Lengths(lines) # {}
            BY <4>1, <4>3 DEF Agreeing
          <5>2. ~OneReading(lines')
            BY <5>1, <4>2, <2>3 DEF OneReading
          <5> QED
            BY <3>2, <4>3, <5>2
        <4>4. CASE ~p.has_clen
          BY <3>2, <3>4, <4>1, <4>2, <4>4, <2>3, <2>5 DEF Agreeing
        <4> QED
          BY <4>3, <4>4
      <3> QED
        BY <3>3, <3>4
    <2> QED
      BY <2>4, <2>5
  <1>12. CASE l[1] # "Content-Length" /\ l[1] # "Transfer-Encoding"
    <2>1. Lengths(lines') = Lengths(lines) /\ Codings(lines') = Codings(lines)
      BY <1>2, <1>12
    <2>2. /\ o \in RespStates /\ o.error = p.error /\ o.clen = p.clen
          /\ o.has_clen = p.has_clen /\ o.chunked = p.chunked
      <3>1. CASE l[1] = "Connection"
        <4>1. o = [p EXCEPT !.close = @ \/ HasToken(l[2], "close")]
          BY <3>1, <1>7 DEF OnRespField
        <4> QED
          BY <1>4, <4>1 DEF RespStates, HasToken
      <3>3. CASE l[1] # "Connection"
        <4>1. o = p
          BY <3>3, <1>7, <1>12 DEF OnRespField
        <4> QED
          BY <1>4, <4>1
      <3> QED
        BY <3>1, <3>3
    <2>3. OneReading(lines') = OneReading(lines)
      BY <2>1 DEF OneReading
    <2> QED
      BY <1>4, <2>1, <2>2, <2>3 DEF Agreeing
  <1> QED
    BY <1>10, <1>11, <1>12

(* The invariant holds of no lines.                                        *)
LEMMA FramingStarts == FramingInit => FramingInv
  <1> SUFFICES ASSUME FramingInit PROVE FramingInv
    OBVIOUS
  <1>1. lines = <<>> /\ lines \in Seq(Lines) /\ Len(lines) = 0
    BY DEF FramingInit
  <1>2. Request = NewReq /\ Answer = NewResp
    BY <1>1, ReqAfterIs, RespAfterIs DEF Request, Answer
  <1>3. Lengths(lines) = {} /\ Codings(lines) = {}
    BY <1>1 DEF Lengths, Codings, Range
  <1>4. Request \in ReqStates /\ Answer \in RespStates
    BY <1>2 DEF NewReq, NewResp, ReqStates, RespStates
  <1> QED
    BY <1>1, <1>2, <1>3, <1>4 DEF FramingInv, Agreeing, NewReq, NewResp, OneReading

(* One line more keeps it.                                                 *)
LEMMA FramingGoesOn == FramingInv /\ [NextLine]_framingVars => FramingInv'
  <1> SUFFICES ASSUME FramingInv, [NextLine]_framingVars PROVE FramingInv'
    OBVIOUS
  <1>1. ASSUME NEW l \in Lines, lines' = Append(lines, l) PROVE FramingInv'
    BY <1>1, ReqStep, RespStep DEF FramingInv
  <1>2. CASE UNCHANGED framingVars
    BY <1>2 DEF framingVars, FramingInv, Request, Answer, Agreeing
  <1> QED
    BY <1>1, <1>2 DEF NextLine

(* A parser that agrees with its lines bounds the body as they say.        *)
LEMMA AgreeingReadsOne ==
  ASSUME FramingInv
  PROVE  OneFraming
  <1>1. PICK p : p = Request
    OBVIOUS
  <1>2. PICK a : a = Answer
    OBVIOUS
  <1>3. /\ p \in ReqStates /\ a \in RespStates
        /\ ~p.error => Agreeing(p)
        /\ p.error => ~OneReading(lines)
        /\ ~a.error => Agreeing(a) /\ ~(a.has_clen /\ a.chunked)
        /\ a.error => ~OneReading(lines)
    BY <1>1, <1>2 DEF FramingInv
  <1> DEFINE said(none) == IF Bound(lines) = "none said" THEN none ELSE Bound(lines)
  <1>4. ReadRequest(11, lines).ok = (~p.error /\ ReqFraming(p) # "REFUSED")
        /\ ReadRequest(11, lines).framing = ReqFraming(p)
    BY <1>1 DEF ReadRequest, Request
  <1>5. ReadResponse(lines).ok = ~a.error /\ ReadResponse(lines).framing = RespFraming(a)
    BY <1>2 DEF ReadResponse, Answer
  <1>6. ASSUME NEW x, Agreeing(x), x.clen \in Nat, x.has_clen \in BOOLEAN, x.chunked \in BOOLEAN
        PROVE  /\ OneReading(lines) <=> ~(x.has_clen /\ x.chunked)
               /\ ~(x.has_clen /\ x.chunked) =>
                     Bound(lines) = IF x.chunked THEN "CHUNKED"
                                    ELSE IF x.has_clen THEN IF x.clen > 0 THEN "CONTENT_LENGTH"
                                                            ELSE "NONE"
                                    ELSE "none said"
    <2>1. x.has_clen => Lengths(lines) = {x.clen}
      BY <1>6 DEF Agreeing
    <2>2. ~x.has_clen => Lengths(lines) = {}
      BY <1>6 DEF Agreeing
    <2>3. OneReading(lines) <=> ~(x.has_clen /\ x.chunked)
      BY <1>6, <2>1, <2>2 DEF Agreeing, OneReading
    <2>4. CASE x.chunked
      BY <1>6, <2>4, <2>2, <2>3 DEF Agreeing, Bound
    <2>5. CASE ~x.chunked /\ x.has_clen
      <3>1. Codings(lines) = {} /\ Lengths(lines) = {x.clen}
        BY <1>6, <2>1, <2>5 DEF Agreeing
      <3>2. CASE x.clen > 0
        BY <3>1, <3>2, <2>3, <2>5 DEF Bound
      <3>3. CASE ~(x.clen > 0)
        <4>1. x.clen = 0
          BY <1>6, <3>3
        <4> QED
          BY <3>1, <4>1, <2>3, <2>5 DEF Bound
      <3> QED
        BY <3>2, <3>3
    <2>6. CASE ~x.chunked /\ ~x.has_clen
      <3>1. Codings(lines) = {} /\ Lengths(lines) = {}
        BY <1>6, <2>2, <2>6 DEF Agreeing
      <3> QED
        BY <3>1, <2>3, <2>6 DEF Bound
    <2> QED
      BY <2>3, <2>4, <2>5, <2>6, <1>6
  <1>7. p.clen \in Nat /\ p.has_clen \in BOOLEAN /\ p.chunked \in BOOLEAN
        /\ a.clen \in Nat /\ a.has_clen \in BOOLEAN /\ a.chunked \in BOOLEAN
    BY <1>3 DEF ReqStates, RespStates
  <1>8. /\ ReadRequest(11, lines).ok <=> OneReading(lines)
        /\ ReadRequest(11, lines).ok => ReadRequest(11, lines).framing = said("NONE")
    <2>1. CASE p.error
      BY <2>1, <1>3, <1>4
    <2>2. CASE ~p.error
      BY <2>2, <1>3, <1>4, <1>6, <1>7 DEF ReqFraming
    <2> QED
      BY <2>1, <2>2
  <1>9. /\ ReadResponse(lines).ok <=> OneReading(lines)
        /\ ReadResponse(lines).ok => ReadResponse(lines).framing = said("UNTIL_CLOSE")
    <2>1. CASE a.error
      BY <2>1, <1>3, <1>5
    <2>2. CASE ~a.error
      BY <2>2, <1>3, <1>5, <1>6, <1>7 DEF RespFraming
    <2> QED
      BY <2>1, <2>2
  <1> QED
    BY <1>8, <1>9 DEF OneFraming

(* Any number of any header lines in any order: both parsers take a head   *)
(* exactly when its lines bound the body in one way, and bound it that way.*)
THEOREM FramingIsOne == FramingSpec => []OneFraming
  BY FramingStarts, FramingGoesOn, AgreeingReadsOne, PTL DEF FramingSpec

----------------------------------------------------------------------------
(* HttpConn: the invariant.                                                *)

(* A reader has the fields of BodyReader.                                  *)
IsReader(rd) ==
  /\ rd = [framing |-> rd.framing, remaining |-> rd.remaining, chunk_left |-> rd.chunk_left,
           total |-> rd.total, trailers |-> rd.trailers, finished |-> rd.finished,
           error |-> rd.error, stage |-> rd.stage]
  /\ rd.finished \in BOOLEAN

(* The types of a connection; the reader has read no further than the      *)
(* buffer and the buffer holds no more than was sent.                      *)
ConnTypes ==
  /\ wire \in Scripts
  /\ pos \in Nat /\ avail \in Nat /\ count \in Nat
  /\ pos <= avail /\ avail <= Len(Tokens)
  /\ pc \in {"loop", "head", "handler", "drain", "astray", "closed"}
  /\ responded \in BOOLEAN
  /\ request \in [r : Nat, close : BOOLEAN]
  /\ answers \in Seq([r : Nat, close : BOOLEAN])
  /\ IsReader(reader)

(* What is read next stands where the reader of an unbroken body takes it  *)
(* to be.                                                                  *)
ClenAt(rd, t, p) ==
  /\ rd.stage \in {"idle", "clen"}
  /\ p < Len(t) => t[p + 1].at = "data" /\ t[p + 1].left = rd.remaining

(* The same of a chunked body.                                             *)
ChunkAt(rd, t, p) ==
  /\ rd.chunk_left \in Nat
  /\ rd.stage \in {"idle", "size", "chunk", "crlf", "trailer"}
  /\ rd.stage \in {"size", "crlf", "trailer"} => rd.chunk_left = 0
  /\ rd.stage = "chunk" => rd.chunk_left > 0
  /\ p < Len(t) =>
       /\ rd.stage = "trailer" => t[p + 1].at = "trailer"
       /\ rd.stage = "crlf" => t[p + 1].at = "eol"
       /\ rd.stage \in {"idle", "size", "chunk"} =>
            IF rd.chunk_left = 0 THEN t[p + 1].at = "size"
            ELSE t[p + 1].at = "chunk" /\ t[p + 1].left = rd.chunk_left

(* The same of any body; behind a finished one the next request begins.    *)
BodyAt(rd, t, p) ==
  IF rd.finished THEN rd.stage = "idle" /\ (p < Len(t) => t[p + 1].at = "head")
  ELSE \/ rd.framing = "CONTENT_LENGTH" /\ ClenAt(rd, t, p)
       \/ rd.framing = "CHUNKED" /\ ChunkAt(rd, t, p)

(* A reader that broke does not read on.                                   *)
Placed(rd, t, p) == IF Failed(rd) THEN rd.stage = "idle" ELSE BodyAt(rd, t, p)

(* The last token taken is of the last request counted.                    *)
Owned(t, p, c) == (p = 0 /\ c = 0) \/ (p > 0 /\ t[p].r = c)

(* Tokens and reader go together, also across the return of the handler.   *)
BodyPlaced ==
  /\ Owned(Tokens, pos, count)
  /\ pc \in {"loop", "handler", "drain"} => Placed(reader, Tokens, pos)
  /\ pc = "loop" => Failed(reader) \/ reader.finished

(* Of a sequence of answers: none announces a close, none but the last     *)
(* does, and they are in the order of the requests.                        *)
NoneCloses(s) == \A i \in DOMAIN s : ~s[i].close
OnlyLastCloses(s) == \A i \in 1..(Len(s) - 1) : ~s[i].close
InOrder(s) == \A i \in DOMAIN s : s[i].r = i

(* Between two requests all are answered and none of the answers announced *)
(* a close; in the handler that is so of all but the current one, whose    *)
(* answer announced a close only if the request remembers it.              *)
AnswersPlaced ==
  /\ InOrder(answers) /\ OnlyLastCloses(answers)
  /\ pc \in {"loop", "head", "drain"} => Len(answers) = count /\ NoneCloses(answers)
  /\ pc = "head" => ~responded
  /\ pc = "handler" =>
       /\ request.r = count /\ count > 0
       /\ IF responded THEN Len(answers) = count /\ (answers[count].close => request.close)
          ELSE Len(answers) + 1 = count /\ NoneCloses(answers)

(* The inductive invariant.                                                *)
ConnInv == ConnTypes /\ BodyPlaced /\ AnswersPlaced

----------------------------------------------------------------------------
(* What a step s of readChunk promises: it takes no more than the buffer   *)
(* holds, the next token stands where the reader it leaves takes it to be  *)
(* and the last one is of the same request.                                *)
StaysPlaced(s) ==
  /\ IsReader(s.rd) /\ s.used \in Nat /\ pos + s.used <= avail
  /\ Placed(s.rd, Tokens, pos + s.used) /\ Owned(Tokens, pos + s.used, count)
  /\ s.ret \in {"more", "data"} \/ Failed(s.rd) \/ s.rd.finished

(* What ConnAssumption says of the script at hand.                         *)
LEMMA TokensAre ==
  ASSUME wire \in Scripts
  PROVE  Laid(wire) /\ Tokens \in Seq(TokenSet) /\ Len(Tokens) \in Nat
BY ConnAssumption DEF Laid, Tokens

(* A token that begins no request is of the request before it.             *)
LEMMA NextOwned ==
  ASSUME wire \in Scripts, NEW p \in Nat, NEW c, p < Len(Tokens), Owned(Tokens, p, c),
         Tokens[p + 1].at # "head"
  PROVE  p > 0 /\ Owned(Tokens, p + 1, c)
<1>1. Laid(wire) /\ Len(Tokens) \in Nat
  BY TokensAre
<1>2. p + 1 \in 1..Len(Tokens) /\ p + 1 - 1 = p
  BY <1>1
<1>3. /\ p + 1 = 1 => Tokens[p + 1].at = "head"
      /\ p + 1 > 1 => Tokens[p + 1].r =
           IF Tokens[p + 1].at = "head" THEN Tokens[p + 1 - 1].r + 1 ELSE Tokens[p + 1 - 1].r
  BY <1>1, <1>2 DEF Laid, Tokens
<1> QED BY <1>2, <1>3 DEF Owned

(* A head begins the request after the last one counted.                   *)
LEMMA NextHead ==
  ASSUME wire \in Scripts, NEW p \in Nat, NEW c \in Nat, p < Len(Tokens), Owned(Tokens, p, c),
         Tokens[p + 1].kind = "h1"
  PROVE  Tokens[p + 1].at = "head" /\ Tokens[p + 1].r = c + 1
<1>1. Laid(wire) /\ Len(Tokens) \in Nat
  BY TokensAre
<1>2. p + 1 \in 1..Len(Tokens) /\ p + 1 - 1 = p
  BY <1>1
<1>3. /\ Tokens[p + 1].kind = "h1" <=> Tokens[p + 1].at = "head"
      /\ p + 1 = 1 => Tokens[p + 1].at = "head" /\ Tokens[p + 1].r = 1
      /\ p + 1 > 1 => Tokens[p + 1].r =
           IF Tokens[p + 1].at = "head" THEN Tokens[p + 1 - 1].r + 1 ELSE Tokens[p + 1 - 1].r
  BY <1>1, <1>2 DEF Laid, Tokens
<1> QED BY <1>2, <1>3 DEF Owned

(* k units of the data in front stay within their request, and behind them *)
(* comes the rest of the data or what follows it.                          *)
LEMMA RunOwned ==
  ASSUME wire \in Scripts, NEW p \in Nat, NEW c, p < Len(Tokens), Owned(Tokens, p, c),
         Tokens[p + 1].at \in {"data", "chunk"},
         NEW k \in Nat, k > 0, k <= Tokens[p + 1].left, p + k <= Len(Tokens)
  PROVE  /\ Owned(Tokens, p + k, c)
         /\ p + k < Len(Tokens) =>
              IF k < Tokens[p + 1].left
              THEN /\ Tokens[p + k + 1].at = Tokens[p + 1].at
                   /\ Tokens[p + k + 1].left = Tokens[p + 1].left - k
              ELSE Tokens[p + k + 1].at = IF Tokens[p + 1].at = "data" THEN "head" ELSE "eol"
<1>1. Laid(wire) /\ Tokens \in Seq(TokenSet) /\ Len(Tokens) \in Nat
  BY TokensAre
<1>2. p + 1 \in 1..Len(Tokens)
  BY <1>1
<1>3. Tokens[p + 1].left \in Nat
  <2>1. Tokens[p + 1] \in TokenSet
    BY <1>1, <1>2
  <2> QED BY <2>1 DEF TokenSet
<1>4. PICK next \in {"head", "eol"} :
        /\ Run(Tokens, p + 1, next)
        /\ next = IF Tokens[p + 1].at = "data" THEN "head" ELSE "eol"
  BY <1>1, <1>2 DEF Laid, Tokens
<1>5. \A j \in 0..(Tokens[p + 1].left - 1) :
        p + 1 + j <= Len(Tokens) =>
          /\ Tokens[p + 1 + j].at = Tokens[p + 1].at
          /\ Tokens[p + 1 + j].left = Tokens[p + 1].left - j
          /\ Tokens[p + 1 + j].r = Tokens[p + 1].r
  BY <1>4 DEF Run
<1>6. p + 1 + Tokens[p + 1].left <= Len(Tokens) => Tokens[p + 1 + Tokens[p + 1].left].at = next
  BY <1>4 DEF Run
<1>7. p > 0 /\ Owned(Tokens, p + 1, c)
  BY NextOwned
<1>8. Owned(Tokens, p + k, c)
  <2>1. k - 1 \in 0..(Tokens[p + 1].left - 1) /\ p + 1 + (k - 1) = p + k
    BY <1>3
  <2>2. Tokens[p + k].r = Tokens[p + 1].r
    BY <1>5, <2>1
  <2> QED BY <1>7, <2>2 DEF Owned
<1>9. ASSUME p + k < Len(Tokens), k < Tokens[p + 1].left
      PROVE  /\ Tokens[p + k + 1].at = Tokens[p + 1].at
             /\ Tokens[p + k + 1].left = Tokens[p + 1].left - k
  <2>1. k \in 0..(Tokens[p + 1].left - 1) /\ p + 1 + k = p + k + 1 /\ p + 1 + k <= Len(Tokens)
    BY <1>1, <1>3, <1>9
  <2> QED BY <1>5, <2>1
<1>10. ASSUME p + k < Len(Tokens), ~(k < Tokens[p + 1].left)
       PROVE  Tokens[p + k + 1].at = next
  <2>1. k = Tokens[p + 1].left /\ p + 1 + k = p + k + 1 /\ p + 1 + k <= Len(Tokens)
    BY <1>1, <1>3, <1>10
  <2> QED BY <1>6, <2>1
<1> QED BY <1>4, <1>8, <1>9, <1>10

(* Two tokens in a row.                                                    *)
LEMMA FollowsAre ==
  ASSUME wire \in Scripts, NEW p \in Nat, p + 1 < Len(Tokens)
  PROVE  Follows(wire, p + 1) /\ Tokens[p + 2] = Tokens[p + 1 + 1]
<1>1. Laid(wire) /\ Len(Tokens) \in Nat
  BY TokensAre
<1>2. p + 1 \in 1..Len(Tokens) /\ p + 1 < Len(Tokens) /\ p + 2 = p + 1 + 1
  BY <1>1
<1> QED BY <1>1, <1>2 DEF Laid, Tokens

(* Result changes the stage and nothing else.                              *)
LEMMA ResultIs ==
  ASSUME NEW rd, IsReader(rd), NEW used, NEW ret
  PROVE  LET s == Result(rd, used, ret)
         IN /\ s.used = used /\ s.ret = ret /\ IsReader(s.rd)
            /\ s.rd.framing = rd.framing /\ s.rd.remaining = rd.remaining
            /\ s.rd.chunk_left = rd.chunk_left /\ s.rd.finished = rd.finished
            /\ s.rd.error = rd.error
            /\ s.rd.stage = IF ret = "more" THEN rd.stage ELSE "idle"
BY DEF Result, IsReader

(* A step that fails.                                                      *)
LEMMA FailedStays ==
  ASSUME ConnTypes, NEW rd, IsReader(rd), Failed(rd), NEW used \in Nat, pos + used <= avail,
         Owned(Tokens, pos + used, count), NEW ret, ret # "more"
  PROVE  StaysPlaced(Result(rd, used, ret))
<1>1. PICK s : s = Result(rd, used, ret)
  OBVIOUS
<1>2. /\ s.used = used /\ s.ret = ret /\ IsReader(s.rd) /\ s.rd.error = rd.error
      /\ s.rd.stage = "idle" /\ s.rd.finished = rd.finished
  BY <1>1, ResultIs
<1>3. Placed(s.rd, Tokens, pos + s.used) /\ Failed(s.rd)
  BY <1>2 DEF Placed, Failed
<1> QED BY <1>1, <1>2, <1>3 DEF StaysPlaced

(* Break and Spoil keep the error and stop the reader.                     *)
LEMMA BrokenStays ==
  ASSUME ConnTypes, NEW rd, IsReader(rd), NEW code,
         code # "NONE", NEW used \in Nat, pos + used <= avail,
         Owned(Tokens, pos + used, count)
  PROVE  StaysPlaced(Break(rd, code, used)) /\ StaysPlaced(Spoil(rd, code, used))
<1>1. PICK x : x = SetError(rd, code)
  OBVIOUS
<1>2. IsReader(x) /\ Failed(x)
  BY <1>1 DEF IsReader, SetError, Failed
<1>3. PICK y : y = [x EXCEPT !.finished = TRUE]
  OBVIOUS
<1>4. IsReader(y) /\ Failed(y)
  BY <1>2, <1>3 DEF IsReader, Failed
<1>5. StaysPlaced(Result(x, used, "fail")) /\ StaysPlaced(Result(y, used, "fail"))
  BY <1>2, <1>4, FailedStays
<1> QED BY <1>1, <1>3, <1>5 DEF Break, Spoil

(* The entry of readChunk.                                                 *)
LEMMA BeginStays ==
  ASSUME ConnTypes, Owned(Tokens, pos, count), NEW rd, IsReader(rd), Placed(rd, Tokens, pos),
         rd.stage = "idle"
  PROVE  StaysPlaced(Begin(rd))
<1>1. pos + 0 = pos /\ pos \in Nat /\ pos <= avail
  BY DEF ConnTypes
<1>2. CASE rd.finished
  <2>1. PICK s : s = Result(rd, 0, "end")
    OBVIOUS
  <2>2. /\ s.used = 0 /\ s.ret = "end" /\ IsReader(s.rd) /\ s.rd.error = rd.error
        /\ s.rd.stage = "idle" /\ s.rd.finished = rd.finished
    BY <2>1, ResultIs
  <2>3. Placed(s.rd, Tokens, pos)
    BY <2>2, <1>2 DEF Placed, Failed, BodyAt
  <2>4. StaysPlaced(s)
    BY <1>1, <1>2, <2>2, <2>3 DEF StaysPlaced
  <2> QED BY <1>2, <2>1, <2>4 DEF Begin
<1>3. CASE ~rd.finished /\ Failed(rd)
  BY <1>1, <1>3, FailedStays DEF Begin
<1>4. CASE ~rd.finished /\ ~Failed(rd)
  <2>1. PICK stage : stage = IF rd.framing = "CONTENT_LENGTH" THEN "clen"
                             ELSE IF rd.chunk_left = 0 THEN "size" ELSE "chunk"
    OBVIOUS
  <2>2. PICK x : x = [rd EXCEPT !.stage = stage]
    OBVIOUS
  <2>3. /\ IsReader(x) /\ x.framing = rd.framing /\ x.remaining = rd.remaining
        /\ x.chunk_left = rd.chunk_left /\ x.finished = rd.finished /\ x.error = rd.error
        /\ x.stage = stage
    BY <2>2 DEF IsReader
  <2>4. PICK s : s = Result(x, 0, "more")
    OBVIOUS
  <2>5. /\ s.used = 0 /\ s.ret = "more" /\ IsReader(s.rd)
        /\ s.rd.framing = rd.framing /\ s.rd.remaining = rd.remaining
        /\ s.rd.chunk_left = rd.chunk_left /\ s.rd.finished = rd.finished
        /\ s.rd.error = rd.error /\ s.rd.stage = stage
    BY <2>3, <2>4, ResultIs
  <2>6. BodyAt(rd, Tokens, pos) /\ ~rd.finished
    BY <1>4 DEF Placed
  <2>7. BodyAt(s.rd, Tokens, pos)
    BY <2>1, <2>5, <2>6 DEF BodyAt, ClenAt, ChunkAt
  <2>8. Placed(s.rd, Tokens, pos)
    BY <1>4, <2>5, <2>7 DEF Placed, Failed
  <2>9. StaysPlaced(s)
    BY <1>1, <2>5, <2>8 DEF StaysPlaced
  <2> QED BY <1>4, <2>1, <2>2, <2>4, <2>9 DEF Begin, EnterStage
<1> QED BY <1>2, <1>3, <1>4

(* With something in the buffer there is a next token.                     *)
LEMMA Advances ==
  ASSUME ConnTypes, Buffered > 0
  PROVE  /\ pos \in Nat /\ avail \in Nat /\ pos < avail /\ pos + 1 <= avail /\ pos < Len(Tokens)
         /\ Len(Tokens) \in Nat /\ avail <= Len(Tokens) /\ wire \in Scripts
         /\ Peek(1) = Tokens[pos + 1] /\ Peek(1) \in TokenSet
<1>1. wire \in Scripts
  BY DEF ConnTypes
<1>2. Tokens \in Seq(TokenSet) /\ Len(Tokens) \in Nat
  BY <1>1, TokensAre
<1>3. /\ pos \in Nat /\ avail \in Nat /\ pos < avail /\ pos + 1 <= avail /\ pos < Len(Tokens)
      /\ avail <= Len(Tokens)
  BY <1>2 DEF ConnTypes, Buffered
<1>4. Tokens[pos + 1] \in TokenSet
  BY <1>2, <1>3
<1> QED BY <1>1, <1>2, <1>3, <1>4 DEF Peek

(* What a step leaves that did not fail.                                   *)
LEMMA UnbrokenStays ==
  ASSUME ConnTypes, NEW x, IsReader(x), ~Failed(x), NEW used \in Nat, pos + used <= avail,
         Owned(Tokens, pos + used, count), NEW ret, ret \in {"more", "data"} \/ x.finished,
         NEW y, y = [x EXCEPT !.stage = IF ret = "more" THEN @ ELSE "idle"],
         BodyAt(y, Tokens, pos + used)
  PROVE  StaysPlaced(Result(x, used, ret))
<1>1. PICK s : s = Result(x, used, ret)
  OBVIOUS
<1>2. s.rd = y /\ s.used = used /\ s.ret = ret
  BY <1>1 DEF Result
<1>3. IsReader(y) /\ y.error = x.error /\ y.finished = x.finished
  BY DEF IsReader
<1>4. Placed(y, Tokens, pos + used)
  BY <1>3 DEF Placed, Failed
<1> QED BY <1>1, <1>2, <1>3, <1>4 DEF StaysPlaced

(* read_clen takes at most what is left of the body, so it ends exactly    *)
(* behind it.                                                              *)
LEMMA ReadClenStays ==
  ASSUME ConnTypes, Owned(Tokens, pos, count), NEW rd, IsReader(rd), ~Failed(rd), ~rd.finished,
         BodyAt(rd, Tokens, pos), rd.stage = "clen", Buffered > 0
  PROVE  StaysPlaced(ReadClen(rd))
<1>1. /\ pos \in Nat /\ avail \in Nat /\ pos < avail /\ pos + 1 <= avail /\ pos < Len(Tokens)
      /\ Len(Tokens) \in Nat /\ avail <= Len(Tokens) /\ wire \in Scripts
      /\ Tokens[pos + 1] \in TokenSet
  BY Advances
<1>2. /\ rd.framing = "CONTENT_LENGTH" /\ Tokens[pos + 1].at = "data"
      /\ Tokens[pos + 1].left = rd.remaining
  BY <1>1 DEF BodyAt, ClenAt, ChunkAt
<1>3. rd.remaining \in Nat /\ rd.remaining > 0
  <2>1. rd.remaining \in Nat
    BY <1>1, <1>2 DEF TokenSet
  <2>2. pos + 1 \in 1..Len(Tokens) /\ Laid(wire)
    BY <1>1, TokensAre
  <2>3. Run(Tokens, pos + 1, "head")
    BY <1>2, <2>2 DEF Laid, Tokens
  <2> QED BY <1>2, <2>1, <2>3 DEF Run
<1>4. PICK take : take = IF Buffered > rd.remaining THEN rd.remaining ELSE Buffered
  OBVIOUS
<1>5. take \in Nat /\ take > 0 /\ take <= rd.remaining /\ pos + take <= avail
  BY <1>1, <1>3, <1>4 DEF Buffered
<1>6. /\ Owned(Tokens, pos + take, count)
      /\ pos + take < Len(Tokens) =>
           IF take < rd.remaining
           THEN /\ Tokens[pos + take + 1].at = "data"
                /\ Tokens[pos + take + 1].left = rd.remaining - take
           ELSE Tokens[pos + take + 1].at = "head"
  BY <1>1, <1>2, <1>5, RunOwned
<1>7. CASE ~Fits(rd, take)
  <2>1. StaysPlaced(Break(rd, "TOO_LARGE", 0))
    <3>1. pos + 0 <= avail /\ Owned(Tokens, pos + 0, count)
      BY <1>1
    <3> QED BY <3>1, BrokenStays
  <2> QED BY <1>4, <1>7, <2>1 DEF ReadClen
<1>8. CASE Fits(rd, take)
  <2>1. PICK left : left = rd.remaining - take
    OBVIOUS
  <2>2. left \in Nat /\ (left = 0 <=> ~(take < rd.remaining))
    BY <1>3, <1>5, <2>1
  <2>3. PICK a : a = Account(rd, take)
    OBVIOUS
  <2>4. IsReader(a) /\ ~Failed(a) /\ a.framing = "CONTENT_LENGTH"
    BY <1>2, <2>3 DEF IsReader, Account, Failed
  <2>5. PICK x : x = [a EXCEPT !.remaining = left, !.finished = left = 0]
    OBVIOUS
  <2>6. /\ IsReader(x) /\ ~Failed(x) /\ x.framing = "CONTENT_LENGTH" /\ x.remaining = left
        /\ x.finished = (left = 0)
    BY <2>4, <2>5 DEF IsReader, Failed
  <2>7. PICK y : y = [x EXCEPT !.stage = IF "data" = "more" THEN @ ELSE "idle"]
    OBVIOUS
  <2>8. /\ y.framing = "CONTENT_LENGTH" /\ y.remaining = left /\ y.finished = (left = 0)
        /\ y.stage = "idle"
    BY <2>6, <2>7 DEF IsReader
  <2>9. BodyAt(y, Tokens, pos + take)
    <3>1. CASE left = 0
      BY <1>6, <2>2, <2>8, <3>1 DEF BodyAt
    <3>2. CASE left # 0
      BY <1>6, <2>1, <2>2, <2>8, <3>2 DEF BodyAt, ClenAt
    <3> QED BY <3>1, <3>2
  <2>10. StaysPlaced(Result(x, take, "data"))
    BY <1>5, <1>6, <2>6, <2>7, <2>9, UnbrokenStays
  <2> QED BY <1>4, <1>8, <2>1, <2>3, <2>5, <2>10 DEF ReadClen, Give
<1> QED BY <1>7, <1>8

(* A chunk has the size its line says; size 0 leads to the trailer.        *)
LEMMA ReadSizeStays ==
  ASSUME ConnTypes, Owned(Tokens, pos, count), NEW rd, IsReader(rd), ~Failed(rd), ~rd.finished,
         BodyAt(rd, Tokens, pos), rd.stage = "size", Buffered > 0
  PROVE  StaysPlaced(ReadSize(rd))
<1>1. /\ pos \in Nat /\ avail \in Nat /\ pos < avail /\ pos + 1 <= avail /\ pos < Len(Tokens)
      /\ Len(Tokens) \in Nat /\ avail <= Len(Tokens) /\ wire \in Scripts
      /\ Tokens[pos + 1] \in TokenSet /\ Peek(1) = Tokens[pos + 1]
  BY Advances
<1>2. rd.framing = "CHUNKED" /\ rd.chunk_left = 0 /\ Tokens[pos + 1].at = "size"
  BY <1>1 DEF BodyAt, ClenAt, ChunkAt
<1>3. Owned(Tokens, pos + 1, count)
  BY <1>1, <1>2, NextOwned
<1>4. PICK n : n = Peek(1).n
  OBVIOUS
<1>5. n \in Nat
  BY <1>1, <1>4 DEF TokenSet
<1>6. Peek(1).kind = "size" /\ pos + 1 < Len(Tokens) =>
        IF n = 0 THEN Tokens[pos + 2].at = "trailer"
        ELSE Tokens[pos + 2].at = "chunk" /\ Tokens[pos + 2].left = n
  <2> HAVE Peek(1).kind = "size" /\ pos + 1 < Len(Tokens)
  <2>1. Follows(wire, pos + 1) /\ Tokens[pos + 2] = Tokens[pos + 1 + 1]
    BY <1>1, FollowsAre
  <2> QED BY <1>1, <1>2, <1>4, <2>1 DEF Follows, Tokens
<1>7. CASE Peek(1).kind # "size"
  <2>1. StaysPlaced(Spoil(rd, "MALFORMED", 1))
    BY <1>1, <1>3, BrokenStays
  <2> QED BY <1>7, <2>1 DEF ReadSize
<1>8. CASE Peek(1).kind = "size" /\ n = 0
  <2>1. PICK x : x = [rd EXCEPT !.stage = "trailer"]
    OBVIOUS
  <2>2. /\ IsReader(x) /\ ~Failed(x) /\ x.framing = "CHUNKED" /\ x.chunk_left = 0
        /\ ~x.finished /\ x.stage = "trailer"
    BY <1>2, <2>1 DEF IsReader, Failed
  <2>3. PICK y : y = [x EXCEPT !.stage = IF "more" = "more" THEN @ ELSE "idle"]
    OBVIOUS
  <2>4. y.framing = "CHUNKED" /\ y.chunk_left = 0 /\ ~y.finished /\ y.stage = "trailer"
    BY <2>2, <2>3 DEF IsReader
  <2>5. BodyAt(y, Tokens, pos + 1)
    BY <1>1, <1>6, <1>8, <2>4 DEF BodyAt, ChunkAt
  <2>6. StaysPlaced(Result(x, 1, "more"))
    BY <1>1, <1>3, <2>2, <2>3, <2>5, UnbrokenStays
  <2> QED BY <1>4, <1>8, <2>1, <2>6 DEF ReadSize, EnterStage
<1>9. CASE Peek(1).kind = "size" /\ n # 0 /\ ~Fits(rd, n)
  <2>1. StaysPlaced(Break(rd, "TOO_LARGE", 1))
    BY <1>1, <1>3, BrokenStays
  <2> QED BY <1>4, <1>9, <2>1 DEF ReadSize
<1>10. CASE Peek(1).kind = "size" /\ n # 0 /\ Fits(rd, n)
  <2>1. PICK a : a = [Account(rd, n) EXCEPT !.chunk_left = n]
    OBVIOUS
  <2>2. /\ IsReader(a) /\ ~Failed(a) /\ a.framing = "CHUNKED" /\ a.chunk_left = n
        /\ ~a.finished
    BY <1>2, <2>1 DEF IsReader, Failed, Account
  <2>3. PICK x : x = [a EXCEPT !.stage = "chunk"]
    OBVIOUS
  <2>4. /\ IsReader(x) /\ ~Failed(x) /\ x.framing = "CHUNKED" /\ x.chunk_left = n
        /\ ~x.finished /\ x.stage = "chunk"
    BY <2>2, <2>3 DEF IsReader, Failed
  <2>5. PICK y : y = [x EXCEPT !.stage = IF "more" = "more" THEN @ ELSE "idle"]
    OBVIOUS
  <2>6. y.framing = "CHUNKED" /\ y.chunk_left = n /\ ~y.finished /\ y.stage = "chunk"
    BY <2>4, <2>5 DEF IsReader
  <2>7. BodyAt(y, Tokens, pos + 1)
    BY <1>1, <1>5, <1>6, <1>10, <2>6 DEF BodyAt, ChunkAt
  <2>8. StaysPlaced(Result(x, 1, "more"))
    BY <1>1, <1>3, <2>4, <2>5, <2>7, UnbrokenStays
  <2> QED BY <1>4, <1>10, <2>1, <2>3, <2>8 DEF ReadSize, EnterStage
<1> QED BY <1>7, <1>8, <1>9, <1>10

(* Only an empty line ends the trailer, and it ends the request.           *)
LEMMA ReadTrailerStays ==
  ASSUME ConnTypes, Owned(Tokens, pos, count), NEW rd, IsReader(rd), ~Failed(rd), ~rd.finished,
         BodyAt(rd, Tokens, pos), rd.stage = "trailer", Buffered > 0
  PROVE  StaysPlaced(ReadTrailer(rd))
<1>1. /\ pos \in Nat /\ avail \in Nat /\ pos < avail /\ pos + 1 <= avail /\ pos < Len(Tokens)
      /\ Len(Tokens) \in Nat /\ avail <= Len(Tokens) /\ wire \in Scripts
      /\ Tokens[pos + 1] \in TokenSet /\ Peek(1) = Tokens[pos + 1]
  BY Advances
<1>2. rd.framing = "CHUNKED" /\ rd.chunk_left = 0 /\ Tokens[pos + 1].at = "trailer"
  BY <1>1 DEF BodyAt, ClenAt, ChunkAt
<1>3. Owned(Tokens, pos + 1, count)
  BY <1>1, <1>2, NextOwned
<1>4. pos + 1 < Len(Tokens) =>
        Tokens[pos + 2].at = IF Peek(1).kind = "crlf" THEN "head" ELSE "trailer"
  <2> HAVE pos + 1 < Len(Tokens)
  <2>1. Follows(wire, pos + 1) /\ Tokens[pos + 2] = Tokens[pos + 1 + 1]
    BY <1>1, FollowsAre
  <2> QED BY <1>1, <1>2, <2>1 DEF Follows, Tokens
<1>5. CASE Peek(1).kind = "crlf"
  <2>1. PICK x : x = [rd EXCEPT !.finished = TRUE]
    OBVIOUS
  <2>2. IsReader(x) /\ ~Failed(x) /\ x.finished
    BY <2>1 DEF IsReader, Failed
  <2>3. PICK y : y = [x EXCEPT !.stage = IF "end" = "more" THEN @ ELSE "idle"]
    OBVIOUS
  <2>4. y.finished /\ y.stage = "idle"
    BY <2>2, <2>3 DEF IsReader
  <2>5. BodyAt(y, Tokens, pos + 1)
    BY <1>1, <1>4, <1>5, <2>4 DEF BodyAt
  <2>6. StaysPlaced(Result(x, 1, "end"))
    BY <1>1, <1>3, <2>2, <2>3, <2>5, UnbrokenStays
  <2> QED BY <1>5, <2>1, <2>6 DEF ReadTrailer, FinishBody
<1>6. CASE Peek(1).kind # "crlf" /\ rd.trailers + 1 > MaxTrailers
  <2>1. StaysPlaced(Break(rd, "MALFORMED", 1))
    BY <1>1, <1>3, BrokenStays
  <2> QED BY <1>6, <2>1 DEF ReadTrailer
<1>7. CASE Peek(1).kind # "crlf" /\ ~(rd.trailers + 1 > MaxTrailers)
  <2>1. PICK a : a = [rd EXCEPT !.trailers = @ + 1]
    OBVIOUS
  <2>2. /\ IsReader(a) /\ ~Failed(a) /\ a.framing = "CHUNKED" /\ a.chunk_left = 0
        /\ ~a.finished
    BY <1>2, <2>1 DEF IsReader, Failed
  <2>3. PICK x : x = [a EXCEPT !.stage = "trailer"]
    OBVIOUS
  <2>4. /\ IsReader(x) /\ ~Failed(x) /\ x.framing = "CHUNKED" /\ x.chunk_left = 0
        /\ ~x.finished /\ x.stage = "trailer"
    BY <2>2, <2>3 DEF IsReader, Failed
  <2>5. PICK y : y = [x EXCEPT !.stage = IF "more" = "more" THEN @ ELSE "idle"]
    OBVIOUS
  <2>6. y.framing = "CHUNKED" /\ y.chunk_left = 0 /\ ~y.finished /\ y.stage = "trailer"
    BY <2>4, <2>5 DEF IsReader
  <2>7. BodyAt(y, Tokens, pos + 1)
    BY <1>1, <1>4, <1>7, <2>6 DEF BodyAt, ChunkAt
  <2>8. StaysPlaced(Result(x, 1, "more"))
    BY <1>1, <1>3, <2>4, <2>5, <2>7, UnbrokenStays
  <2> QED BY <1>7, <2>1, <2>3, <2>8 DEF ReadTrailer, EnterStage
<1> QED BY <1>5, <1>6, <1>7

(* The data of a chunk, however it is cut into pieces.                     *)
LEMMA ReadDataStays ==
  ASSUME ConnTypes, Owned(Tokens, pos, count), NEW rd, IsReader(rd), ~Failed(rd), ~rd.finished,
         BodyAt(rd, Tokens, pos), rd.stage = "chunk", Buffered > 0
  PROVE  StaysPlaced(ReadData(rd))
<1>1. /\ pos \in Nat /\ avail \in Nat /\ pos < avail /\ pos + 1 <= avail /\ pos < Len(Tokens)
      /\ Len(Tokens) \in Nat /\ avail <= Len(Tokens) /\ wire \in Scripts
  BY Advances
<1>2. /\ rd.framing = "CHUNKED" /\ rd.chunk_left \in Nat /\ rd.chunk_left > 0
      /\ Tokens[pos + 1].at = "chunk" /\ Tokens[pos + 1].left = rd.chunk_left
  BY <1>1 DEF BodyAt, ClenAt, ChunkAt
<1>3. PICK take : take = IF Buffered > rd.chunk_left THEN rd.chunk_left ELSE Buffered
  OBVIOUS
<1>4. take \in Nat /\ take > 0 /\ take <= rd.chunk_left /\ pos + take <= avail
  BY <1>1, <1>2, <1>3 DEF Buffered
<1>5. /\ Owned(Tokens, pos + take, count)
      /\ pos + take < Len(Tokens) =>
           IF take < rd.chunk_left
           THEN /\ Tokens[pos + take + 1].at = "chunk"
                /\ Tokens[pos + take + 1].left = rd.chunk_left - take
           ELSE Tokens[pos + take + 1].at = "eol"
  BY <1>1, <1>2, <1>4, RunOwned
<1>6. PICK a : a = [rd EXCEPT !.chunk_left = @ - take]
  OBVIOUS
<1>7. /\ IsReader(a) /\ ~Failed(a) /\ a.framing = "CHUNKED" /\ ~a.finished
      /\ a.chunk_left = rd.chunk_left - take
  BY <1>2, <1>6 DEF IsReader, Failed
<1>8. a.chunk_left \in Nat /\ (a.chunk_left = 0 <=> ~(take < rd.chunk_left))
  BY <1>2, <1>4, <1>7
<1>9. CASE a.chunk_left = 0
  <2>1. PICK x : x = [a EXCEPT !.stage = "crlf"]
    OBVIOUS
  <2>2. /\ IsReader(x) /\ ~Failed(x) /\ x.framing = "CHUNKED" /\ x.chunk_left = 0
        /\ ~x.finished /\ x.stage = "crlf"
    BY <1>7, <1>9, <2>1 DEF IsReader, Failed
  <2>3. PICK y : y = [x EXCEPT !.stage = IF "more" = "more" THEN @ ELSE "idle"]
    OBVIOUS
  <2>4. y.framing = "CHUNKED" /\ y.chunk_left = 0 /\ ~y.finished /\ y.stage = "crlf"
    BY <2>2, <2>3 DEF IsReader
  <2>5. BodyAt(y, Tokens, pos + take)
    BY <1>5, <1>8, <1>9, <2>4 DEF BodyAt, ChunkAt
  <2>6. StaysPlaced(Result(x, take, "more"))
    BY <1>4, <1>5, <2>2, <2>3, <2>5, UnbrokenStays
  <2> QED BY <1>3, <1>6, <1>9, <2>1, <2>6 DEF ReadData, EnterStage
<1>10. CASE a.chunk_left # 0
  <2>1. PICK y : y = [a EXCEPT !.stage = IF "data" = "more" THEN @ ELSE "idle"]
    OBVIOUS
  <2>2. /\ y.framing = "CHUNKED" /\ y.chunk_left = rd.chunk_left - take /\ ~y.finished
        /\ y.stage = "idle" /\ y.chunk_left \in Nat
    BY <1>7, <1>8, <2>1 DEF IsReader
  <2>3. BodyAt(y, Tokens, pos + take)
    BY <1>5, <1>7, <1>8, <1>10, <2>2 DEF BodyAt, ChunkAt
  <2>4. StaysPlaced(Result(a, take, "data"))
    BY <1>4, <1>5, <1>7, <2>1, <2>3, UnbrokenStays
  <2> QED BY <1>3, <1>6, <1>10, <2>4 DEF ReadData, Give
<1> QED BY <1>9, <1>10

(* Behind a chunk comes its line end, and behind that a size.              *)
LEMMA ReadCrlfStays ==
  ASSUME ConnTypes, Owned(Tokens, pos, count), NEW rd, IsReader(rd), ~Failed(rd), ~rd.finished,
         BodyAt(rd, Tokens, pos), rd.stage = "crlf", Buffered > 0
  PROVE  StaysPlaced(ReadCrlf(rd))
<1>1. /\ pos \in Nat /\ avail \in Nat /\ pos < avail /\ pos + 1 <= avail /\ pos < Len(Tokens)
      /\ Len(Tokens) \in Nat /\ avail <= Len(Tokens) /\ wire \in Scripts
      /\ Peek(1) = Tokens[pos + 1]
  BY Advances
<1>2. rd.framing = "CHUNKED" /\ rd.chunk_left = 0 /\ Tokens[pos + 1].at = "eol"
  BY <1>1 DEF BodyAt, ClenAt, ChunkAt
<1>3. Owned(Tokens, pos + 1, count)
  BY <1>1, <1>2, NextOwned
<1>4. CASE Peek(1).kind = "crlf"
  <2>1. pos + 1 < Len(Tokens) => Tokens[pos + 2].at = "size"
    <3> HAVE pos + 1 < Len(Tokens)
    <3>1. Follows(wire, pos + 1) /\ Tokens[pos + 2] = Tokens[pos + 1 + 1]
      BY <1>1, FollowsAre
    <3> QED BY <1>1, <1>2, <1>4, <3>1 DEF Follows, Tokens
  <2>2. PICK y : y = [rd EXCEPT !.stage = IF "data" = "more" THEN @ ELSE "idle"]
    OBVIOUS
  <2>3. y.framing = "CHUNKED" /\ y.chunk_left = 0 /\ ~y.finished /\ y.stage = "idle"
    BY <1>2, <2>2 DEF IsReader
  <2>4. BodyAt(y, Tokens, pos + 1)
    BY <1>1, <2>1, <2>3 DEF BodyAt, ChunkAt
  <2>5. StaysPlaced(Result(rd, 1, "data"))
    BY <1>1, <1>3, <2>2, <2>4, UnbrokenStays
  <2> QED BY <1>4, <2>5 DEF ReadCrlf, Give
<1>5. CASE Peek(1).kind # "crlf"
  <2>1. pos + 0 <= avail /\ Owned(Tokens, pos + 0, count)
    BY <1>1
  <2>2. StaysPlaced(Break(rd, "MALFORMED", 0))
    BY <2>1, BrokenStays
  <2> QED BY <1>5, <2>2 DEF ReadCrlf
<1> QED BY <1>4, <1>5

(* Every step of readChunk.                                                *)
LEMMA ReadStays ==
  ASSUME ConnTypes, Owned(Tokens, pos, count), Placed(reader, Tokens, pos),
         reader.stage = "idle" \/ Buffered > 0
  PROVE  StaysPlaced(ReadStep(reader))
<1>1. IsReader(reader)
  BY DEF ConnTypes
<1>2. CASE reader.stage = "idle"
  BY <1>1, <1>2, BeginStays DEF ReadStep
<1>3. CASE reader.stage # "idle"
  <2>1. ~Failed(reader) /\ BodyAt(reader, Tokens, pos) /\ Buffered > 0
    BY <1>3 DEF Placed
  <2>2. ~reader.finished /\ reader.stage \in {"clen", "size", "trailer", "chunk", "crlf"}
    BY <1>3, <2>1 DEF BodyAt, ClenAt, ChunkAt
  <2>3. CASE reader.stage = "clen"
    BY <1>1, <2>1, <2>2, <2>3, ReadClenStays DEF ReadStep
  <2>4. CASE reader.stage = "size"
    BY <1>1, <2>1, <2>2, <2>4, ReadSizeStays DEF ReadStep
  <2>5. CASE reader.stage = "trailer"
    BY <1>1, <2>1, <2>2, <2>5, ReadTrailerStays DEF ReadStep
  <2>6. CASE reader.stage = "chunk"
    BY <1>1, <2>1, <2>2, <2>6, ReadDataStays DEF ReadStep
  <2>7. CASE reader.stage = "crlf"
    BY <1>1, <2>1, <2>2, <2>7, ReadCrlfStays DEF ReadStep
  <2> QED BY <2>2, <2>3, <2>4, <2>5, <2>6, <2>7
<1> QED BY <1>2, <1>3

(* A read that gets nothing takes nothing and breaks the body.             *)
LEMMA FillFailedStays ==
  ASSUME ConnTypes, Owned(Tokens, pos, count)
  PROVE  StaysPlaced(FillFailed(reader)) /\ FillFailed(reader).used = 0
<1>1. IsReader(reader) /\ pos + 0 <= avail /\ Owned(Tokens, pos + 0, count)
  BY DEF ConnTypes
<1>2. CASE reader.stage = "trailer"
  <2>1. PICK x : x = SetError(reader, "IO")
    OBVIOUS
  <2>2. IsReader(x) /\ Failed(x)
    BY <1>1, <2>1 DEF IsReader, SetError, Failed
  <2>3. PICK y : y = [x EXCEPT !.finished = TRUE]
    OBVIOUS
  <2>4. IsReader(y) /\ Failed(y) /\ y.finished
    BY <2>2, <2>3 DEF IsReader, Failed
  <2>5. StaysPlaced(Result(y, 0, "end")) /\ Result(y, 0, "end").used = 0
    BY <1>1, <2>4, FailedStays, ResultIs
  <2> QED BY <1>2, <2>1, <2>3, <2>5 DEF FillFailed, FinishBody
<1>3. CASE reader.stage # "trailer"
  <2>1. StaysPlaced(Break(reader, "IO", 0))
    BY <1>1, BrokenStays
  <2> QED BY <1>3, <2>1 DEF FillFailed, Break, Result
<1> QED BY <1>2, <1>3

(* Answers.                                                                *)
AnswerSet == [r : Nat, close : BOOLEAN]

(* The next answer, when none so far announced a close.                    *)
LEMMA OneMoreAnswer ==
  ASSUME NEW s \in Seq(AnswerSet), InOrder(s), NoneCloses(s), NEW a \in AnswerSet,
         a.r = Len(s) + 1, NEW u, u = Append(s, a)
  PROVE  /\ u \in Seq(AnswerSet) /\ InOrder(u) /\ OnlyLastCloses(u)
         /\ Len(u) = Len(s) + 1 /\ u[Len(s) + 1] = a
<1>1. /\ u \in Seq(AnswerSet) /\ Len(s) \in Nat /\ Len(u) = Len(s) + 1 /\ u[Len(s) + 1] = a
      /\ \A i \in 1..Len(s) : u[i] = s[i]
      /\ DOMAIN s = 1..Len(s) /\ DOMAIN u = 1..(Len(s) + 1)
  BY AppendProperties
<1>2. InOrder(u)
  BY <1>1 DEF InOrder
<1>3. OnlyLastCloses(u)
  BY <1>1 DEF NoneCloses, OnlyLastCloses
<1> QED BY <1>1, <1>2, <1>3

(* The last answer is the only one that may announce a close.              *)
LEMMA AllKeep ==
  ASSUME NEW s \in Seq(AnswerSet), OnlyLastCloses(s), Len(s) > 0 => ~s[Len(s)].close
  PROVE  NoneCloses(s)
<1>1. PICK n \in Nat : n = Len(s) /\ DOMAIN s = 1..n
  OBVIOUS
<1>2. \A i \in 1..(n - 1) : ~s[i].close
  BY <1>1 DEF OnlyLastCloses
<1>3. n > 0 => ~s[n].close
  BY <1>1
<1>4. \A i \in 1..n : i = n \/ i \in 1..(n - 1)
  BY ONLY n \in Nat
<1>5. \A i \in 1..n : ~s[i].close
  BY <1>2, <1>3, <1>4
<1> QED BY <1>1, <1>5 DEF NoneCloses

(* The invariant holds when the connection is accepted.                    *)
LEMMA ConnStarts == ConnInit => ConnInv
<1> SUFFICES ASSUME ConnInit PROVE ConnInv
  OBVIOUS
<1>1. Laid(wire) /\ Len(Tokens) \in Nat /\ wire \in Scripts
  BY TokensAre DEF ConnInit
<1>2. 0 < Len(Tokens) => Tokens[0 + 1].at = "head"
  <2> HAVE 0 < Len(Tokens)
  <2>1. 1 \in 1..Len(Tokens)
    BY <1>1
  <2>2. Tokens[1].at = "head"
    BY <1>1, <2>1 DEF Laid, Tokens
  <2> QED BY <2>2
<1>3. /\ IsReader(reader) /\ reader.finished /\ reader.stage = "idle" /\ ~Failed(reader)
  BY DEF ConnInit, NoReader, NewReader, IsReader, Failed
<1>4. ConnTypes
  <2>1. request \in [r : Nat, close : BOOLEAN] /\ answers \in Seq([r : Nat, close : BOOLEAN])
    BY DEF ConnInit, NoRequest
  <2>2. pos = 0 /\ avail = 0 /\ count = 0 /\ pc = "loop" /\ responded = FALSE
    BY DEF ConnInit
  <2>3. 0 <= Len(Tokens)
    BY <1>1
  <2>4. responded \in BOOLEAN
    BY <2>2, Zenon
  <2> QED BY <1>1, <1>3, <2>1, <2>2, <2>3, <2>4 DEF ConnTypes
<1>5. BodyPlaced
  BY <1>2, <1>3 DEF ConnInit, BodyPlaced, Owned, Placed, BodyAt
<1>6. AnswersPlaced
  BY DEF ConnInit, AnswersPlaced, InOrder, OnlyLastCloses, NoneCloses
<1> QED BY <1>4, <1>5, <1>6 DEF ConnInv

(* The environment: nothing the connection has read changes.               *)
LEMMA AroundGoesOn ==
  ASSUME ConnInv, Arrive \/ BeginDrain \/ CloseSock
  PROVE  ConnInv'
<1>1. /\ wire' = wire /\ pos' = pos /\ pc' = pc /\ reader' = reader /\ request' = request
      /\ responded' = responded /\ count' = count /\ answers' = answers
  BY DEF Arrive, BeginDrain, CloseSock
<1>2. avail' \in Nat /\ pos <= avail' /\ avail' <= Len(Tokens)
  <2>1. Len(Tokens) \in Nat
    BY TokensAre DEF ConnInv, ConnTypes
  <2> QED BY <2>1 DEF ConnInv, ConnTypes, Arrive, BeginDrain, CloseSock
<1>3. Tokens' = Tokens
  BY <1>1 DEF Tokens
<1>4. ConnTypes'
  BY <1>1, <1>2, <1>3 DEF ConnInv, ConnTypes
<1>5. BodyPlaced'
  BY <1>1, <1>3 DEF ConnInv, BodyPlaced
<1>6. AnswersPlaced'
  BY <1>1 DEF ConnInv, AnswersPlaced
<1> QED BY <1>4, <1>5, <1>6 DEF ConnInv

(* The top of the loop.                                                    *)
LEMMA ProcessLoopGoesOn ==
  ASSUME ConnInv, ProcessLoop
  PROVE  ConnInv'
<1>1. /\ wire' = wire /\ avail' = avail /\ pos' = pos /\ count' = count /\ answers' = answers
      /\ pc = "loop" /\ pc' \in {"head", "closed"} /\ reader' = NoReader /\ request' = NoRequest
      /\ responded' = FALSE
  BY DEF ProcessLoop, Environment
<1>2. Tokens' = Tokens
  BY <1>1 DEF Tokens
<1>3. IsReader(reader')
  BY <1>1 DEF NoReader, NewReader, IsReader
<1>4. ConnTypes'
  BY <1>1, <1>2, <1>3 DEF ConnInv, ConnTypes, NoRequest
<1>5. BodyPlaced'
  BY <1>1, <1>2 DEF ConnInv, BodyPlaced
<1>6. AnswersPlaced'
  BY <1>1 DEF ConnInv, AnswersPlaced
<1> QED BY <1>4, <1>5, <1>6 DEF ConnInv

(* An answer before there is a request is the last one.                    *)
LEMMA RefuseGoesOn ==
  ASSUME ConnInv, pc = "head", NEW close \in BOOLEAN, Refuse(count + 1, close),
         UNCHANGED <<wire, avail, pos, reader, request, responded, count>>
  PROVE  ConnInv'
<1>1. Tokens' = Tokens /\ pc' = "closed"
  BY DEF Tokens, Refuse
<1>2. /\ answers \in Seq(AnswerSet) /\ InOrder(answers) /\ NoneCloses(answers)
      /\ OnlyLastCloses(answers) /\ Len(answers) = count /\ count \in Nat
  BY DEF ConnInv, ConnTypes, AnswersPlaced, AnswerSet
<1>3. answers' \in Seq(AnswerSet) /\ InOrder(answers') /\ OnlyLastCloses(answers')
  <2>1. CASE answers' = answers
    BY <1>2, <2>1
  <2>2. CASE answers' = Append(answers, [r |-> count + 1, close |-> close])
    <3>1. PICK a : a = [r |-> count + 1, close |-> close]
      OBVIOUS
    <3>2. a \in AnswerSet /\ a.r = Len(answers) + 1
      BY <1>2, <3>1 DEF AnswerSet
    <3> QED BY <1>2, <2>2, <3>1, <3>2, OneMoreAnswer
  <2> QED BY <2>1, <2>2 DEF Refuse
<1>4. ConnTypes'
  BY <1>1, <1>3 DEF ConnInv, ConnTypes, AnswerSet
<1>5. BodyPlaced'
  BY <1>1 DEF ConnInv, BodyPlaced
<1>6. AnswersPlaced'
  BY <1>1, <1>3 DEF AnswersPlaced
<1> QED BY <1>4, <1>5, <1>6 DEF ConnInv

(* Where a body begins is what the head says.                              *)
LEMMA BodyBeginsRight ==
  ASSUME ConnInv, NEW q, q = wire.requests[count + 1], NEW h, h = ReadRequest(q.version, q.lines),
         q.head = "ok", h.ok,
         pos + 2 <= avail, Tokens[pos + 1].at = "head", Tokens[pos + 1].r = count + 1
  PROVE  /\ BodyAt(NewReader(h.framing, h.clen), Tokens, pos + 2)
         /\ IsReader(NewReader(h.framing, h.clen)) /\ ~Failed(NewReader(h.framing, h.clen))
         /\ Owned(Tokens, pos + 2, count + 1)
<1>1. /\ wire \in Scripts /\ pos \in Nat /\ avail \in Nat /\ avail <= Len(Tokens) /\ count \in Nat
      /\ Laid(wire) /\ Len(Tokens) \in Nat
  BY TokensAre DEF ConnInv, ConnTypes
<1>2. /\ pos + 1 \in Nat /\ pos + 1 < Len(Tokens) /\ pos + 1 + 1 = pos + 2
      /\ pos + 1 \in Nat
  BY <1>1
<1>3. Tokens[pos + 2].at = "rest"
  <2>1. Follows(wire, pos + 1) /\ Tokens[pos + 2] = Tokens[pos + 1 + 1]
    BY <1>1, <1>2, FollowsAre
  <2> QED BY <2>1 DEF Follows, Tokens
<1>4. Owned(Tokens, pos + 2, count + 1)
  <2>1. Owned(Tokens, pos + 1, count + 1)
    BY <1>1 DEF Owned
  <2>2. Owned(Tokens, pos + 1 + 1, count + 1)
    BY <1>1, <1>2, <1>3, <2>1, NextOwned
  <2> QED BY <1>2, <2>2
<1>5. PICK x : x = NewReader(h.framing, h.clen)
  OBVIOUS
<1>6. /\ IsReader(x) /\ ~Failed(x) /\ x.framing = h.framing /\ x.remaining = h.clen
      /\ x.chunk_left = 0 /\ x.stage = "idle"
      /\ x.finished <=> (h.framing = "NONE" \/ (h.framing = "CONTENT_LENGTH" /\ h.clen = 0))
  BY <1>5 DEF NewReader, IsReader, Failed
<1>7. /\ h.framing \in {"CHUNKED", "CONTENT_LENGTH", "NONE"}
      /\ h.framing = "CONTENT_LENGTH" => h.clen > 0
  <2>1. PICK p : p = ReqAfter(q.lines)[Len(q.lines)]
    OBVIOUS
  <2>2. h.framing = ReqFraming(p) /\ h.framing # "REFUSED" /\ h.clen = p.clen
    BY <2>1 DEF ReadRequest
  <2> QED BY <2>2 DEF ReqFraming
<1>8. BodyAt(x, Tokens, pos + 2)
  <2>1. CASE pos + 2 < Len(Tokens)
    <3>1. Follows(wire, pos + 1 + 1) /\ Tokens[pos + 1 + 2] = Tokens[pos + 1 + 1 + 1]
      BY <1>1, <1>2, <2>1, FollowsAre
    <3>2. Tokens[pos + 2].r = count + 1
      BY <1>1, <1>4 DEF Owned
    <3>3. BodyBegins(q, Tokens[pos + 2 + 1])
      BY <1>2, <1>3, <3>1, <3>2 DEF Follows, Tokens
    <3>4. PICK y : y = Tokens[pos + 2 + 1]
      OBVIOUS
    <3>5. CASE h.framing = "CHUNKED"
      <4>1. y.at = "size"
        BY <3>3, <3>4, <3>5 DEF BodyBegins
      <4>2. ~x.finished /\ ChunkAt(x, Tokens, pos + 2)
        BY <1>6, <3>4, <3>5, <4>1 DEF ChunkAt
      <4> QED BY <1>6, <3>5, <4>2 DEF BodyAt
    <3>6. CASE h.framing = "CONTENT_LENGTH"
      <4>1. y.at = "data" /\ y.left = h.clen
        BY <1>7, <3>3, <3>4, <3>6 DEF BodyBegins
      <4>2. h.clen # 0
        BY <1>7, <3>6
      <4> QED BY <1>6, <3>4, <3>6, <4>1, <4>2 DEF BodyAt, ClenAt
    <3>7. CASE h.framing = "NONE"
      <4>1. y.at = "head"
        BY <3>3, <3>4, <3>7 DEF BodyBegins
      <4> QED BY <1>6, <3>4, <3>7, <4>1 DEF BodyAt
    <3> QED BY <1>7, <3>5, <3>6, <3>7
  <2>2. CASE ~(pos + 2 < Len(Tokens))
    <3>1. h.framing = "CONTENT_LENGTH" => h.clen # 0
      BY <1>7
    <3>2. ClenAt(x, Tokens, pos + 2) /\ ChunkAt(x, Tokens, pos + 2)
      BY <1>6, <2>2 DEF ClenAt, ChunkAt
    <3>3. x.finished \/ x.framing \in {"CHUNKED", "CONTENT_LENGTH"}
      BY <1>6, <1>7
    <3> QED BY <1>6, <2>2, <3>2, <3>3 DEF BodyAt
  <2> QED BY <2>1, <2>2
<1> QED BY <1>4, <1>5, <1>6, <1>8

(* The head: read, read astray, or not read.                               *)
LEMMA HeadGoesOn ==
  ASSUME ConnInv, ReadHead \/ ReadAstray \/ HeadFails
  PROVE  ConnInv'
<1>1. /\ wire' = wire /\ avail' = avail /\ responded' = responded /\ pc = "head"
      /\ wire \in Scripts /\ pos \in Nat /\ avail \in Nat /\ count \in Nat
      /\ avail <= Len(Tokens) /\ Len(Tokens) \in Nat /\ Owned(Tokens, pos, count)
      /\ Peek(1) = Tokens[pos + 1]
  BY TokensAre
  DEF ReadHead, ReadAstray, HeadFails, Environment, ConnInv, ConnTypes, BodyPlaced, Peek
<1>2. Tokens' = Tokens
  BY <1>1 DEF Tokens
<1>3. ASSUME Buffered >= 1, Peek(1).kind = "h1"
      PROVE  Tokens[pos + 1].at = "head" /\ Tokens[pos + 1].r = count + 1
  <2>1. pos < Len(Tokens)
    BY <1>1, <1>3 DEF Buffered
  <2> QED BY <1>1, <1>3, <2>1, NextHead
<1>4. CASE ReadAstray
  <2>1. /\ pos' = pos /\ reader' = reader /\ request' = request /\ count' = count
        /\ answers' = answers /\ pc' = "astray"
    BY <1>4 DEF ReadAstray
  <2>2. ConnTypes'
    BY <1>1, <1>2, <2>1 DEF ConnInv, ConnTypes
  <2>3. BodyPlaced'
    BY <1>2, <2>1 DEF ConnInv, BodyPlaced
  <2>4. AnswersPlaced'
    BY <2>1 DEF ConnInv, AnswersPlaced
  <2> QED BY <2>2, <2>3, <2>4 DEF ConnInv
<1>5. CASE HeadFails
  <2>1. pos' = pos /\ reader' = reader /\ request' = request /\ count' = count
    BY <1>5 DEF HeadFails
  <2>2. CASE pc' = "closed" /\ UNCHANGED answers
    <3>1. ConnTypes'
      BY <1>1, <1>2, <2>1, <2>2 DEF ConnInv, ConnTypes
    <3>2. BodyPlaced'
      BY <1>2, <2>1, <2>2 DEF ConnInv, BodyPlaced
    <3>3. AnswersPlaced'
      BY <2>1, <2>2 DEF ConnInv, AnswersPlaced
    <3> QED BY <3>1, <3>2, <3>3 DEF ConnInv
  <2>3. CASE Buffered = 1 /\ Peek(1).kind = "h1" /\ Refuse(Peek(1).r, FALSE)
    <3>1. Peek(1).r = count + 1
      BY <1>1, <1>3, <2>3
    <3>2. Refuse(count + 1, FALSE)
      BY <2>3, <3>1
    <3> QED BY <1>1, <2>1, <3>2, RefuseGoesOn
  <2> QED BY <1>5, <2>2, <2>3 DEF HeadFails
<1>6. CASE ReadHead
  <2>1. Buffered >= 2 /\ Peek(1).kind = "h1" /\ pos + 2 <= avail /\ Buffered >= 1
    BY <1>1, <1>6 DEF ReadHead, Buffered
  <2>2. Tokens[pos + 1].at = "head" /\ Tokens[pos + 1].r = count + 1 /\ Peek(1).r = count + 1
    BY <1>1, <1>3, <2>1
  <2>3. PICK q, h : q = wire.requests[count + 1] /\ h = ReadRequest(q.version, q.lines)
    OBVIOUS
  <2>4. \/ /\ \E close \in BOOLEAN : Refuse(count + 1, close)
           /\ UNCHANGED <<pos, reader, request, count>>
        \/ /\ q.head = "ok" /\ h.ok
           /\ pc' = "handler" /\ pos' = pos + 2 /\ count' = count + 1
           /\ request' = [r |-> count + 1, close |-> h.close]
           /\ reader' = NewReader(h.framing, h.clen)
           /\ UNCHANGED answers
    BY <1>6, <2>2, <2>3 DEF ReadHead
  <2>5. CASE /\ \E close \in BOOLEAN : Refuse(count + 1, close)
             /\ UNCHANGED <<pos, reader, request, count>>
    BY <1>1, <2>5, RefuseGoesOn
  <2>6. CASE /\ q.head = "ok" /\ h.ok
             /\ pc' = "handler" /\ pos' = pos + 2 /\ count' = count + 1
             /\ request' = [r |-> count + 1, close |-> h.close]
             /\ reader' = NewReader(h.framing, h.clen)
             /\ UNCHANGED answers
    <3>1. /\ BodyAt(reader', Tokens, pos + 2) /\ IsReader(reader') /\ ~Failed(reader')
          /\ Owned(Tokens, pos + 2, count + 1)
      BY <2>1, <2>2, <2>3, <2>6, BodyBeginsRight
    <3>2. h.close \in BOOLEAN
      BY <2>3 DEF ReadRequest
    <3>3. ConnTypes'
      <4>1. request' \in [r : Nat, close : BOOLEAN]
        BY <1>1, <2>6, <3>2
      <4> QED BY <1>1, <1>2, <2>1, <2>6, <3>1, <4>1 DEF ConnInv, ConnTypes
    <3>4. BodyPlaced'
      BY <1>2, <2>6, <3>1 DEF BodyPlaced, Placed
    <3>5. AnswersPlaced'
      BY <1>1, <2>6 DEF ConnInv, AnswersPlaced
    <3> QED BY <3>3, <3>4, <3>5 DEF ConnInv
  <2> QED BY <2>4, <2>5, <2>6
<1> QED BY <1>4, <1>5, <1>6

(* A step of readChunk, called by the handler or by drain_req_body.        *)
LEMMA BodyGoesOn ==
  ASSUME ConnInv, ReadBody \/ BodyFails
  PROVE  ConnInv'
<1>1. /\ wire' = wire /\ avail' = avail /\ request' = request /\ responded' = responded
      /\ count' = count /\ answers' = answers /\ pc \in {"handler", "drain"}
      /\ pos \in Nat /\ Owned(Tokens, pos, count) /\ Placed(reader, Tokens, pos)
  BY DEF ReadBody, BodyFails, Environment, ConnInv, ConnTypes, BodyPlaced
<1>2. Tokens' = Tokens
  BY <1>1 DEF Tokens
<1>3. PICK s : /\ StaysPlaced(s) /\ reader' = s.rd /\ pos' = pos + s.used
               /\ \/ pc' = pc
                  \/ pc = "drain" /\ pc' = "closed"
                  \/ pc = "drain" /\ pc' = "loop" /\ (Failed(s.rd) \/ s.rd.finished)
  <2>1. CASE ReadBody
    <3>1. PICK s : s = ReadStep(reader)
      OBVIOUS
    <3>2. reader.stage = "idle" \/ Buffered > 0
      BY <2>1 DEF ReadBody
    <3>3. StaysPlaced(s)
      BY <1>1, <3>1, <3>2, ReadStays DEF ConnInv
    <3>4. /\ reader' = s.rd /\ pos' = pos + s.used
          /\ pc' = IF pc = "handler" \/ s.ret \in {"more", "data"} THEN pc
                   ELSE IF Failed(s.rd) THEN "closed" ELSE "loop"
      BY <2>1, <3>1 DEF ReadBody
    <3>5. s.ret \in {"more", "data"} \/ Failed(s.rd) \/ s.rd.finished
      BY <3>3 DEF StaysPlaced
    <3> QED BY <1>1, <3>3, <3>4, <3>5
  <2>2. CASE BodyFails
    <3>1. PICK s : s = FillFailed(reader)
      OBVIOUS
    <3>2. StaysPlaced(s) /\ s.used = 0
      BY <1>1, <3>1, FillFailedStays DEF ConnInv
    <3>3. /\ reader' = s.rd /\ pos' = pos + s.used
          /\ pc' = IF pc = "handler" THEN pc ELSE "closed"
      BY <1>1, <2>2, <3>1, <3>2 DEF BodyFails
    <3> QED BY <1>1, <3>2, <3>3
  <2> QED BY <2>1, <2>2
<1>4. /\ IsReader(reader') /\ pos' \in Nat /\ pos' <= avail'
      /\ Placed(reader', Tokens', pos') /\ Owned(Tokens', pos', count')
  BY <1>1, <1>2, <1>3 DEF StaysPlaced
<1>5. ConnTypes'
  BY <1>1, <1>2, <1>3, <1>4 DEF ConnInv, ConnTypes
<1>6. BodyPlaced'
  BY <1>1, <1>3, <1>4 DEF BodyPlaced
<1>7. AnswersPlaced'
  BY <1>1, <1>3 DEF ConnInv, AnswersPlaced
<1> QED BY <1>5, <1>6, <1>7 DEF ConnInv

(* The first answer of a request comes when all before it are given.       *)
LEMMA RespondGoesOn ==
  ASSUME ConnInv, pc = "handler", ~responded, NEW status, NEW close \in BOOLEAN,
         Respond(status, close), pc' \in {"handler", "closed"},
         UNCHANGED <<wire, avail, pos, reader, count>>
  PROVE  ConnInv'
<1>1. /\ answers \in Seq(AnswerSet) /\ InOrder(answers) /\ NoneCloses(answers)
      /\ OnlyLastCloses(answers) /\ Len(answers) + 1 = count /\ count \in Nat /\ count > 0
      /\ request.r = count /\ request \in [r : Nat, close : BOOLEAN]
      /\ request.close \in BOOLEAN /\ Len(answers) \in Nat
  BY DEF ConnInv, ConnTypes, AnswersPlaced, AnswerSet
<1>2. Tokens' = Tokens
  BY DEF Tokens
<1>3. BodyPlaced'
  BY <1>2 DEF ConnInv, BodyPlaced
<1>4. PICK closing \in BOOLEAN : closing = (close \/ request.close \/ Forced(status))
  OBVIOUS
<1>5. CASE /\ answers' = Append(answers, [r |-> request.r, close |-> closing])
           /\ request' = [request EXCEPT !.close = closing]
           /\ responded' = TRUE
  <2>1. PICK a : a = [r |-> request.r, close |-> closing]
    OBVIOUS
  <2>2. a \in AnswerSet /\ a.r = Len(answers) + 1 /\ a.close = closing
    BY <1>1, <2>1 DEF AnswerSet
  <2>3. /\ answers' \in Seq(AnswerSet) /\ InOrder(answers') /\ OnlyLastCloses(answers')
        /\ Len(answers') = Len(answers) + 1 /\ answers'[Len(answers) + 1] = a
    BY <1>1, <1>5, <2>1, <2>2, OneMoreAnswer
  <2>4. /\ request' \in [r : Nat, close : BOOLEAN] /\ request'.r = count
        /\ request'.close = closing
    BY <1>1, <1>5
  <2>5. responded' \in BOOLEAN
    BY <1>5, Zenon
  <2>6. ConnTypes'
    BY <1>2, <2>3, <2>4, <2>5 DEF ConnInv, ConnTypes, AnswerSet
  <2>7. Len(answers') = count' /\ (answers'[count'].close => request'.close)
    BY <1>1, <2>2, <2>3, <2>4
  <2>8. AnswersPlaced'
    BY <1>1, <1>5, <2>3, <2>4, <2>7 DEF AnswersPlaced
  <2> QED BY <1>3, <2>6, <2>8 DEF ConnInv
<1>6. CASE /\ request' = [request EXCEPT !.close = TRUE]
           /\ UNCHANGED <<answers, responded>>
  <2>1. request' \in [r : Nat, close : BOOLEAN] /\ request'.r = count
    BY <1>1, <1>6
  <2>2. ConnTypes'
    BY <1>2, <1>6, <2>1 DEF ConnInv, ConnTypes
  <2>3. AnswersPlaced'
    BY <1>1, <1>6, <2>1 DEF ConnInv, AnswersPlaced
  <2> QED BY <1>3, <2>2, <2>3 DEF ConnInv
<1> QED BY <1>4, <1>5, <1>6 DEF Respond

(* The handler answers, breaks off, or returns.                            *)
LEMMA HandlerGoesOn ==
  ASSUME ConnInv, Reply \/ StreamBreaks \/ HandlerReturns
  PROVE  ConnInv'
<1>1. /\ wire' = wire /\ avail' = avail /\ pos' = pos /\ reader' = reader /\ count' = count
      /\ pc = "handler"
  BY DEF Reply, StreamBreaks, HandlerReturns, Environment, InHandler
<1>2. Tokens' = Tokens
  BY <1>1 DEF Tokens
<1>3. CASE Reply
  <2>1. PICK status \in {200, 400}, close \in BOOLEAN : Respond(status, close)
    BY <1>3 DEF Reply
  <2>2. ~responded /\ pc' = pc
    BY <1>3 DEF Reply, Open
  <2> QED BY <1>1, <2>1, <2>2, RespondGoesOn
<1>4. CASE StreamBreaks
  <2>1. /\ request' = [request EXCEPT !.close = TRUE] /\ responded /\ responded' = responded
        /\ pc' = pc /\ answers' = answers
    BY <1>4 DEF StreamBreaks
  <2>2. request' \in [r : Nat, close : BOOLEAN] /\ request'.r = request.r /\ request'.close
    BY <2>1 DEF ConnInv, ConnTypes
  <2>3. ConnTypes'
    BY <1>1, <1>2, <2>1, <2>2 DEF ConnInv, ConnTypes
  <2>4. BodyPlaced'
    BY <1>1, <1>2, <2>1 DEF ConnInv, BodyPlaced
  <2>5. AnswersPlaced'
    BY <1>1, <2>1, <2>2 DEF ConnInv, AnswersPlaced
  <2> QED BY <2>3, <2>4, <2>5 DEF ConnInv
<1>5. CASE HandlerReturns /\ responded
  <2>1. /\ pc' = IF request.close \/ connDraining THEN "closed"
                 ELSE IF reader.finished THEN "loop" ELSE "drain"
        /\ request' = request /\ responded' = responded /\ answers' = answers
    BY <1>5 DEF HandlerReturns
  <2>2. ConnTypes'
    BY <1>1, <1>2, <2>1 DEF ConnInv, ConnTypes
  <2>3. BodyPlaced'
    BY <1>1, <1>2, <2>1 DEF ConnInv, BodyPlaced
  <2>4. /\ answers \in Seq(AnswerSet) /\ OnlyLastCloses(answers) /\ Len(answers) = count
        /\ answers[count].close => request.close
    BY <1>1, <1>5 DEF ConnInv, ConnTypes, AnswersPlaced, AnswerSet
  <2>5. pc' \in {"loop", "drain"} => NoneCloses(answers)
    <3> HAVE pc' \in {"loop", "drain"}
    <3>1. ~request.close
      BY <2>1
    <3> QED BY <2>4, <3>1, AllKeep
  <2>6. AnswersPlaced'
    BY <1>1, <2>1, <2>4, <2>5 DEF ConnInv, AnswersPlaced
  <2> QED BY <2>2, <2>3, <2>6 DEF ConnInv
<1>6. CASE HandlerReturns /\ ~responded
  <2>1. pc' = "closed"
    BY <1>6 DEF HandlerReturns
  <2>2. CASE Respond(500, TRUE)
    BY <1>1, <1>6, <2>1, <2>2, RespondGoesOn
  <2>3. CASE UNCHANGED <<request, responded, answers>>
    <3>1. ConnTypes'
      BY <1>1, <1>2, <2>1, <2>3 DEF ConnInv, ConnTypes
    <3>2. BodyPlaced'
      BY <1>1, <1>2, <2>1 DEF ConnInv, BodyPlaced
    <3>3. AnswersPlaced'
      BY <1>1, <2>1, <2>3 DEF ConnInv, AnswersPlaced
    <3> QED BY <3>1, <3>2, <3>3 DEF ConnInv
  <2> QED BY <1>6, <2>2, <2>3 DEF HandlerReturns
<1> QED BY <1>3, <1>4, <1>5, <1>6

(* Every step keeps the invariant.                                         *)
LEMMA ConnGoesOn == ConnInv /\ [ConnNext]_connVars => ConnInv'
<1> SUFFICES ASSUME ConnInv, [ConnNext]_connVars PROVE ConnInv'
  OBVIOUS
<1>1. CASE UNCHANGED connVars
  <2>1. Tokens' = Tokens
    BY <1>1 DEF connVars, Tokens
  <2>2. ConnTypes'
    BY <1>1, <2>1 DEF connVars, ConnInv, ConnTypes
  <2>3. BodyPlaced'
    BY <1>1, <2>1 DEF connVars, ConnInv, BodyPlaced
  <2>4. AnswersPlaced'
    BY <1>1 DEF connVars, ConnInv, AnswersPlaced
  <2> QED BY <2>2, <2>3, <2>4 DEF ConnInv
<1> QED BY <1>1, AroundGoesOn, ProcessLoopGoesOn, HeadGoesOn, BodyGoesOn, HandlerGoesOn
        DEF ConnNext, ConnStep

(* The connection keeps its types: the body reader never takes more from   *)
(* the buffer than there is, whatever the client sends and however it      *)
(* arrives.                                                                *)
THEOREM ConnTypesSafe == ConnSpec => []ConnTypes
BY ConnStarts, ConnGoesOn, PTL DEF ConnSpec, ConnInv

(* For any script of requests, any limits and any cut of the bytes: the    *)
(* process loop comes back to read the next head only at the first byte of *)
(* a request, unless the reader of the body reports an error.              *)
THEOREM BoundarySafe == ConnSpec => []BoundaryKept
<1>1. ConnInv => BoundaryKept
  <2> SUFFICES ASSUME ConnInv, pc = "loop", ~Failed(reader) PROVE AtBoundary
    BY DEF BoundaryKept
  <2>1. /\ pos \in Nat /\ avail \in Nat /\ pos <= avail /\ avail <= Len(Tokens)
        /\ Len(Tokens) \in Nat /\ Laid(wire)
    BY TokensAre DEF ConnInv, ConnTypes
  <2>2. pos < Len(Tokens) => Tokens[pos + 1].at = "head"
    BY DEF ConnInv, BodyPlaced, Placed, BodyAt
  <2>3. CASE pos < Len(Tokens)
    <3>1. pos + 1 \in 1..Len(Tokens)
      BY <2>1, <2>3
    <3>2. Tokens[pos + 1].kind = "h1"
      BY <2>1, <2>2, <2>3, <3>1 DEF Laid, Tokens
    <3> QED BY <3>2 DEF AtBoundary, Peek
  <2>4. CASE ~(pos < Len(Tokens))
    <3>1. pos = Len(Tokens)
      BY <2>1, <2>4
    <3> QED BY <3>1 DEF AtBoundary
  <2> QED BY <2>3, <2>4
<1> QED BY <1>1, ConnStarts, ConnGoesOn, PTL DEF ConnSpec

(* For any script: one answer for each request at most, in order, the      *)
(* connection is reused only when all are answered and nothing follows an  *)
(* announced close.                                                        *)
THEOREM AnswersSafe == ConnSpec => []AnswersInOrder
<1>1. ConnInv => AnswersInOrder
  BY DEF ConnInv, AnswersPlaced, AnswersInOrder, InOrder, OnlyLastCloses
<1> QED BY <1>1, ConnStarts, ConnGoesOn, PTL DEF ConnSpec
=============================================================================
