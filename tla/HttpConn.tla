------------------------------ MODULE HttpConn ------------------------------
(***************************************************************************)
(* One client connection of the gateway: GatewayConnection::process        *)
(* (conn.cpp) with its input buffer (buf.cpp), the reader of the request   *)
(* body (body.cpp) and what handlers call on it (mw.cpp, proxy.cpp).       *)
(*                                                                         *)
(* The client's bytes are tokens that name the request they belong to and  *)
(* what they look like: "h1" "h2" the two halves of a head, "data" a unit  *)
(* of body, "size" a chunk-size line, "line" any other line and "crlf" an  *)
(* empty one. Requests may be pipelined; any number of tokens arrives at a *)
(* time.                                                                   *)
(* One coroutine owns the connection, so a step runs up to the next recv,  *)
(* send or call of the handler.                                            *)
(***************************************************************************)
EXTENDS HttpHead

CONSTANTS
  Scripts,       \* what a client may send: requests and their tokens
  MaxBody,       \* opts.maxBodySize
  MaxRequests,   \* opts.maxKeepAliveRequests
  MaxTrailers    \* kMaxTrailerLines

VARIABLES
  wire,       \* what the client sends
  pos,        \* tokens taken from the buffer
  avail,      \* tokens received: the buffer is pos+1 .. avail
  connDraining,   \* m_server->isDraining()
  connShut,   \* the socket was closed under the connection
  pc,
  reader,     \* m_bodyReader
  request,    \* m_request and the framing read from its head
  responded, writeFailed,   \* m_responded, m_writeFailed
  count,      \* m_req_count
  answers,    \* final responses the client got: the request, and whether it said close
  misread     \* a head was looked for where no request begins

connVars == <<wire, pos, avail, connDraining, connShut, pc, reader, request, responded, writeFailed,
              count, answers, misread>>

----------------------------------------------------------------------------
(* Tokens on the wire. A token knows where it stands in its request, by    *)
(* the framing that the head gives: "head" "rest", "data" in a body of     *)
(* known length, "size" "chunk" "eol" "trailer" in a chunked one, "junk"   *)
(* behind the first token that breaks these rules. left counts the data    *)
(* that is left, this token included. The connection sees neither.         *)

TokenSet ==
  [r : Nat, kind : {"h1", "h2", "data", "size", "line", "crlf"}, n : Nat,
   at : {"head", "rest", "data", "size", "chunk", "eol", "trailer", "junk"}, left : Nat]

\* The data that begins at token i is of one request and next is behind it.
Run(t, i, next) ==
  LET k == t[i].left
  IN /\ k > 0
     /\ \A j \in 0..(k - 1) :
          i + j <= Len(t) => /\ t[i + j].at = t[i].at /\ t[i + j].left = k - j
                             /\ t[i + j].r = t[i].r
     /\ i + k <= Len(t) => t[i + k].at = next

\* What the head of q says of the token y behind it.
BodyBegins(q, y) ==
  LET h == ReadRequest(q.version, q.lines)
  IN q.head = "ok" /\ h.ok =>
       CASE h.framing = "CHUNKED" -> y.at = "size"
         [] h.framing = "CONTENT_LENGTH" /\ h.clen > 0 -> y.at = "data" /\ y.left = h.clen
         [] OTHER -> y.at = "head"

\* Token i + 1 stands where token i says.
Follows(s, i) ==
  LET x == s.tokens[i]
      y == s.tokens[i + 1]
  IN /\ x.at = "head" => y.at = "rest"
     /\ x.at = "rest" => BodyBegins(s.requests[x.r], y)
     /\ x.at = "size" /\ x.kind = "size" =>
          IF x.n = 0 THEN y.at = "trailer" ELSE y.at = "chunk" /\ y.left = x.n
     /\ x.at = "eol" /\ x.kind = "crlf" => y.at = "size"
     /\ x.at = "trailer" => y.at = IF x.kind = "crlf" THEN "head" ELSE "trailer"

\* Requests follow each other, and the tokens of each stand where its head
\* says. The client may stop anywhere.
Laid(s) ==
  LET t == s.tokens
  IN /\ t \in Seq(TokenSet)
     /\ \A i \in 1..Len(t) :
          /\ t[i].r \in DOMAIN s.requests
          /\ t[i].kind = "h1" <=> t[i].at = "head"
          /\ i = 1 => t[i].at = "head" /\ t[i].r = 1
          /\ i > 1 => t[i].r = IF t[i].at = "head" THEN t[i - 1].r + 1 ELSE t[i - 1].r
          /\ t[i].at = "data" => Run(t, i, "head")
          /\ t[i].at = "chunk" => Run(t, i, "eol")
          /\ i < Len(t) => Follows(s, i)

ASSUME ConnAssumption ==
  /\ \A s \in Scripts : Laid(s)
  /\ MaxBody \in Nat /\ MaxRequests \in Nat /\ MaxTrailers \in Nat

Tokens == wire.tokens
Buffered == avail - pos
Peek(i) == Tokens[pos + i]

----------------------------------------------------------------------------
(* BodyReader.                                                             *)

\* BodyReader::BodyReader; stage says where inside readChunk it waits.
NewReader(framing, clen) ==
  [framing |-> framing, remaining |-> clen, chunk_left |-> 0, total |-> 0, trailers |-> 0,
   finished |-> framing = "NONE" \/ (framing = "CONTENT_LENGTH" /\ clen = 0),
   error |-> "NONE", stage |-> "idle"]

NoReader == NewReader("NONE", 0)

\* BodyReader::setError keeps the first error.
SetError(rd, code) == [rd EXCEPT !.error = IF @ = "NONE" THEN code ELSE @]

Failed(rd) == rd.error # "NONE"

\* What a step inside readChunk leaves: the reader, the tokens it used and
\* whether the call goes on, hands out data, ends or fails.
Result(rd, used, ret) ==
  [rd |-> [rd EXCEPT !.stage = IF ret = "more" THEN @ ELSE "idle"], used |-> used, ret |-> ret]

Give(rd, used) == Result(rd, used, "data")
FinishBody(rd, used) == Result([rd EXCEPT !.finished = TRUE], used, "end")
Break(rd, code, used) == Result([SetError(rd, code) EXCEPT !.finished = TRUE], used, "fail")
Spoil(rd, code, used) == Result(SetError(rd, code), used, "fail")
EnterStage(rd, stage, used) == Result([rd EXCEPT !.stage = stage], used, "more")

\* BodyReader::accountBytes
Fits(rd, n) == n <= MaxBody /\ rd.total <= MaxBody - n
Account(rd, n) == [rd EXCEPT !.total = @ + n]

\* The entry of BodyReader::readChunk.
Begin(rd) ==
  IF rd.finished THEN Result(rd, 0, "end")
  ELSE IF Failed(rd) THEN Result(rd, 0, "fail")
  ELSE EnterStage(rd, IF rd.framing = "CONTENT_LENGTH" THEN "clen"
                      ELSE IF rd.chunk_left = 0 THEN "size" ELSE "chunk", 0)

\* read_clen with something in the buffer.
ReadClen(rd) ==
  LET take == IF Buffered > rd.remaining THEN rd.remaining ELSE Buffered
      left == rd.remaining - take
  IN IF ~Fits(rd, take) THEN Break(rd, "TOO_LARGE", 0)
     ELSE Give([Account(rd, take) EXCEPT !.remaining = left, !.finished = left = 0], take)

\* readChunked: the length line.  A line that is no number leaves the reader
\* unfinished.  (Lines of more than 8192 bytes are not sent here.)
ReadSize(rd) ==
  LET n == Peek(1).n
  IN IF Peek(1).kind # "size" THEN Spoil(rd, "MALFORMED", 1)
     ELSE IF n = 0 THEN EnterStage(rd, "trailer", 1)
     ELSE IF ~Fits(rd, n) THEN Break(rd, "TOO_LARGE", 1)
     ELSE EnterStage([Account(rd, n) EXCEPT !.chunk_left = n], "chunk", 1)

\* A slip: the first line behind the last chunk is taken for the end.
ReadTrailerOnce(rd) == FinishBody(rd, 1)

\* The lines behind the last chunk, up to an empty one.
ReadTrailer(rd) ==
  IF Peek(1).kind = "crlf" THEN FinishBody(rd, 1)
  ELSE IF rd.trailers + 1 > MaxTrailers THEN Break(rd, "MALFORMED", 1)
  ELSE EnterStage([rd EXCEPT !.trailers = @ + 1], "trailer", 1)

\* Chunk data, as much of it as there is.
ReadData(rd) ==
  LET take == IF Buffered > rd.chunk_left THEN rd.chunk_left ELSE Buffered
      left == [rd EXCEPT !.chunk_left = @ - take]
  IN IF left.chunk_left = 0 THEN EnterStage(left, "crlf", take) ELSE Give(left, take)

\* The line end behind a chunk: it is looked at before it is consumed.
ReadCrlf(rd) ==
  IF Peek(1).kind = "crlf" THEN Give(rd, 1) ELSE Break(rd, "MALFORMED", 0)

\* fill returned 0 or less: the client is gone, too slow, or the socket was
\* closed.  A trailer that breaks off ends the body and sets the error.
FillFailed(rd) ==
  IF rd.stage = "trailer" THEN FinishBody(SetError(rd, "IO"), 0) ELSE Break(rd, "IO", 0)

ReadStep(rd) ==
  CASE rd.stage = "idle" -> Begin(rd)
    [] rd.stage = "clen" -> ReadClen(rd)
    [] rd.stage = "size" -> ReadSize(rd)
    [] rd.stage = "trailer" -> ReadTrailer(rd)
    [] rd.stage = "chunk" -> ReadData(rd)
    [] rd.stage = "crlf" -> ReadCrlf(rd)

----------------------------------------------------------------------------
(* Responses.                                                              *)

\* force_body_err: an answer below 400 becomes 400 or 413 and closes.
Forced(status) == Failed(reader) /\ status < 400

\* sendResponse, sendResponseHeadRaw: close is the request's wish, or the
\* caller's.  A send that fails closes too and leaves m_responded alone.
Respond(status, close) ==
  LET closing == close \/ request.close \/ Forced(status)
  IN \/ /\ ~connShut
        /\ answers' = Append(answers, [r |-> request.r, close |-> closing])
        /\ request' = [request EXCEPT !.close = closing]
        /\ responded' = TRUE
        /\ UNCHANGED writeFailed
     \/ /\ request' = [request EXCEPT !.close = TRUE]
        /\ writeFailed' = TRUE
        /\ UNCHANGED <<answers, responded>>

----------------------------------------------------------------------------
(* The client and the server around the connection.                        *)

NoRequest == [r |-> 0, close |-> FALSE]

ConnInit ==
  /\ wire \in Scripts
  /\ pos = 0 /\ avail = 0 /\ count = 0
  /\ connDraining = FALSE /\ connShut = FALSE
  /\ pc = "loop" /\ reader = NoReader /\ request = NoRequest
  /\ responded = FALSE /\ writeFailed = FALSE
  /\ answers = <<>> /\ misread = FALSE

\* Bytes arrive in pieces of any size.
Arrive ==
  /\ ~connShut /\ avail < Len(Tokens)
  /\ avail' \in (avail + 1)..Len(Tokens)
  /\ UNCHANGED <<wire, pos, connDraining, connShut, pc, reader, request, responded, writeFailed,
                 count, answers, misread>>

\* BxTcpServer::drain: the flag first, then every socket is closed.
BeginDrain ==
  /\ ~connDraining /\ connDraining' = TRUE
  /\ UNCHANGED <<wire, pos, avail, connShut, pc, reader, request, responded, writeFailed,
                 count, answers, misread>>

CloseSock ==
  /\ connDraining /\ ~connShut /\ pc # "closed" /\ connShut' = TRUE
  /\ UNCHANGED <<wire, pos, avail, connDraining, pc, reader, request, responded, writeFailed,
                 count, answers, misread>>

----------------------------------------------------------------------------
(* GatewayConnection::process                                              *)

Environment == <<wire, avail, connDraining, connShut>>

\* A slip: the flag of the last answer is kept.
ProcessLoopKeeps ==
  /\ pc = "loop"
  /\ pc' = IF connDraining \/ count >= MaxRequests THEN "closed" ELSE "head"
  /\ request' = NoRequest /\ reader' = NoReader /\ writeFailed' = FALSE
  /\ UNCHANGED <<Environment, pos, responded, count, answers, misread>>

\* The top of the loop, with the resets before read_req_head.
ProcessLoop ==
  /\ pc = "loop"
  /\ pc' = IF connDraining \/ count >= MaxRequests THEN "closed" ELSE "head"
  /\ request' = NoRequest /\ reader' = NoReader
  /\ responded' = FALSE /\ writeFailed' = FALSE
  /\ UNCHANGED <<Environment, pos, count, answers, misread>>

\* sendError in read_req_head. While m_request is not set nothing asks for a
\* close, so the answer says keep-alive; the connection ends all the same.
Refuse(r, close) ==
  /\ pc' = "closed"
  /\ \/ ~connShut /\ answers' = Append(answers, [r |-> r, close |-> close])
     \/ UNCHANGED answers

\* The whole head has arrived: parse it, set m_request, decide on the framing,
\* make the reader and hand over to the handler.
ReadHead ==
  /\ pc = "head" /\ Buffered >= 2 /\ Peek(1).kind = "h1"
  /\ LET r == Peek(1).r
         q == wire.requests[r]
         h == ReadRequest(q.version, q.lines)
         large == h.framing = "CONTENT_LENGTH" /\ h.clen > MaxBody
     IN \/ /\ q.head # "ok" \/ ~h.parsed
           /\ Refuse(r, FALSE)
           /\ UNCHANGED <<pos, reader, request, count>>
        \/ /\ q.head = "ok" /\ h.parsed /\ (~h.ok \/ large)
           /\ Refuse(r, TRUE)
           /\ UNCHANGED <<pos, reader, request, count>>
        \/ /\ q.head = "ok" /\ h.ok /\ ~large
           /\ pc' = "handler" /\ pos' = pos + 2 /\ count' = count + 1
           /\ request' = [r |-> r, close |-> h.close]
           /\ reader' = NewReader(h.framing, h.clen)
           /\ UNCHANGED answers
  /\ UNCHANGED <<Environment, responded, writeFailed, misread>>

\* The buffer begins inside a body and its bytes are taken for a head.  What
\* they would be read as is not followed further.
ReadAstray ==
  /\ pc = "head" /\ Buffered >= 1 /\ Peek(1).kind # "h1"
  /\ pc' = "astray" /\ misread' = TRUE
  /\ UNCHANGED <<Environment, pos, reader, request, responded, writeFailed, count, answers>>

\* fillInput failed: the client closed, was silent for too long, or the
\* socket was closed.  Half a head is answered only when the client closed.
HeadFails ==
  /\ pc = "head"
  /\ \/ Buffered = 0 /\ pc' = "closed" /\ UNCHANGED answers
     \/ Buffered = 1 /\ Peek(1).kind = "h1" /\ Refuse(Peek(1).r, FALSE)
  /\ UNCHANGED <<Environment, pos, reader, request, responded, writeFailed, count, misread>>

----------------------------------------------------------------------------
(* The handler: middlewares and proxy, by what they call.                  *)

InHandler == pc = "handler"
Open == ~responded /\ ~writeFailed

\* requestBody()->readChunk: up to the next recv, or to the return.
ReadBody ==
  /\ pc \in {"handler", "drain"}
  /\ reader.stage = "idle" \/ Buffered > 0
  /\ LET s == ReadStep(reader)
     IN /\ reader' = s.rd
        /\ pos' = pos + s.used
        /\ pc' = IF pc = "handler" \/ s.ret \in {"more", "data"} THEN pc
                 ELSE IF Failed(s.rd) THEN "closed" ELSE "loop"
  /\ UNCHANGED <<Environment, request, responded, writeFailed, count, answers, misread>>

BodyFails ==
  /\ pc \in {"handler", "drain"}
  /\ reader.stage # "idle" /\ Buffered = 0
  /\ reader' = FillFailed(reader).rd
  /\ pc' = IF pc = "handler" THEN pc ELSE "closed"
  /\ UNCHANGED <<Environment, pos, request, responded, writeFailed, count, answers, misread>>

\* reply: a complete answer, closing when the middleware asks for it.
\* Upstream::forward answers a broken body with 400 or 413 this way.
Reply ==
  /\ InHandler /\ Open /\ reader.stage = "idle"
  /\ \E status \in {200, 400}, close \in BOOLEAN : Respond(status, close)
  /\ UNCHANGED <<Environment, pos, pc, reader, count, misread>>

\* A streamed answer whose body breaks off: writeFail closes the connection.
StreamBreaks ==
  /\ InHandler /\ responded /\ ~writeFailed
  /\ writeFailed' = TRUE
  /\ request' = [request EXCEPT !.close = TRUE]
  /\ UNCHANGED <<Environment, pos, pc, reader, responded, count, answers, misread>>

\* The handler comes back; answer a broken body or a missing answer, and
\* decide whether the connection goes on.
HandlerReturns ==
  /\ InHandler /\ reader.stage = "idle"
  /\ IF responded
     THEN /\ pc' = IF request.close \/ connDraining THEN "closed"
                   ELSE IF reader.finished THEN "loop" ELSE "drain"
          /\ UNCHANGED <<request, responded, writeFailed, answers>>
     ELSE /\ pc' = "closed"
          /\ IF writeFailed /\ ~Failed(reader)
             THEN UNCHANGED <<request, responded, writeFailed, answers>>
             ELSE Respond(500, TRUE)
  /\ UNCHANGED <<Environment, pos, reader, count, misread>>

ConnStep == ProcessLoop \/ ReadHead \/ ReadAstray \/ HeadFails \/ ReadBody \/ BodyFails
              \/ Reply \/ StreamBreaks \/ HandlerReturns

ConnNext == Arrive \/ BeginDrain \/ CloseSock \/ ConnStep

ConnSpec == ConnInit /\ [][ConnNext]_connVars

----------------------------------------------------------------------------
(* Properties.                                                             *)

AtBoundary == pos = Len(Tokens) \/ Peek(1).kind = "h1"

\* A head is only ever looked for where a request begins: the comment of
\* drain_req_body (conn.cpp:268) says that what the handler left of a body is
\* read away before the connection is used again, and process (conn.cpp:140)
\* that it closes when this fails.
HeadsAtBoundary == ~misread

\* A body whose reader reports no error is read to its exact end before the
\* next head, however its pieces arrive, however much of it the handler has
\* read and whether the rest is read by the handler or by drain_req_body.
BoundaryKept == pc = "loop" /\ ~misread /\ ~Failed(reader) => AtBoundary

\* Every request is answered at most once and in the order of the requests,
\* the connection goes on only when all so far are answered, and the
\* answer that announced the close of the connection is the last one.
AnswersInOrder ==
  /\ \A i \in DOMAIN answers : answers[i].r = i
  /\ \A i \in 1..(Len(answers) - 1) : ~answers[i].close
  /\ pc \in {"loop", "head"} => Len(answers) = count
=============================================================================
