--------------------------- MODULE ResponseParser ---------------------------
(***************************************************************************)
(* The automaton that reads an upstream's response head:                   *)
(* httpclient_parser.cpp, generated from httpclient_parser.rl.  States,    *)
(* byte classes and edges are represented as in RequestParser.             *)
(*                                                                         *)
(* The grammar tries three known headers beside the general one.  Their    *)
(* names are followed by space*, and space holds the line feed: after an   *)
(* empty value the automaton therefore goes on in both readings, the next  *)
(* header line and the continued value, until a byte decides.              *)
(***************************************************************************)
EXTENDS Integers, Sequences, SequencesExt

----------------------------------------------------------------------------
(* Byte classes: a letter stands for both its cases unless the other case  *)
(* is named too, "0" for every digit, "WS" for HT, VT and FF, "tok" for    *)
(* the token bytes no state names, "other" for the remaining bytes.        *)

Digit == {"0"}
XDigit == Digit \cup {"A", "B", "C", "D", "E", "F"}
Letter == XDigit \cup {"G", "H", "h", "I", "K", "L", "N", "O", "P", "p", "R", "S", "T", "t", "U"}
Token == Letter \cup {"tok", "-", "."}
Blank == {"WS", "SP"}
Space == Blank \cup {"LF", "CR"}
Byte == Token \cup Space \cup {"/", ":", ";", "=", "other"}

\* The classes of a letter of a case-insensitive keyword.
Either(x) == CASE x = "H" -> {"H", "h"} [] x = "T" -> {"T", "t"} [] OTHER -> {x}

Go(q) == [acts |-> <<>>, to |-> q]
Do(acts, q) == [acts |-> acts, to |-> q]

Err == <<"err", "", 0>>
Finished == <<"head", "finished", 0>>
Stop == Go(Err)

First == <<"line", "start", 0>>
LineQ == <<"head", "line", 0>>
NameQ == <<"head", "name", 0>>
LwsQ == <<"head", "lws", 0>>
ValueQ == <<"head", "value", 0>>
CrQ == <<"head", "cr", 0>>
LastCrQ == <<"head", "lastcr", 0>>

----------------------------------------------------------------------------
(* The status line, and the chunk header the same machine can read.        *)

Start(c) ==
  CASE c \in XDigit -> Do(<<"mark">>, <<"chunk", "size", 0>>)
    [] c = "H" -> Do(<<"mark">>, <<"line", "http", 1>>)
    [] OTHER -> Stop

ChunkSize(c) ==
  CASE c \in XDigit -> Go(<<"chunk", "size", 0>>)
    [] c = "LF" -> Do(<<"chunk_size", "done">>, Finished)
    [] c = "CR" -> Do(<<"chunk_size">>, LastCrQ)
    [] c = ";" -> Do(<<"chunk_size">>, <<"chunk", "ext", 0>>)
    [] OTHER -> Stop

LastCr(c) == IF c = "LF" THEN Do(<<"done">>, Finished) ELSE Stop

ChunkExt(c) == IF c \in Token THEN Do(<<"start_field">>, <<"chunk", "name", 0>>) ELSE Stop

\* The end of an extension; acts is what it still has to report.
ExtEnd(acts, c) ==
  CASE c = "LF" -> Do(Append(acts, "done"), Finished)
    [] c = "CR" -> Do(acts, LastCrQ)
    [] c = ";" -> Do(acts, <<"chunk", "ext", 0>>)
    [] OTHER -> Stop

ChunkName(c) ==
  CASE c \in Token -> Go(<<"chunk", "name", 0>>)
    [] c = "=" -> Do(<<"write_field", "start_value">>, <<"chunk", "equals", 0>>)
    [] OTHER -> ExtEnd(<<"write_field", "start_value", "write_value">>, c)

ChunkEquals(c) == IF c \in Token THEN Do(<<"start_value">>, <<"chunk", "value", 0>>) ELSE Stop

ChunkValue(c) ==
  IF c \in Token THEN Go(<<"chunk", "value", 0>>) ELSE ExtEnd(<<"write_value">>, c)

HttpVersion(k, c) ==
  CASE k < 5 /\ c = <<"H", "T", "T", "P", "/">>[k + 1] -> Go(<<"line", "http", k + 1>>)
    [] k \in {5, 6} /\ c \in Digit -> Go(<<"line", "http", 6>>)
    [] k = 6 /\ c = "." -> Go(<<"line", "http", 7>>)
    [] k \in {7, 8} /\ c \in Digit -> Go(<<"line", "http", 8>>)
    [] k = 8 /\ c = "SP" -> Do(<<"http_version">>, <<"line", "code", 0>>)
    [] OTHER -> Stop

StatusCode(k, c) ==
  CASE k = 0 /\ c \in Digit -> Do(<<"mark">>, <<"line", "code", 1>>)
    [] k = 1 /\ c \in Digit -> Go(<<"line", "code", 1>>)
    [] k = 1 /\ c = "SP" -> Do(<<"status_code">>, <<"line", "reason", 0>>)
    [] OTHER -> Stop

\* The first byte of the reason may be a carriage return, not a line feed.
ReasonPhrase(k, c) ==
  CASE k = 0 /\ c # "LF" -> Do(<<"mark">>, <<"line", "reason", 1>>)
    [] k = 1 /\ c = "LF" -> Do(<<"reason_phrase">>, LineQ)
    [] k = 1 /\ c = "CR" -> Do(<<"reason_phrase">>, CrQ)
    [] k = 1 -> Go(<<"line", "reason", 1>>)
    [] OTHER -> Stop

----------------------------------------------------------------------------
(* Header lines.                                                           *)

\* A first byte of a name; pre is what the line before still has to do.
NameStart(pre, c) ==
  CASE c = "C" -> Do(Append(pre, "start_field"), <<"name", "C", 1>>)
    [] c \in Either("T") -> Do(Append(pre, "start_field"), <<"name", "te", 1>>)
    [] c \in Token -> Do(Append(pre, "start_field"), NameQ)
    [] OTHER -> Stop

\* The start of a line after a line that has nothing left open.
LineStart(pre, c) ==
  CASE c = "LF" -> Do(Append(pre, "done"), Finished)
    [] c = "CR" -> Do(pre, LastCrQ)
    [] OTHER -> NameStart(pre, c)

FieldName(c) ==
  CASE c = ":" -> Do(<<"write_field">>, LwsQ)
    [] c \in Token -> Go(NameQ)
    [] OTHER -> Stop

\* The end of a line whose value has been read up to here.
ValueEnd(pre, c) ==
  CASE c = "LF" -> Do(Append(pre, "write_value"), LineQ)
    [] OTHER -> Do(Append(pre, "write_value"), CrQ)

FieldLws(c) ==
  CASE c \in {"LF", "CR"} -> ValueEnd(<<"start_value">>, c)
    [] c \in Blank -> Do(<<"start_value">>, LwsQ)
    [] OTHER -> Do(<<"start_value">>, ValueQ)

FieldValue(c) == IF c \in {"LF", "CR"} THEN ValueEnd(<<>>, c) ELSE Go(ValueQ)

Cr(c) == IF c = "LF" THEN Go(LineQ) ELSE Stop

----------------------------------------------------------------------------
(* The three known names; k letters have been matched.                     *)

Connection == <<"C", "O", "N", "N", "E", "C", "T", "I", "O", "N">>
TransferEncoding == <<"T", "R", "A", "N", "S", "F", "E", "R", "-",
                      "E", "N", "C", "O", "D", "I", "N", "G">>
ContentLength == <<"C", "O", "N", "T", "E", "N", "T", "-", "L", "E", "N", "G", "T", "H">>

\* A complete name opens the value states of header h, any other token byte
\* falls back to the general name.
Keyword(word, h, k, c) ==
  CASE k < Len(word) /\ c \in Either(word[k + 1]) -> Go(<<"name", h, k + 1>>)
    [] k = Len(word) /\ c = ":" -> Do(<<"write_field">>, <<h, "lws", 0>>)
    [] OTHER -> FieldName(c)

\* The third letter leaves Connection and Content-Length undecided.
NameOfConnection(h, k, c) ==
  CASE h = "C" /\ k = 3 /\ c \in Either("N") -> Go(<<"name", "conn", 4>>)
    [] h = "C" /\ k = 3 /\ c \in Either("T") -> Go(<<"name", "cl", 4>>)
    [] h = "C" /\ k = 3 -> FieldName(c)
    [] OTHER -> Keyword(Connection, h, k, c)
NameOfTransferEncoding(k, c) == Keyword(TransferEncoding, "te", k, c)
NameOfContentLength(k, c) == Keyword(ContentLength, "cl", k, c)

----------------------------------------------------------------------------
(* Connection: close and Transfer-Encoding: chunked (h "conn" and "te").   *)

Word(h) == IF h = "conn" THEN <<"C", "L", "O", "S", "E">>
           ELSE <<"C", "H", "U", "N", "K", "E", "D">>
\* What the first byte of a continued word does.
WordActs(h) == IF h = "conn" THEN <<>> ELSE <<"start_value">>
ClosedQ == <<"conn", "closed", 0>>

\* The end of the line behind a complete word.  In the continued reading of
\* Connection the value is not written.
WordEnd(h, written, c) ==
  LET acts == IF h = "te" \/ written THEN <<"write_value">> ELSE <<>>
  IN CASE h = "conn" /\ c = "LF" -> Do(acts, ClosedQ)
       [] h = "conn" /\ c = "CR" -> Do(acts, <<"conn", "crclosed", 0>>)
       [] h = "te" /\ c = "LF" -> Do(Append(acts, "trans_chunked"), LineQ)
       [] h = "te" /\ c = "CR" -> Do(acts, <<"te", "crchunked", 0>>)
       [] OTHER -> Stop

KnownLws(h, c) ==
  CASE c = "LF" -> Do(<<"start_value", "write_value">>, <<h, "empty", 0>>)
    [] c = "CR" -> Do(<<"start_value", "write_value">>, <<h, "crempty", 0>>)
    [] c \in Blank -> Do(<<"start_value">>, <<h, "lws", 0>>)
    [] c = "C" -> Do(<<"start_value">>, <<h, "word", 1>>)
    [] OTHER -> Do(<<"start_value">>, ValueQ)

\* The line after an empty value: a header of its own, or the value itself.
EmptyValue(h, c) ==
  CASE c \in Blank -> Go(<<h, "fold", 0>>)
    [] c = "LF" -> Do(<<"done">>, <<h, "final", 0>>)
    [] c = "CR" -> Go(<<h, "crdone", 0>>)
    [] c = "C" -> Do(Append(WordActs(h), "start_field"), <<h, "either", 1>>)
    [] OTHER -> NameStart(<<>>, c)

Fold(h, c) ==
  CASE c \in Space -> Go(<<h, "fold", 0>>)
    [] c = "C" -> Do(WordActs(h), <<h, "foldword", 1>>)
    [] OTHER -> Stop

FoldWord(h, k, c) ==
  CASE k < Len(Word(h)) /\ c \in Either(Word(h)[k + 1]) -> Go(<<h, "foldword", k + 1>>)
    [] k = Len(Word(h)) -> WordEnd(h, FALSE, c)
    [] OTHER -> Stop

\* After the carriage return of a line that may have been the last.
CrDone(h, c) ==
  IF c = "LF" THEN Do(<<"done">>, <<h, "final", 0>>) ELSE Fold(h, c)

CrEmpty(h, c) == IF c = "LF" THEN Go(<<h, "empty", 0>>) ELSE Fold(h, c)

\* The word read as a value of its own line and as a header name at once.
EitherWord(h, k, c) ==
  CASE k < Len(Word(h)) /\ c \in Either(Word(h)[k + 1]) -> Go(<<h, "either", k + 1>>)
    [] k = 1 /\ c = "O" -> Go(<<"name", "C", 2>>)
    [] k = Len(Word(h)) /\ c \in {"LF", "CR"} -> WordEnd(h, FALSE, c)
    [] OTHER -> FieldName(c)

ValueWord(h, k, c) ==
  CASE k < Len(Word(h)) /\ c \in Either(Word(h)[k + 1]) -> Go(<<h, "word", k + 1>>)
    [] k = Len(Word(h)) /\ c \in {"LF", "CR"} -> WordEnd(h, TRUE, c)
    [] OTHER -> FieldValue(c)

\* write_connection_close runs with the first byte of the next line.
Closed(c) == LineStart(<<"write_connection_close">>, c)
CrClosed(c) == IF c = "LF" THEN Go(ClosedQ) ELSE Stop
CrChunked(c) == IF c = "LF" THEN Do(<<"trans_chunked">>, LineQ) ELSE Stop

\* The generated states of the two headers are copies of one another.
TeLws(c) == KnownLws("te", c)
TeEmptyValue(c) == EmptyValue("te", c)
TeFold(c) == Fold("te", c)
TeFoldWord(k, c) == FoldWord("te", k, c)
TeCrDone(c) == CrDone("te", c)
TeCrEmpty(c) == CrEmpty("te", c)
TeEitherWord(k, c) == EitherWord("te", k, c)
TeValueWord(k, c) == ValueWord("te", k, c)

----------------------------------------------------------------------------
(* Content-Length: the word is a run of digits.                            *)

LengthEnd(c) ==
  IF c = "LF" THEN Do(<<"write_content_len", "write_value">>, LineQ)
  ELSE Do(<<"write_content_len", "write_value">>, CrQ)

ClLws(c) == IF c \in Digit THEN Do(<<"start_value">>, <<"cl", "word", 1>>)
            ELSE IF c = "C" THEN Do(<<"start_value">>, ValueQ) ELSE KnownLws("cl", c)

ClFold(c) ==
  CASE c \in Space -> Go(<<"cl", "fold", 0>>)
    [] c \in Digit -> Do(<<"start_value">>, <<"cl", "foldword", 1>>)
    [] OTHER -> Stop

ClEmptyValue(c) ==
  CASE c \in Digit -> Do(<<"start_value", "start_field">>, <<"cl", "either", 1>>)
    [] c = "C" -> NameStart(<<>>, c)
    [] OTHER -> EmptyValue("cl", c)

ClFoldWord(c) ==
  CASE c \in Digit -> Go(<<"cl", "foldword", 1>>)
    [] c \in {"LF", "CR"} -> LengthEnd(c)
    [] OTHER -> Stop

ClCrDone(c) == IF c = "LF" THEN Do(<<"done">>, <<"cl", "final", 0>>) ELSE ClFold(c)
ClCrEmpty(c) == IF c = "LF" THEN Go(<<"cl", "empty", 0>>) ELSE ClFold(c)

ClEitherWord(c) ==
  CASE c \in Digit -> Go(<<"cl", "either", 1>>)
    [] c \in {"LF", "CR"} -> LengthEnd(c)
    [] OTHER -> FieldName(c)

ClValueWord(c) ==
  CASE c \in Digit -> Go(<<"cl", "word", 1>>)
    [] c \in {"LF", "CR"} -> LengthEnd(c)
    [] OTHER -> Go(ValueQ)

----------------------------------------------------------------------------
(* The switch over the current state.                                      *)

LineEdge(name, k, c) ==
  CASE name = "start" -> Start(c)
    [] name = "http" -> HttpVersion(k, c)
    [] name = "code" -> StatusCode(k, c)
    [] name = "reason" -> ReasonPhrase(k, c)

ChunkEdge(name, c) ==
  CASE name = "size" -> ChunkSize(c)
    [] name = "ext" -> ChunkExt(c)
    [] name = "name" -> ChunkName(c)
    [] name = "equals" -> ChunkEquals(c)
    [] name = "value" -> ChunkValue(c)

HeadEdge(name, c) ==
  CASE name = "line" -> LineStart(<<>>, c)
    [] name = "name" -> FieldName(c)
    [] name = "lws" -> FieldLws(c)
    [] name = "value" -> FieldValue(c)
    [] name = "cr" -> Cr(c)
    [] name = "lastcr" -> LastCr(c)
    [] OTHER -> Stop

NameEdge(h, k, c) ==
  CASE h \in {"C", "conn"} -> NameOfConnection(h, k, c)
    [] h = "te" -> NameOfTransferEncoding(k, c)
    [] h = "cl" -> NameOfContentLength(k, c)

ConnEdge(name, k, c) ==
  CASE name = "lws" -> KnownLws("conn", c)
    [] name = "empty" -> EmptyValue("conn", c)
    [] name \in {"fold", "final"} -> Fold("conn", c)
    [] name = "foldword" -> FoldWord("conn", k, c)
    [] name = "crdone" -> CrDone("conn", c)
    [] name = "crempty" -> CrEmpty("conn", c)
    [] name = "either" -> EitherWord("conn", k, c)
    [] name = "word" -> ValueWord("conn", k, c)
    [] name = "closed" -> Closed(c)
    [] name = "crclosed" -> CrClosed(c)

TeEdge(name, k, c) ==
  CASE name = "lws" -> TeLws(c)
    [] name = "empty" -> TeEmptyValue(c)
    [] name \in {"fold", "final"} -> TeFold(c)
    [] name = "foldword" -> TeFoldWord(k, c)
    [] name = "crdone" -> TeCrDone(c)
    [] name = "crempty" -> TeCrEmpty(c)
    [] name = "either" -> TeEitherWord(k, c)
    [] name = "word" -> TeValueWord(k, c)
    [] name = "crchunked" -> CrChunked(c)

ClEdge(name, c) ==
  CASE name = "lws" -> ClLws(c)
    [] name = "empty" -> ClEmptyValue(c)
    [] name \in {"fold", "final"} -> ClFold(c)
    [] name = "foldword" -> ClFoldWord(c)
    [] name = "crdone" -> ClCrDone(c)
    [] name = "crempty" -> ClCrEmpty(c)
    [] name = "either" -> ClEitherWord(c)
    [] name = "word" -> ClValueWord(c)

ResponseEdge(q, c) ==
  CASE q[1] = "line" -> LineEdge(q[2], q[3], c)
    [] q[1] = "chunk" -> ChunkEdge(q[2], c)
    [] q[1] = "head" -> HeadEdge(q[2], c)
    [] q[1] = "name" -> NameEdge(q[2], q[3], c)
    [] q[1] = "conn" -> ConnEdge(q[2], q[3], c)
    [] q[1] = "te" -> TeEdge(q[2], q[3], c)
    [] q[1] = "cl" -> ClEdge(q[2], c)
    [] OTHER -> Stop

----------------------------------------------------------------------------
(* The machine around the automaton.  A number strtol reads is represented *)
(* by the offset it is read from.                                          *)

\* httpclient_parser_init
InitParser ==
  [cs |-> First, body_start |-> 0, content_at |-> -1, status_at |-> -1, chunked |-> FALSE,
   mark |-> 0, nread |-> 0, field_len |-> 0, field_start |-> 0, close |-> FALSE,
   calls |-> <<>>]

Callback(name, at, len) == [cb |-> name, at |-> at, len |-> len, vat |-> 0, vlen |-> 0]

Called(m, call) == [m EXCEPT !.calls = Append(@, call)]

\* What an embedded action of the grammar does when the machine is at byte p.
Perform(m, act, p) ==
  CASE act \in {"mark", "start_value"} -> [m EXCEPT !.mark = p]
    [] act = "start_field" -> [m EXCEPT !.field_start = p]
    [] act = "write_field" -> [m EXCEPT !.field_len = p - m.field_start]
    [] act = "write_content_len" -> [m EXCEPT !.content_at = m.mark]
    [] act = "write_connection_close" -> [m EXCEPT !.close = TRUE]
    [] act = "trans_chunked" -> [m EXCEPT !.chunked = TRUE]
    [] act = "chunk_size" -> Called([m EXCEPT !.chunked = TRUE, !.content_at = m.mark],
                                    Callback(act, m.mark, p - m.mark))
    [] act = "status_code" -> Called([m EXCEPT !.status_at = m.mark],
                                     Callback(act, m.mark, p - m.mark))
    [] act = "write_value" ->
         Called(m, [cb |-> "http_field", at |-> m.field_start, len |-> m.field_len,
                    vat |-> m.mark, vlen |-> p - m.mark])
    [] act = "done" ->
         Called([m EXCEPT !.body_start = p + 1], Callback("header_done", p + 1, 0))
    [] OTHER -> Called(m, Callback(act, m.mark, p - m.mark))

\* httpclient_parser_has_error
HasError(m) == m.cs = Err

\* The four states the done action breaks out in; httpclient_parser_is_finished
\* compares with the first of them only.
IsFinal(q) == q = Finished \/ q[2] = "final"

StepByte(m, c, p) ==
  LET e == ResponseEdge(m.cs, c)
      perform(acc, act) == Perform(acc, act, p)
      done == FoldLeft(perform, m, e.acts)
  IN IF e.to = Err THEN [m EXCEPT !.cs = Err]
     ELSE [done EXCEPT !.cs = e.to, !.nread = p + 1]
=============================================================================
