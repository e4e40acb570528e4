------------------------------ MODULE HttpHead ------------------------------
(***************************************************************************)
(* What HttpReqParser and HttpRespParser (http_parse.cpp) make of the      *)
(* header lines of a head: where the body ends and whether the connection  *)
(* goes on.  A line is <<name, value>>; a value is the sequence of its     *)
(* comma-separated parts, trimmed, cut at ";" and in lower case (trimOWS,  *)
(* hdr_has_token, parse_te), so two spellings the code does not tell apart *)
(* are one value here.  The part of a Content-Length line is the number    *)
(* its digits give, or NotDigits when all_digits or strtoull refuses it.   *)
(***************************************************************************)
EXTENDS Integers, Sequences, SequencesExt

NotDigits == -1

\* A value has a part at least, be it empty.
IsLine(l) ==
  /\ l = <<l[1], l[2]>>
  /\ l[1] = "Content-Length" => l[2][1] \in Nat \cup {NotDigits}
  /\ l[1] = "Transfer-Encoding" => l[2] \in Seq(STRING) /\ l[2] # <<>>

----------------------------------------------------------------------------
(* hdr_has_token and parse_te                                              *)

HasToken(value, token) == \E i \in DOMAIN value : value[i] = token

\* An empty part anywhere, or "chunked" before the end, is malformed; any
\* other coding is unsupported.  A line with either is refused.
ParseTe(value) ==
  LET last == Len(value)
      empty(i) == value[i] = ""
      early(i) == value[i] = "chunked" /\ i < last
  IN [chunked |-> HasToken(value, "chunked"),
      refused |-> \E i \in 1..last : empty(i) \/ early(i) \/ value[i] # "chunked"]

----------------------------------------------------------------------------
(* The request parser.                                                     *)

NewReq == [clen |-> 0, has_clen |-> FALSE, chunked |-> FALSE, error |-> FALSE,
           close |-> FALSE, websocket |-> FALSE, named |-> {}]

OnContentLength(p, cl) ==
  CASE cl = NotDigits -> [p EXCEPT !.error = TRUE]
    [] p.has_clen /\ p.clen # cl -> [p EXCEPT !.error = TRUE]
    [] OTHER -> [p EXCEPT !.clen = cl, !.has_clen = TRUE]

OnTransferEncoding(p, value) ==
  CASE ParseTe(value).refused -> [p EXCEPT !.error = TRUE]
    [] OTHER -> [p EXCEPT !.chunked = @ \/ ParseTe(value).chunked]

\* "close" wins within a line; the last line that says either wins.
OnConnection(p, value) ==
  IF HasToken(value, "close") THEN [p EXCEPT !.close = TRUE]
  ELSE IF HasToken(value, "keep-alive") THEN [p EXCEPT !.close = FALSE] ELSE p

\* HttpReqParser::onHttpField
OnReqField(p, line) ==
  LET q == CASE line[1] = "Content-Length" -> OnContentLength(p, line[2][1])
             [] line[1] = "Transfer-Encoding" -> OnTransferEncoding(p, line[2])
             [] line[1] = "Connection" -> OnConnection(p, line[2])
             [] line[1] = "Upgrade" ->
                  [p EXCEPT !.websocket = @ \/ HasToken(line[2], "websocket")]
             [] OTHER -> p
  IN [q EXCEPT !.named = @ \cup {line[1]}]

\* A slip: a coding hides a length.
ReqFramingLoose(p) ==
  IF p.chunked THEN "CHUNKED"
  ELSE IF p.has_clen /\ p.clen > 0 THEN "CONTENT_LENGTH" ELSE "NONE"

\* HttpReqParser::getBodyFraming, which may set the error as well.
ReqFraming(p) ==
  CASE p.has_clen /\ p.chunked -> "REFUSED"
    [] ~p.has_clen /\ p.chunked -> "CHUNKED"
    [] p.has_clen /\ ~p.chunked -> IF p.clen > 0 THEN "CONTENT_LENGTH" ELSE "NONE"
    [] OTHER -> "NONE"

\* execute calls onHttpField for one line after the other: the parser after
\* the first n lines.
ReqAfter(lines) ==
  LET after[n \in 0..Len(lines)] ==
        IF n = 0 THEN NewReq ELSE OnReqField(after[n - 1], lines[n])
  IN after

\* The error checks of read_req_head, after execute and after getBodyFraming,
\* and the HTTP/1.0 default.
ReadRequest(version, lines) ==
  LET p == ReqAfter(lines)[Len(lines)]
      framing == ReqFraming(p)
  IN [parsed |-> ~p.error, ok |-> ~p.error /\ framing # "REFUSED",
      framing |-> framing, clen |-> p.clen,
      close |-> p.close \/ (version = 10 /\ "Connection" \notin p.named),
      websocket |-> p.websocket]

----------------------------------------------------------------------------
(* The response parser.                                                    *)

NewResp == [clen |-> 0, has_clen |-> FALSE, chunked |-> FALSE, error |-> FALSE, close |-> FALSE]

OnRespContentLength(p, cl) ==
  IF cl # NotDigits /\ (p.has_clen => p.clen = cl) /\ p.chunked
  THEN [p EXCEPT !.error = TRUE] ELSE OnContentLength(p, cl)

OnRespTransferEncoding(p, value) ==
  IF ParseTe(value).refused THEN [p EXCEPT !.error = TRUE]
  ELSE IF ParseTe(value).chunked THEN [p EXCEPT !.error = @ \/ p.has_clen, !.chunked = TRUE]
  ELSE p

\* HttpRespParser::onHttpField
OnRespField(p, line) ==
  CASE line[1] = "Content-Length" -> OnRespContentLength(p, line[2][1])
    [] line[1] = "Transfer-Encoding" -> OnRespTransferEncoding(p, line[2])
    [] line[1] = "Connection" -> [p EXCEPT !.close = @ \/ HasToken(line[2], "close")]
    [] OTHER -> p

\* HttpRespParser::getBodyFraming
RespFraming(p) ==
  IF p.chunked THEN "CHUNKED"
  ELSE IF p.has_clen THEN IF p.clen > 0 THEN "CONTENT_LENGTH" ELSE "NONE"
  ELSE "UNTIL_CLOSE"

RespAfter(lines) ==
  LET after[n \in 0..Len(lines)] ==
        IF n = 0 THEN NewResp ELSE OnRespField(after[n - 1], lines[n])
  IN after

ReadResponse(lines) ==
  LET p == RespAfter(lines)[Len(lines)]
  IN [ok |-> ~p.error, framing |-> RespFraming(p), clen |-> p.clen, close |-> p.close]

----------------------------------------------------------------------------
(* What the two sides must agree on, stated over all the lines at once.    *)

Lengths(lines) == {l[2][1] : l \in {m \in Range(lines) : m[1] = "Content-Length"}}
Codings(lines) == {l[2] : l \in {m \in Range(lines) : m[1] = "Transfer-Encoding"}}

\* A head bounds its body in one way only, whatever the order of its lines:
\* every Transfer-Encoding line is exactly "chunked" and no length is given,
\* or all lengths are one number and no coding is given.
OneReading(lines) ==
  \/ Lengths(lines) = {} /\ Codings(lines) \subseteq {<<"chunked">>}
  \/ Codings(lines) = {} /\ NotDigits \notin Lengths(lines) /\ \A m, n \in Lengths(lines) : m = n

Bound(lines) ==
  IF Codings(lines) # {} THEN "CHUNKED"
  ELSE IF \E n \in Lengths(lines) : n > 0 THEN "CONTENT_LENGTH"
  ELSE IF Lengths(lines) = {0} THEN "NONE" ELSE "none said"
=============================================================================
