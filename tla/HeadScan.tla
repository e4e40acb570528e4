------------------------------ MODULE HeadScan ------------------------------
(***************************************************************************)
(* The scan of one head by a generated parser: http_parser_execute for a   *)
(* request, httpclient_parser_execute for a response, byte after byte as   *)
(* their loops run.  What is scanned is a plan: bytes that are given,      *)
(* pieces that are chosen freely, and bytes that close the head.           *)
(***************************************************************************)
EXTENDS Integers, Sequences, SequencesExt, FiniteSets, FiniteSetsExt

CONSTANTS
  UriRelaxed,  \* parser->uri_relaxed
  Plans        \* [side, given, pieces, free, close]

VARIABLES
  plan,     \* the plan that is scanned
  text,     \* the bytes scanned so far
  machine,  \* http_parser or httpclient_parser
  taken,    \* pieces chosen so far
  ended     \* the closing bytes have been scanned

vars == <<plan, text, machine, taken, ended>>

Req == INSTANCE RequestParser
Resp == INSTANCE ResponseParser

----------------------------------------------------------------------------
StepOf(side, m, c, p) == IF side = "request" THEN Req!StepByte(m, c, p) ELSE Resp!StepByte(m, c, p)
FinalOf(side, m) == IF side = "request" THEN Req!IsFinished(m) ELSE Resp!IsFinal(m.cs)
ErrorOf(side, m) == IF side = "request" THEN Req!HasError(m) ELSE Resp!HasError(m)

\* The loop of http_parser_execute over some more bytes: it ends at an error
\* and behind the head.
ScanBytes(side, m, from, bytes) ==
  LET walk(acc, i) ==
        IF ErrorOf(side, acc) \/ FinalOf(side, acc) THEN acc
        ELSE StepOf(side, acc, bytes[i], from + i - 1)
  IN FoldLeft(walk, m, [i \in DOMAIN bytes |-> i])

Fresh(side) == IF side = "request" THEN Req!InitParser ELSE Resp!InitParser

Scan(bytes) ==
  /\ text' = text \o bytes
  /\ machine' = ScanBytes(plan.side, machine, Len(text), bytes)

Running == ~ended /\ ~ErrorOf(plan.side, machine) /\ ~FinalOf(plan.side, machine)

Init ==
  /\ plan \in Plans
  /\ text = plan.given
  /\ machine = ScanBytes(plan.side, Fresh(plan.side), 0, plan.given)
  /\ taken = 0 /\ ended = FALSE

\* The next bytes of the buffer are any piece.
ScanPiece ==
  /\ Running /\ taken < plan.free
  /\ \E piece \in plan.pieces : Scan(piece)
  /\ taken' = taken + 1
  /\ UNCHANGED <<plan, ended>>

\* The rest of the buffer.
ScanClose ==
  /\ Running
  /\ Scan(plan.close)
  /\ ended' = TRUE
  /\ UNCHANGED <<plan, taken>>

Next == ScanPiece \/ ScanClose

Spec == Init /\ [][Next]_vars

----------------------------------------------------------------------------
(* What the callbacks must have reported, read off the text.  Offsets are  *)
(* counted from 0, as the parsers count them.                              *)

Done == FinalOf(plan.side, machine)
Byte(i) == text[i + 1]
Offsets == 0..(Len(text) - 1)

\* The first of some bytes at or behind an offset, the end if there is none.
FirstOf(bytes, from) ==
  Min({i \in from..Len(text) : i = Len(text) \/ Byte(i) \in bytes})

FirstIn(bytes, from, end) == LET i == FirstOf(bytes, from) IN IF i < end THEN i ELSE end

Slice(name, at, end) == [cb |-> name, at |-> at, len |-> end - at, vat |-> 0, vlen |-> 0]

\* method SP target SP version, the target split at its first "#" and "?".
\* A scheme is left out: the path of an absolute target begins with "//".
LineCalls ==
  LET m == FirstOf({"SP"}, 0)
      e == FirstOf({"SP"}, m + 1)
      v == FirstOf({"CR", "LF"}, e)
      colon == FirstOf(Req!Byte \ (Req!Alpha \cup Req!Digit \cup {"+", "-", "."}), m + 1)
      schemed == Byte(m + 1) \in Req!Alpha /\ colon < e /\ Byte(colon) = ":"
      start == IF schemed THEN colon + 1 ELSE m + 1
      hash == FirstIn({"#"}, start, e)
      mark == FirstIn({"?"}, start, hash)
  IN <<Slice("request_method", 0, m), Slice("request_path", start, mark)>>
       \o (IF mark < hash THEN <<Slice("query_string", mark + 1, hash)>> ELSE <<>>)
       \o <<Slice("request_uri", start, hash)>>
       \o (IF hash < e THEN <<Slice("fragment", hash + 1, e)>> ELSE <<>>)
       \o <<Slice("http_version", e + 1, v)>>

\* The two socket requests of the grammar, "@path {...}" NUL and "<name ...>"
\* NUL: a path, and a payload up to the NUL, which is part of it.
Socket == plan.side = "request" /\ Byte(0) \in {"@", "<"}

SocketCalls ==
  LET ends == IF Byte(0) = "@" THEN {"SP"} ELSE Req!Space \cup {"/", ">"}
  IN <<Slice("request_path", 0, FirstOf(ends, 0))>>

Payload ==
  /\ machine.body_start = IF Byte(0) = "@" THEN FirstOf({"SP"}, 0) + 1 ELSE 0
  /\ machine.body_start + machine.content_len = machine.nread
  /\ Byte(machine.nread - 2) = IF Byte(0) = "@" THEN "}" ELSE ">"
  /\ Byte(machine.nread - 1) = "NUL"

Fields == SelectSeq(machine.calls, LAMBDA k : k.cb = "http_field")
Others == SelectSeq(machine.calls, LAMBDA k : k.cb \notin {"http_field", "header_done"})

\* Behind the line end at i: CR LF or a bare LF.
BehindEol(i) == IF Byte(i) = "CR" THEN i + 2 ELSE i + 1

LineEnd(f) == FirstOf({"CR", "LF"}, f.vat)

\* A field is a name, a colon, blanks and a value up to the line end.
WellRead(f) ==
  /\ f.len > 0 /\ Byte(f.at + f.len) = ":"
  /\ \A i \in f.at..(f.at + f.len - 1) : Byte(i) # ":"
  /\ \A i \in (f.at + f.len + 1)..(f.vat - 1) : Byte(i) \in {"SP", "HT", "WS"}
  /\ Byte(f.vat) \notin {"SP", "HT", "WS"}
  /\ f.vat + f.vlen = LineEnd(f)

\* Where the n-th field begins, or the blank line behind the last one.
Starts(n) == IF n = 1 THEN BehindEol(FirstOf({"CR", "LF"}, 0)) ELSE BehindEol(LineEnd(Fields[n - 1]))

\* The name of a header the response grammar knows, with an empty value.
Known == {Resp!Connection, Resp!TransferEncoding, Resp!ContentLength}
OpenValue ==
  \E w \in Known, i \in Offsets :
    /\ i + Len(w) < Len(text) /\ SubSeq(text, i + 1, i + Len(w)) = w
    /\ Byte(i + Len(w)) = ":"
    /\ FirstOf(Resp!Byte \ {"SP", "WS"}, i + Len(w) + 1) = FirstOf({"CR", "LF"}, i + Len(w) + 1)

----------------------------------------------------------------------------
(* Properties.                                                             *)

LineSplit ==
  plan.side = "request" /\ Done =>
    IF Socket THEN Others = SocketCalls /\ Payload ELSE Others = LineCalls
FieldsTile ==
  Done /\ ~Socket /\ (plan.side = "response" => ~OpenValue) =>
    /\ \A n \in DOMAIN Fields : WellRead(Fields[n]) /\ Fields[n].at = Starts(n)
    /\ machine.body_start = BehindEol(Starts(Len(Fields) + 1))

\* Whatever the bytes of the target, the callbacks of a request line report
\* method, path, query, target, fragment and version exactly once, in this
\* order, and cut the line at its first separators (mark and query_start of
\* http_parser are moved by a dozen states each); those of a socket request
\* report its path, and its payload is bounded.  The header callbacks tile
\* the head: every line is reported once, cut at its first colon, nothing
\* between two lines is skipped or read twice, and body_start is behind the
\* blank line.  In a response this needs that no header the grammar knows
\* has an empty value: such a value is looked for in the next line as well.
HeadSplit == LineSplit /\ FieldsTile
=============================================================================
