--------------------------- MODULE RequestParser ---------------------------
(***************************************************************************)
(* The request-head automaton of the gateway: http_parser.cpp, the code    *)
(* Ragel generated from http11_parser.rl.  A byte is represented by its    *)
(* class (two bytes are in one class when no state of the automaton tells  *)
(* them apart); a state is <<part, name, k>>, where the generated code     *)
(* has one number for every reachable k.  An edge names the actions the    *)
(* generated transition runs, in their order, and the state it enters.     *)
(*                                                                         *)
(* The automaton is the one the generator really produced, which differs   *)
(* from the RFC text in the comments of the grammar: Ragel reads 6(...) as *)
(* the byte 6 and "0"-"4" as a set difference, so a bracketed literal is   *)
(* read here exactly as the generated states read it.                      *)
(***************************************************************************)
EXTENDS Naturals, Sequences, SequencesExt

\* parser->uri_relaxed: braces and the caret are URI characters as well.
CONSTANT UriRelaxed

----------------------------------------------------------------------------
(* Byte classes.  "3" stands for 3 4 6 7 8 9, "A" for A-F, "G", "g" and    *)
(* "a" for the letters no state names, "sub" for ! $ & ' * _ ~, "delim"    *)
(* for ( ) , ; =, "quote" for " and \, "VT" for VT and FF, "ctl" for the   *)
(* other control bytes, the backquote and the bar, "high" for 128-255.     *)

Digit == {"0", "1", "2", "3", "5"}
HexLetter == {"A", "a"}
Hex == Digit \cup HexLetter
Upper == {"A", "G", "H", "P", "T"}
Alpha == Upper \cup {"a", "g", "v"}
Blank == {"HT", "SP"}
Space == Blank \cup {"LF", "VT", "CR"}
More == {"{", "}", "^"}
Counts == {"x02", "x03", "x04", "x05", "x06"}

Byte == Alpha \cup Digit \cup Space \cup More \cup Counts
          \cup {"NUL", "DEL", "ctl", "sub", "delim", "quote", "high"}
          \cup {"#", "%", "+", "-", ".", "/", ":", "<", ">", "?", "@", "[", "]"}

\* unreserved and sub_delims of the grammar.
Uric == Alpha \cup Digit \cup {"-", ".", "+", "sub", "delim"}
          \cup (IF UriRelaxed THEN More ELSE {})
Pchar == Uric \cup {":", "@", "high"}
PathChar == Pchar \cup {"/"}
QueryChar == PathChar \cup {"?"}

\* What a field name may hold: HTTP_CTL came out as the two bytes 0 and 127.
Token == Alpha \cup Digit \cup Counts
           \cup {"ctl", "LF", "VT", "CR", "sub", "#", "%", "+", "-", ".", "^"}
FieldByte == Byte \ {"NUL", "DEL"}

----------------------------------------------------------------------------
(* Edges.                                                                  *)

Go(q) == [acts |-> <<>>, to |-> q]
Do(acts, q) == [acts |-> acts, to |-> q]

Err == <<"err", "", 0>>
Finished == <<"head", "finished", 0>>
SocketDone == <<"socket", "finished", 0>>
Stop == Go(Err)

First == <<"line", "start", 0>>
UriQ == <<"line", "uri", 0>>
VersionQ(k) == <<"line", "version", k>>
LineQ == <<"head", "line", 0>>
FragmentQ == <<"uri", "fragment0", 0>>
QueryQ == <<"uri", "query0", 0>>
At(ctx, name) == <<ctx, name, 0>>

\* "%" xdigit xdigit: k counts what has been read of it.
Pct(ctx, name, k, c) == IF c \in Hex THEN Go(<<ctx, name, (k + 1) % 3>>) ELSE Stop
OpenPct(ctx, name) == Go(<<ctx, name, 1>>)

\* The bytes that end a path, and what they do: a request target goes on
\* with a query, a fragment or the version, a socket path with its data.
Leaves(ctx) == IF ctx = "uri" THEN {"SP", "#", "?"} ELSE {"SP"}
Leave(ctx, pre, c) ==
  CASE ctx = "json" -> Do(pre \o <<"request_path">>, At("json", "data"))
    [] c = "SP" -> Do(pre \o <<"request_path", "request_uri">>, VersionQ(0))
    [] c = "#" -> Do(pre \o <<"request_path", "request_uri">>, FragmentQ)
    [] OTHER -> Do(pre \o <<"request_path">>, QueryQ)

----------------------------------------------------------------------------
(* The request line.                                                       *)

Start(c) ==
  CASE c \in Upper \cup Digit -> Do(<<"mark">>, <<"line", "method", 1>>)
    [] c = "<" -> Do(<<"mark">>, At("xml", "open"))
    [] c = "@" -> Do(<<"mark">>, At("json", "start"))
    [] OTHER -> Stop

MaxMethod == 20

Method(k, c) ==
  CASE c = "SP" -> Do(<<"request_method">>, UriQ)
    [] c \in Upper \cup Digit /\ k < MaxMethod -> Go(<<"line", "method", k + 1>>)
    [] OTHER -> Stop

UriStart(c) ==
  CASE c \in Leaves("uri") -> Leave("uri", <<"mark">>, c)
    [] c \in Alpha -> Do(<<"mark">>, At("uri", "scheme"))
    [] c \in Uric \cup {"@"} -> Do(<<"mark">>, At("uri", "noscheme"))
    [] c = "%" -> Do(<<"mark">>, <<"uri", "noscheme", 1>>)
    [] c = "/" -> Do(<<"mark">>, At("uri", "slash"))
    [] OTHER -> Stop

Version(k, c) ==
  CASE k = 0 /\ c = "H" -> Do(<<"mark">>, VersionQ(1))
    [] k \in 1..6 /\ c = <<"H", "T", "T", "P", "/", "1", ".">>[k + 1] -> Go(VersionQ(k + 1))
    [] k = 7 /\ c \in {"0", "1"} -> Go(VersionQ(8))
    [] k = 8 /\ c = "LF" -> Do(<<"http_version">>, LineQ)
    [] k = 8 /\ c = "CR" -> Do(<<"http_version">>, At("head", "cr"))
    [] OTHER -> Stop

\* A scheme, or the first segment of a relative path: the colon decides.
Scheme(c) ==
  CASE c \in Leaves("uri") -> Leave("uri", <<>>, c)
    [] c \in Alpha \cup Digit \cup {"+", "-", "."} -> Go(At("uri", "scheme"))
    [] c \in Uric \cup {"@"} -> Go(At("uri", "noscheme"))
    [] c = "%" -> OpenPct("uri", "noscheme")
    [] c = "/" -> Go(At("uri", "path"))
    [] c = ":" -> Go(At("uri", "hier"))
    [] OTHER -> Stop

\* After the colon of a scheme the mark is set anew.
Hier(c) ==
  CASE c \in Leaves("uri") -> Leave("uri", <<"mark">>, c)
    [] c \in Pchar -> Do(<<"mark">>, At("uri", "path"))
    [] c = "%" -> Do(<<"mark">>, <<"uri", "path", 1>>)
    [] c = "/" -> Do(<<"mark">>, At("uri", "slash"))
    [] OTHER -> Stop

Fragment(first, k, c) ==
  LET pre == IF first THEN <<"mark">> ELSE <<>>
  IN CASE k > 0 -> Pct("uri", "fragment", k, c)
       [] c = "SP" -> Do(pre \o <<"fragment">>, VersionQ(0))
       [] c \in QueryChar -> Do(pre, At("uri", "fragment"))
       [] c = "%" -> Do(pre, <<"uri", "fragment", 1>>)
       [] OTHER -> Stop

\* A slip: an empty query leaves query_start where it was.
QueryLate(first, k, c) ==
  LET pre == IF first THEN <<"start_query">> ELSE <<>>
  IN CASE k > 0 -> Pct("uri", "query", k, c)
       [] c = "SP" -> Do(<<"query_string", "request_uri">>, VersionQ(0))
       [] c = "#" -> Do(<<"query_string", "request_uri">>, FragmentQ)
       [] c \in QueryChar -> Do(pre, At("uri", "query"))
       [] c = "%" -> Do(pre, <<"uri", "query", 1>>)
       [] OTHER -> Stop

Query(first, k, c) ==
  LET pre == IF first THEN <<"start_query">> ELSE <<>>
  IN CASE k > 0 -> Pct("uri", "query", k, c)
       [] c = "SP" -> Do(pre \o <<"query_string", "request_uri">>, VersionQ(0))
       [] c = "#" -> Do(pre \o <<"query_string", "request_uri">>, FragmentQ)
       [] c \in QueryChar -> Do(pre, At("uri", "query"))
       [] c = "%" -> Do(pre, <<"uri", "query", 1>>)
       [] OTHER -> Stop

----------------------------------------------------------------------------
(* Header lines.                                                           *)

LineStart(c) ==
  CASE c = "LF" -> Do(<<"start_field", "done">>, Finished)
    [] c = "CR" -> Do(<<"start_field">>, At("head", "crname"))
    [] c \in Token -> Do(<<"start_field">>, At("head", "name"))
    [] OTHER -> Stop

Name(c) ==
  CASE c = ":" -> Do(<<"write_field">>, At("head", "lws"))
    [] c \in Token -> Go(At("head", "name"))
    [] OTHER -> Stop

\* After a carriage return at the start of a line: the end of the head, or
\* the second byte of a field name.
CrName(c) == IF c = "LF" THEN Do(<<"done">>, Finished) ELSE Name(c)

\* Each blank after the colon moves the mark.
Lws(c) ==
  CASE c \in Blank -> Do(<<"start_value">>, At("head", "lws"))
    [] c = "LF" -> Do(<<"start_value", "write_value">>, LineQ)
    [] c = "CR" -> Do(<<"start_value", "write_value">>, At("head", "cr"))
    [] c \in FieldByte -> Do(<<"start_value">>, At("head", "value"))
    [] OTHER -> Stop

Value(c) ==
  CASE c = "LF" -> Do(<<"write_value">>, LineQ)
    [] c = "CR" -> Do(<<"write_value">>, At("head", "cr"))
    [] c \in FieldByte -> Go(At("head", "value"))
    [] OTHER -> Stop

Cr(c) == IF c = "LF" THEN Go(LineQ) ELSE Stop

\* The request automaton goes on after its final state when it is fed again.
AfterHead(c) == Name(c)

----------------------------------------------------------------------------
(* Paths, shared by the request target ("uri") and the socket path ("json")*)

NoScheme(ctx, k, c) ==
  CASE k > 0 -> Pct(ctx, "noscheme", k, c)
    [] c \in Leaves(ctx) -> Leave(ctx, <<>>, c)
    [] c \in Uric \cup {"@"} -> Go(At(ctx, "noscheme"))
    [] c = "%" -> OpenPct(ctx, "noscheme")
    [] c = "/" -> Go(At(ctx, "path"))
    [] OTHER -> Stop

Path(ctx, k, c) ==
  CASE k > 0 -> Pct(ctx, "path", k, c)
    [] c \in Leaves(ctx) -> Leave(ctx, <<>>, c)
    [] c \in PathChar -> Go(At(ctx, "path"))
    [] c = "%" -> OpenPct(ctx, "path")
    [] OTHER -> Stop

Slash(ctx, c) == IF c = "/" THEN Go(At(ctx, "authority")) ELSE Path(ctx, 0, c)

\* What may follow a complete host: a leaving byte or a path.
HostEnd(ctx, c) ==
  CASE c \in Leaves(ctx) -> Leave(ctx, <<>>, c)
    [] c = "/" -> Go(At(ctx, "path"))
    [] OTHER -> Stop

\* userinfo or reg_name: undecided until "@", ":" or the end.
Authority(ctx, first, k, c) ==
  CASE k > 0 -> Pct(ctx, "regoruser", k, c)
    [] c = "[" /\ first -> Go(At(ctx, "literal"))
    [] c \in Uric -> Go(At(ctx, "regoruser"))
    [] c = "%" -> OpenPct(ctx, "regoruser")
    [] c = ":" -> Go(At(ctx, "portoruser"))
    [] c = "@" -> Go(At(ctx, "host"))
    [] OTHER -> HostEnd(ctx, c)

PortOrUser(ctx, c) ==
  CASE c \in Digit -> Go(At(ctx, "portoruser"))
    [] c \in Uric \cup {":"} -> Go(At(ctx, "user"))
    [] c = "%" -> OpenPct(ctx, "user")
    [] c = "@" -> Go(At(ctx, "host"))
    [] OTHER -> HostEnd(ctx, c)

UserInfo(ctx, k, c) ==
  CASE k > 0 -> Pct(ctx, "user", k, c)
    [] c \in Uric \cup {":"} -> Go(At(ctx, "user"))
    [] c = "%" -> OpenPct(ctx, "user")
    [] c = "@" -> Go(At(ctx, "host"))
    [] OTHER -> Stop

Host(ctx, first, k, c) ==
  CASE k > 0 -> Pct(ctx, "regname", k, c)
    [] c = "[" /\ first -> Go(At(ctx, "literal"))
    [] c \in Uric -> Go(At(ctx, "regname"))
    [] c = "%" -> OpenPct(ctx, "regname")
    [] c = ":" -> Go(At(ctx, "port"))
    [] OTHER -> HostEnd(ctx, c)

Port(ctx, c) == IF c \in Digit THEN Go(At(ctx, "port")) ELSE HostEnd(ctx, c)

----------------------------------------------------------------------------
(* Bracketed literals, as compiled.                                        *)

Closed(ctx, c) == IF c = ":" THEN Go(At(ctx, "port")) ELSE HostEnd(ctx, c)

LiteralStart(ctx, c) ==
  CASE c = "x06" -> Go(At(ctx, "counted"))
    [] c \in Hex -> Go(<<ctx, "group", 11>>)
    [] c = ":" -> Go(At(ctx, "colon"))
    [] c = "v" -> Go(At(ctx, "future0"))
    [] OTHER -> Stop

\* The count byte is followed by one h16, a colon and an ls32.
Counted(ctx, k, c) ==
  CASE k < 4 /\ c \in Hex -> Go(<<ctx, "counted", k + 1>>)
    [] k > 0 /\ c = ":" -> Go(At(ctx, "ls32"))
    [] OTHER -> Stop

\* An octet of a dotted quad: i its number, s what has been read of it.
\* Two-digit octets begin with 1, three-digit ones are 1dd, 20d and 250.
DottedOctet(ctx, i, s, c) ==
  LET on(n) == Go(<<ctx, "octet", 10 * i + n>>)
      ended == s \in {1, 2, 3, 9}
  IN CASE s = 0 /\ c \in {"0", "3", "5"} -> on(9)
       [] s = 0 /\ c = "1" -> on(1)
       [] s = 0 /\ c = "2" -> on(3)
       [] s = 1 /\ c \in Digit -> on(2)
       [] s = 2 /\ c \in Digit -> on(9)
       [] s = 3 /\ c = "0" -> on(4)
       [] s = 3 /\ c = "5" -> on(5)
       [] s = 4 /\ c \in Digit -> on(9)
       [] s = 5 /\ c = "0" -> on(9)
       [] ended /\ i < 4 /\ c = "." -> Go(<<ctx, "octet", 10 * (i + 1)>>)
       [] ended /\ i = 4 /\ c = "]" -> Go(At(ctx, "closed"))
       [] OTHER -> Stop

\* The second h16 of an ls32; its fourth digit shares the last octet's end.
LastGroup(ctx, k, c) ==
  CASE c \in Hex /\ k < 3 -> Go(<<ctx, "last", k + 1>>)
    [] c \in Hex /\ k = 3 -> Go(<<ctx, "octet", 49>>)
    [] c = "]" /\ k > 0 -> Go(At(ctx, "closed"))
    [] OTHER -> Stop

\* An h16 that may turn out to be the first octet of a dotted quad.
\* s: 1-4 hex digits read and no longer an octet (1: still one), 11-13 a
\* number beginning with 1 (13: any complete three-digit one), 21-23 one
\* beginning with 2, 31 a letter.
Segment(ctx, name, s, next, closes, c) ==
  LET on(n) == Go(<<ctx, name, n>>)
  IN CASE s > 0 /\ c = ":" -> Go(At(ctx, next))
       [] s > 0 /\ c = "]" /\ closes -> Go(At(ctx, "closed"))
       [] s \in {1, 11, 12, 13, 21} /\ c = "." -> Go(<<ctx, "octet", 20>>)
       [] s = 0 /\ c = "1" -> on(11)
       [] s = 0 /\ c = "2" -> on(21)
       [] s = 0 /\ c \in Digit -> on(1)
       [] s = 0 /\ c \in Hex -> on(31)
       [] s = 11 /\ c \in Digit -> on(12)
       [] s = 12 /\ c \in Digit -> on(13)
       [] s = 21 /\ c = "0" -> on(22)
       [] s = 21 /\ c = "5" -> on(23)
       [] s = 22 /\ c \in Digit -> on(13)
       [] s = 23 /\ c = "0" -> on(13)
       [] s \in {1, 11, 21, 31} /\ c \in Hex -> on(2)
       [] s \in {2, 12, 22, 23} /\ c \in Hex -> on(3)
       [] s \in {3, 13} /\ c \in Hex -> on(4)
       [] OTHER -> Stop

Ls32(ctx, s, c) == Segment(ctx, "ls32", s, "last", FALSE, c)
SecondTail(ctx, s, c) == Segment(ctx, "second", s, "last", TRUE, c)
OpenTail(ctx, s, c) == Segment(ctx, "tail", s, "second", TRUE, c)
MidTail(ctx, s, c) == Segment(ctx, "mid", s, "second", FALSE, c)

\* k = 10 * n + d: d digits of the n-th h16 read (seven or more count as 7).
H16Groups(ctx, k, c) ==
  CASE k % 10 < 4 /\ c \in Hex -> Go(<<ctx, "group", k + 1>>)
    [] c = ":" -> Go(<<ctx, "sep", k \div 10>>)
    [] OTHER -> Stop

Separator(ctx, n, c) ==
  CASE c \in Hex -> Go(<<ctx, "group", 10 * (IF n < 7 THEN n + 1 ELSE 7) + 1>>)
    [] c = ":" -> Go(<<ctx, "gap", n>>)
    [] OTHER -> Stop

\* After "::" with n groups before it.
Gap(ctx, n, c) ==
  CASE \/ c = "x02" /\ (n = 0 \/ n > 2)
       \/ c = "x03" /\ n # 1
       \/ c = "x04" /\ n < 2
       \/ c = "x05" /\ n = 0 -> Go(At(ctx, "counted"))
    [] c = "]" /\ n \in {0, 7} -> Go(At(ctx, "closed"))
    [] n = 4 /\ c \in Hex -> Go(<<ctx, "counted", 1>>)
    [] n = 5 -> MidTail(ctx, 0, c)
    [] n \in {0, 6, 7} -> OpenTail(ctx, 0, c)
    [] OTHER -> Stop

Colon(ctx, c) == IF c = ":" THEN Go(<<ctx, "gap", 0>>) ELSE Stop

Future(ctx, name, c) ==
  CASE name \in {"future0", "future1"} /\ c \in Hex -> Go(At(ctx, "future1"))
    [] name = "future1" /\ c = "." -> Go(At(ctx, "future2"))
    [] name \in {"future2", "future3"} /\ c \in Uric \cup {":"} -> Go(At(ctx, "future3"))
    [] name = "future3" /\ c = "]" -> Go(At(ctx, "closed"))
    [] OTHER -> Stop

----------------------------------------------------------------------------
(* The socket requests of the grammar: "<name ...>" NUL and "@path {...}". *)

XmlName == Alpha \cup Digit \cup {"-", "."}

Xml(name, c) ==
  CASE name = "open" -> IF c \in XmlName THEN Go(At("xml", "name")) ELSE Stop
    [] name = "name" /\ c \in XmlName -> Go(At("xml", "name"))
    [] name = "name" /\ c \in Space \cup {"/", ">"} -> Do(<<"request_path">>, At("xml", "body"))
    [] name = "name" -> Stop
    [] name = "end" /\ c = "NUL" -> Do(<<"xml", "done">>, SocketDone)
    [] OTHER -> Go(At("xml", IF c = ">" THEN "end" ELSE "body"))

JsonStart(c) ==
  CASE c \in Leaves("json") -> Leave("json", <<>>, c)
    [] c \in Uric \cup {"@"} -> Go(At("json", "noscheme"))
    [] c = "%" -> OpenPct("json", "noscheme")
    [] c = "/" -> Go(At("json", "slash"))
    [] OTHER -> Stop

JsonData(name, c) ==
  CASE name = "data" -> IF c = "{" THEN Do(<<"mark">>, At("json", "body")) ELSE Stop
    [] name = "end" /\ c = "NUL" -> Do(<<"json", "done">>, SocketDone)
    [] OTHER -> Go(At("json", IF c = "}" THEN "end" ELSE "body"))

\* The same paths and hosts again: the generator copied their states for
\* the socket path, where only a space ends them.
JsonNoScheme(k, c) == NoScheme("json", k, c)
JsonPath(k, c) == Path("json", k, c)
JsonSlash(c) == Slash("json", c)
JsonAuthority(first, k, c) == Authority("json", first, k, c)
JsonPortOrUser(c) == PortOrUser("json", c)
JsonUserInfo(k, c) == UserInfo("json", k, c)
JsonHost(first, k, c) == Host("json", first, k, c)
JsonPort(c) == Port("json", c)
JsonClosed(c) == Closed("json", c)
JsonLiteralStart(c) == LiteralStart("json", c)
JsonCounted(k, c) == Counted("json", k, c)
JsonOctet(i, s, c) == DottedOctet("json", i, s, c)
JsonLastGroup(k, c) == LastGroup("json", k, c)
JsonLs32(s, c) == Ls32("json", s, c)
JsonSecondTail(s, c) == SecondTail("json", s, c)
JsonOpenTail(s, c) == OpenTail("json", s, c)
JsonMidTail(s, c) == MidTail("json", s, c)
JsonH16Groups(k, c) == H16Groups("json", k, c)
JsonSeparator(n, c) == Separator("json", n, c)
JsonGap(n, c) == Gap("json", n, c)
JsonFuture(name, c) == Future("json", name, c)

----------------------------------------------------------------------------
(* The switch over the current state.                                      *)

LineEdge(name, k, c) ==
  CASE name = "start" -> Start(c)
    [] name = "method" -> Method(k, c)
    [] name = "uri" -> UriStart(c)
    [] name = "version" -> Version(k, c)

HeadEdge(name, c) ==
  CASE name = "line" -> LineStart(c)
    [] name = "name" -> Name(c)
    [] name = "crname" -> CrName(c)
    [] name = "lws" -> Lws(c)
    [] name = "value" -> Value(c)
    [] name = "cr" -> Cr(c)
    [] name = "finished" -> AfterHead(c)

UriEdge(name, k, c) ==
  CASE name = "scheme" -> Scheme(c)
    [] name = "hier" -> Hier(c)
    [] name \in {"fragment0", "fragment"} -> Fragment(name = "fragment0", k, c)
    [] name \in {"query0", "query"} -> Query(name = "query0", k, c)
    [] name = "noscheme" -> NoScheme("uri", k, c)
    [] name = "path" -> Path("uri", k, c)
    [] name = "slash" -> Slash("uri", c)
    [] name \in {"authority", "regoruser"} -> Authority("uri", name = "authority", k, c)
    [] name = "portoruser" -> PortOrUser("uri", c)
    [] name = "user" -> UserInfo("uri", k, c)
    [] name \in {"host", "regname"} -> Host("uri", name = "host", k, c)
    [] name = "port" -> Port("uri", c)
    [] name = "closed" -> Closed("uri", c)
    [] name = "literal" -> LiteralStart("uri", c)
    [] name = "counted" -> Counted("uri", k, c)
    [] name = "octet" -> DottedOctet("uri", k \div 10, k % 10, c)
    [] name = "last" -> LastGroup("uri", k, c)
    [] name = "ls32" -> Ls32("uri", k, c)
    [] name = "second" -> SecondTail("uri", k, c)
    [] name = "tail" -> OpenTail("uri", k, c)
    [] name = "mid" -> MidTail("uri", k, c)
    [] name = "group" -> H16Groups("uri", k, c)
    [] name = "sep" -> Separator("uri", k, c)
    [] name = "gap" -> Gap("uri", k, c)
    [] name = "colon" -> Colon("uri", c)
    [] OTHER -> Future("uri", name, c)

JsonEdge(name, k, c) ==
  CASE name = "start" -> JsonStart(c)
    [] name \in {"data", "body", "end"} -> JsonData(name, c)
    [] name = "noscheme" -> JsonNoScheme(k, c)
    [] name = "path" -> JsonPath(k, c)
    [] name = "slash" -> JsonSlash(c)
    [] name \in {"authority", "regoruser"} -> JsonAuthority(name = "authority", k, c)
    [] name = "portoruser" -> JsonPortOrUser(c)
    [] name = "user" -> JsonUserInfo(k, c)
    [] name \in {"host", "regname"} -> JsonHost(name = "host", k, c)
    [] name = "port" -> JsonPort(c)
    [] name = "closed" -> JsonClosed(c)
    [] name = "literal" -> JsonLiteralStart(c)
    [] name = "counted" -> JsonCounted(k, c)
    [] name = "octet" -> JsonOctet(k \div 10, k % 10, c)
    [] name = "last" -> JsonLastGroup(k, c)
    [] name = "ls32" -> JsonLs32(k, c)
    [] name = "second" -> JsonSecondTail(k, c)
    [] name = "tail" -> JsonOpenTail(k, c)
    [] name = "mid" -> JsonMidTail(k, c)
    [] name = "group" -> JsonH16Groups(k, c)
    [] name = "sep" -> JsonSeparator(k, c)
    [] name = "gap" -> JsonGap(k, c)
    [] name = "colon" -> Colon("json", c)
    [] OTHER -> JsonFuture(name, c)

RequestEdge(q, c) ==
  CASE q[1] = "line" -> LineEdge(q[2], q[3], c)
    [] q[1] = "head" -> HeadEdge(q[2], c)
    [] q[1] = "uri" -> UriEdge(q[2], q[3], c)
    [] q[1] = "json" -> JsonEdge(q[2], q[3], c)
    [] q[1] = "xml" -> Xml(q[2], c)
    [] OTHER -> Stop

----------------------------------------------------------------------------
(* The machine around the automaton.  Offsets count bytes from the start   *)
(* of the buffer handed to execute; calls are the callbacks it made.       *)

\* http_parser_init
InitParser ==
  [cs |-> First, body_start |-> 0, mark |-> 0, query_start |-> 0, field_start |-> 0,
   field_len |-> 0, xml_sent |-> FALSE, json_sent |-> FALSE, content_len |-> 0, nread |-> 0,
   calls |-> <<>>]

Callback(name, at, len) == [cb |-> name, at |-> at, len |-> len, vat |-> 0, vlen |-> 0]

Called(m, call) == [m EXCEPT !.calls = Append(@, call)]

\* What an embedded action of the grammar does when the machine is at byte p.
Perform(m, act, p) ==
  CASE act \in {"mark", "start_value"} -> [m EXCEPT !.mark = p]
    [] act = "start_field" -> [m EXCEPT !.field_start = p]
    [] act = "write_field" -> [m EXCEPT !.field_len = p - m.field_start]
    [] act = "start_query" -> [m EXCEPT !.query_start = p]
    [] act = "query_string" -> Called(m, Callback(act, m.query_start, p - m.query_start))
    [] act = "write_value" ->
         Called(m, [cb |-> "http_field", at |-> m.field_start, len |-> m.field_len,
                    vat |-> m.mark, vlen |-> p - m.mark])
    [] act = "xml" -> [m EXCEPT !.xml_sent = TRUE]
    [] act = "json" -> [m EXCEPT !.json_sent = TRUE]
    [] act = "done" ->
         IF m.xml_sent \/ m.json_sent
         THEN [m EXCEPT !.body_start = m.mark, !.content_len = p - m.mark + 1]
         ELSE Called([m EXCEPT !.body_start = p + 1], Callback("header_done", p + 1, 0))
    [] OTHER -> Called(m, Callback(act, m.mark, p - m.mark))

\* http_parser_has_error and http_parser_is_finished
HasError(m) == m.cs = Err
IsFinished(m) == m.cs \in {Finished, SocketDone}

\* One byte: an error leaves the machine at that byte, the end of the head
\* breaks out behind it.
StepByte(m, c, p) ==
  LET e == RequestEdge(m.cs, c)
      perform(acc, act) == Perform(acc, act, p)
      done == FoldLeft(perform, m, e.acts)
  IN IF e.to = Err THEN [m EXCEPT !.cs = Err]
     ELSE [done EXCEPT !.cs = e.to, !.nread = p + 1]
=============================================================================
