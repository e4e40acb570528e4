-------------------------------- MODULE MCGateway --------------------------------
(***************************************************************************)
(* The parts of the gateway that accept a connection, read HTTP from it,   *)
(* report risks and log, in one run: Init chooses which of them the        *)
(* behaviour is about (focus); the others stay where they begin.           *)
(***************************************************************************)
EXTENDS TcpListener, Reporter, HttpConn, HttpFraming, AsyncLogger

CONSTANT UriRelaxed   \* of HeadScan
VARIABLES focus, plan, text, machine, scanned, ended

----------------------------------------------------------------------------
(* Heads for HttpFraming, requests for HttpConn, plans for HeadScan.       *)

Length(n) == <<"Content-Length", <<n>>>>
Coding(parts) == <<"Transfer-Encoding", parts>>
Chunked == Coding(<<"chunked">>)

MCLines ==
  {Length(-1), Length(0), Length(2), Length(3), Chunked, Coding(<<"chunked", "chunked">>),
   Coding(<<"gzip", "chunked">>), Coding(<<"">>), <<"Connection", <<"close">>>>,
   <<"Connection", <<"keep-alive", "upgrade">>>>, <<"Upgrade", <<"websocket">>>>}

Message(head, version, fields, body) ==
  [head |-> head, version |-> version, lines |-> fields, body |-> body]

Data == <<"data", 1>>
Eol == <<"crlf", 0>>
Other == <<"line", 0>>
Size(n) == <<"size", n>>

Plain == Message("ok", 11, <<>>, <<>>)
Fixed == Message("ok", 11, <<Length(2)>>, <<Data, Data>>)
Pieces == Message("ok", 11, <<Chunked>>,
  <<Size(2), Data, Data, Eol, Size(1), Data, Eol, Size(0), Other, Eol>>)

\* Too long, without its line end, no size line, too many trailer lines.
OddBodies ==
  {<<Size(2), Data, Data, Eol, Size(2), Data, Data, Eol, Size(0), Eol>>,
   <<Size(1), Data, Other, Eol>>, <<Other, Data, Eol>>, <<Size(0), Other, Other, Eol>>}

Odd ==
  {Message("ok", 11, <<Chunked>>, b) : b \in OddBodies} \cup
  {Message("bad", 11, <<>>, <<>>), Message("ok", 10, <<>>, <<>>),
   Message("ok", 11, <<<<"Connection", <<"close">>>>>>, <<>>),
   Message("ok", 11, <<Length(2), Chunked>>, <<Data, Data>>),
   Message("ok", 11, <<Length(4)>>, <<Data, Data, Data, Data>>)}

\* Where the token behind x stands, and how much data is left there.
Place(at, left) == [at |-> at, left |-> left]
Behind(x) ==
  CASE x.at = "data" /\ x.kind = "data" /\ x.left > 1 -> Place("data", x.left - 1)
    [] x.at = "chunk" /\ x.kind = "data" ->
         IF x.left > 1 THEN Place("chunk", x.left - 1) ELSE Place("eol", 0)
    [] x.at = "size" /\ x.kind = "size" ->
         IF x.n = 0 THEN Place("trailer", 0) ELSE Place("chunk", x.n)
    [] x.at = "eol" /\ x.kind = "crlf" -> Place("size", 0)
    [] x.at = "trailer" /\ x.kind # "crlf" -> Place("trailer", 0)
    [] OTHER -> Place("junk", 0)

Token(r, unit, place) ==
  [r |-> r, kind |-> unit[1], n |-> unit[2], at |-> place.at, left |-> place.left]

\* The tokens of message m, the r-th of its script.
MessageTokens(r, m) ==
  LET h == ReadRequest(m.version, m.lines)
      first == CASE m.head # "ok" \/ ~h.ok -> Place("junk", 0)
                 [] h.framing = "CHUNKED" -> Place("size", 0)
                 [] OTHER -> Place("data", h.clen)
      add(tokens, unit) ==
        Append(tokens, Token(r, unit, IF Len(tokens) = 2 THEN first ELSE Behind(Last(tokens))))
      head == <<Token(r, <<"h1", 0>>, Place("head", 0)), Token(r, <<"h2", 0>>, Place("rest", 0))>>
  IN FoldLeft(add, head, m.body)

Script(messages) ==
  [requests |-> messages,
   tokens |-> FlattenSeq([r \in DOMAIN messages |-> MessageTokens(r, messages[r])])]

MCScripts ==
  {Script(<<q, n>>) : q \in {Fixed, Pieces} \cup Odd, n \in {Plain, Fixed}}
    \cup {Script(<<Pieces, Fixed, Plain>>)}

Bytes(S) == {<<b>> : b \in S}
CrLf == <<"CR", "LF">>
Http11 == <<"SP", "H", "T", "T", "P", "/", "1", ".", "1">> \o CrLf
Status == <<"H", "T", "T", "P", "/", "0", ".", "0", "SP", "0", "SP", "O">> \o CrLf
Plan(side, given, pieces, free, close) ==
  [side |-> side, given |-> given, pieces |-> pieces, free |-> free, close |-> close]

Resp == INSTANCE ResponseParser
Known == {Resp!Connection, Resp!TransferEncoding, Resp!ContentLength}

\* Request targets, bracketed hosts, header lines; socket requests; header
\* lines of an answer in general, and of the headers its grammar knows.
MCPlans ==
  {Plan("request", <<"G", "SP">>, Bytes({"a", "/", "?", "#", ":", "@", "%", "0"}), 5, Http11 \o CrLf),
   Plan("request", <<"G", "SP", "/", "/", "[">>, Bytes({"x06", "1", "2", "a", ":", ".", "v"}), 5,
        <<"]">> \o Http11 \o CrLf),
   Plan("request", <<"G", "SP", "/">> \o Http11, Bytes({"a", ":", "SP", "CR", "LF"}), 6, CrLf \o CrLf),
   Plan("request", <<"@">>, Bytes({"a", "/", ":", "@", "0", "[", "]", "SP", "{", "}"}), 4,
        <<"SP", "{", "}", "NUL">>),
   Plan("request", <<"<", "a">>, Bytes({"a", "SP", "/", ">", "NUL"}), 3, <<">", "NUL">>),
   Plan("response", Status, Bytes({"tok", ":", "SP", "CR", "LF"}), 6, CrLf \o CrLf),
   Plan("response", Status,
        Bytes({"SP", "0", "tok"}) \cup {CrLf, <<"C", "L", "O", "S", "E">>,
          <<"C", "H", "U", "N", "K", "E", "D">>} \cup {Append(w, ":") : w \in Known},
        4, CrLf \o CrLf)}

----------------------------------------------------------------------------
Scan == INSTANCE HeadScan WITH Plans <- MCPlans, taken <- scanned

scanVars == <<plan, text, machine, scanned, ended>>
reportVars == vars
allVars == <<focus, connVars, scanVars, framingVars, listenerVars, reportVars, logVars>>

\* The variables of a part that is not looked at.
ScanParked ==
  /\ plan = 0 /\ text = 0 /\ machine = 0 /\ scanned = 0 /\ ended = 0

GatewayInit ==
  /\ focus \in {"conn", "scan", "framing", "listener", "report", "log"}
  /\ ConnInit /\ FramingInit /\ ListenerInit /\ Init /\ LogInit
  /\ focus # "conn" => wire = CHOOSE s \in Scripts : TRUE
  /\ IF focus = "scan" THEN Scan!Init ELSE ScanParked

ConnectionNext ==
  focus = "conn" /\ ConnNext /\ UNCHANGED <<focus, scanVars, framingVars, listenerVars, reportVars, logVars>>
ScanNext ==
  focus = "scan" /\ Scan!Next /\ UNCHANGED <<focus, connVars, framingVars, listenerVars, reportVars, logVars>>
FramingNext ==
  focus = "framing" /\ NextLine /\ UNCHANGED <<focus, connVars, scanVars, listenerVars, reportVars, logVars>>
ServerNext ==
  focus = "listener" /\ ListenerNext /\ UNCHANGED <<focus, connVars, scanVars, framingVars, reportVars, logVars>>
ReportNext ==
  focus = "report" /\ Next /\ UNCHANGED <<focus, connVars, scanVars, framingVars, listenerVars, logVars>>
LoggerNext ==
  focus = "log" /\ LogNext /\ UNCHANGED <<focus, connVars, scanVars, framingVars, listenerVars, reportVars>>

GatewayNext == ConnectionNext \/ ScanNext \/ FramingNext \/ ServerNext \/ ReportNext \/ LoggerNext

GatewaySpec == GatewayInit /\ [][GatewayNext]_allVars

----------------------------------------------------------------------------
(* The properties of the parts that are extended are taken as they are:   *)
(* they hold where a part does not move.                                   *)

\* HeadScan: the callbacks of both parsers split the head, each part once.
HeadSplit == focus = "scan" => Scan!HeadSplit
=============================================================================
