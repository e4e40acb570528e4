---------------------------- MODULE HttpFraming ----------------------------
(***************************************************************************)
(* The header lines of a message, in any order and number: what the        *)
(* request parser and the response parser (http_parse.cpp), which read     *)
(* them one by one, decide about its body must not depend on the order and *)
(* must leave no second reading.                                           *)
(***************************************************************************)
EXTENDS HttpHead

CONSTANTS
  Lines,     \* lines that may be sent
  MaxLines   \* bound on the lines of one head

ASSUME FramingAssumption == (\A l \in Lines : IsLine(l)) /\ MaxLines \in Nat

VARIABLE lines

framingVars == <<lines>>

FramingInit == lines = <<>>

NextLine ==
  /\ Len(lines) < MaxLines
  /\ \E l \in Lines : lines' = Append(lines, l)

FramingSpec == FramingInit /\ [][NextLine]_framingVars

----------------------------------------------------------------------------
\* A request or an answer is taken exactly when its lines bound the body in
\* one way, and then it is bounded in that way: a length that is repeated is
\* one length, a coding next to a length is refused in whichever order the
\* two came, and without either a request has no body while an answer ends
\* with the connection (getBodyFraming and onHttpField of both parsers).
OneFraming ==
  LET request == ReadRequest(11, lines)
      answer == ReadResponse(lines)
      said(none) == IF Bound(lines) = "none said" THEN none ELSE Bound(lines)
  IN /\ request.ok <=> OneReading(lines)
     /\ answer.ok <=> OneReading(lines)
     /\ request.ok => request.framing = said("NONE")
     /\ answer.ok => answer.framing = said("UNTIL_CLOSE")
=============================================================================
