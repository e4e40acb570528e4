----------------------------- MODULE MCSyncParts -----------------------------
(***************************************************************************)
(* RuleSync in bounded parts, one of which Init chooses. "edits" has one   *)
(* connection at a time and no pings, but two edits and a restart, after   *)
(* which no edit but from version 0; "drain" has one edit and a stop of    *)
(* the hub; in "relink" the gateway dials again while the hub still serves *)
(* its previous connection, with pings and without edits, restart or stop. *)
(***************************************************************************)
EXTENDS MCRuleSync

VARIABLE part

Idle(s) ==
    /\ sess[s] = ClosedSession /\ out[s] = None /\ conn # s
    /\ ~gwOpen[s] /\ ~hubOpen[s] /\ toGw[s] = << >> /\ toHub[s] = << >>

Alone == /\ \A s, t \in Conns : s = t \/ Idle(s) \/ Idle(t)
         /\ \A s \in Conns : sess[s].pings = 0 /\ ~sess[s].pingDue

(* Of the actions under fairness the bounds of "edits" and "drain" stop    *)
(* none as long as there is one connection.                                *)
Bound == /\ part = "edits" => Alone /\ ~draining /\ (epoch = 1 \/ ver <= 1 \/ log = << >>)
         /\ part = "drain" => Alone /\ ver <= 1
         /\ part = "relink" => ver = 0 /\ epoch = 1 /\ ~draining

PartsInit == SyncInit /\ part \in {"edits", "drain", "relink"}
PartsNext == SyncNext /\ UNCHANGED part /\ Bound'
PartsSpec == PartsInit /\ [][PartsNext]_<<vars, part>>

LiveInit == SyncInit /\ part \in {"edits", "drain"}
LiveSpec == LiveInit /\ [][PartsNext]_<<vars, part>> /\ SyncFairness

MCSymmetry == MCIdSymmetry \cup MCConnSymmetry
=============================================================================
