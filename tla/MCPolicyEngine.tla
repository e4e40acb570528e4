--------------------------- MODULE MCPolicyEngine ---------------------------
(* Model-checking instance of PolicyEngine: one administrator id and one   *)
(* or two reported ids.                                                    *)
EXTENDS PolicyEngine, TLC

CONSTANTS admin, waf, c1, c2

MCSrcOf == [i \in Ids |-> IF i = admin THEN "ADMIN" ELSE "WAF"]
MCSymmetry == Permutations(Reports) \cup Permutations(Callers)
=============================================================================
