----------------------------- MODULE MCRuleSync -----------------------------
(* Model-checking instances of RuleSync.                                   *)
EXTENDS RuleSync, TLC

CONSTANT Timed      \* the kinds of rules edited: with an expiry time or not

MCRules == [version : 1 .. MaxVer, timed : Timed]
MCIdSymmetry == Permutations(Ids)
MCConnSymmetry == Permutations(Conns)
=============================================================================
