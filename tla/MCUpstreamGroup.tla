-------------------------- MODULE MCUpstreamGroup ---------------------------
(* Model-checking instance of UpstreamGroup in three parts; Init chooses    *)
(* one. "exchange": two requests at a time, on endpoints that stay up.      *)
(* "choice": three requests, one more than an endpoint admits, as far as    *)
(* the hold. "checks": overlapping rounds of health checks beside a request *)
(* that chooses by their result; the clock, which they do not read, stands. *)
EXTENDS UpstreamGroup

VARIABLE part

mcVars == <<vars, part>>
Together == [exchange |-> 2, choice |-> 3, checks |-> 1]

MCInit ==
    /\ Init
    /\ part \in DOMAIN Together
    /\ part # "checks" => \A e \in Endpoints : alive[e]

(* Requests that rest are alike: one of them starts.                       *)
Fresh == {r \in Requests : At(r, "idle")}
MCStart ==
    /\ Fresh # {} /\ Cardinality(Requests \ Fresh) < Together[part]
    /\ Start(CHOOSE r \in Fresh : TRUE)
    /\ UNCHANGED <<now, healthVars, part>>

MCRequest(r) ==
    /\ part # "exchange" => ~At(r, "admit")
    /\ RequestStep(r)
    /\ UNCHANGED <<now, healthVars, part>>
MCFlip == part = "checks" /\ Flip /\ UNCHANGED <<now, upVars, part>>
MCCheck(k) == part = "checks" /\ CheckStep(k) /\ UNCHANGED <<now, upVars, part>>
MCTick == part = "exchange" /\ Tick /\ UNCHANGED part

MCNext ==
    \/ MCStart
    \/ \E r \in Requests : MCRequest(r)
    \/ MCFlip
    \/ \E k \in Checks : MCCheck(k)
    \/ MCTick

(* The fairness of FairSpec, part by part.                                 *)
MCPrompt(r) == ~At(r, "body") /\ MCRequest(r)
MCSpec ==
    /\ MCInit /\ [][MCNext]_mcVars
    /\ WF_mcVars(MCTick)
    /\ \A r \in Requests : WF_mcVars(MCPrompt(r))
    /\ \A k \in Checks : WF_mcVars(MCCheck(k))
=============================================================================
