--------------------------- MODULE BreakerPromise ---------------------------
(***************************************************************************)
(* What a circuit breaker promises. Closed it lets everything through and   *)
(* may trip. Open it lets nothing through before its pause is over, and the *)
(* pause is between OpenMs and MaxOpenMs. Half open it lets at most         *)
(* HalfOpenMax probes through at a time, and only a probe of this very      *)
(* half-open period decides between open and closed.                        *)
(***************************************************************************)
EXTENDS Integers, FiniteSets

CONSTANTS Requests, OpenMs, MaxOpenMs, HalfOpenMax

VARIABLES state,    \* of the breaker
          probes,   \* the requests out as probes
          until,    \* when the pause ends
          now

vars == <<state, probes, until, now>>

Init == state = "CLOSED" /\ probes = {} /\ until = 0 /\ now \in Nat

Pause == until' \in now + OpenMs .. now + MaxOpenMs

Trip == /\ state = "CLOSED" /\ state' = "OPEN" /\ Pause
        /\ UNCHANGED <<probes, now>>

Wake(r) == /\ state = "OPEN" /\ now >= until
           /\ state' = "HALF_OPEN" /\ probes' = {r} /\ until' = 0
           /\ UNCHANGED now

Admit(r) == /\ state = "HALF_OPEN" /\ r \notin probes /\ Cardinality(probes) < HalfOpenMax
            /\ probes' = probes \cup {r}
            /\ UNCHANGED <<state, until, now>>

Return(r) == /\ state = "HALF_OPEN" /\ r \in probes
             /\ probes' = probes \ {r}
             /\ UNCHANGED <<state, until, now>>

Settle(r) == /\ state = "HALF_OPEN" /\ r \in probes
             /\ probes' = {}
             /\ \/ state' = "CLOSED" /\ UNCHANGED until
                \/ state' = "OPEN" /\ Pause
             /\ UNCHANGED now

Time == now' > now /\ UNCHANGED <<state, probes, until>>

Next == Trip \/ Time \/ \E r \in Requests : Wake(r) \/ Admit(r) \/ Return(r) \/ Settle(r)

Spec == Init /\ [][Next]_vars
=============================================================================
