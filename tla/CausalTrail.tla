------------------------------ MODULE CausalTrail ------------------------------
(* What the two harnesses share: services, and the causal-trail rule of       *)
(* evals/harness.py.  Agent runs are graded by it, and the investigator of    *)
(* chaos/harness.py is shown to obey it.                                      *)
EXTENDS Naturals, Sequences

CONSTANTS
    Services,
    NoRoot       \* no diagnosis: None, "" or "inconclusive" (NO_ROOT_VALUES)

ASSUME NoRootAssumption == NoRoot \notin Services

\* One service query and the services its result exposed.
Steps == [queried : Services, discovered : SUBSET Services]

\* Every query target was exposed before it was queried: it is the alerted
\* service, or an earlier step's result named it.
causal_trail_is_valid(alerted, trail) ==
    \A i \in 1..Len(trail) :
        trail[i].queried \in {alerted} \cup UNION {trail[j].discovered : j \in 1..i - 1}
================================================================================
