----------------------------- MODULE Investigation -----------------------------
(* The dependency-guided investigator of chaos/harness.py, over any signals.  *)
(* An operator whose name is another's with a suffix is a slip a change to    *)
(* the code could make; no action uses it.                                    *)
EXTENDS Naturals, Sequences, FiniteSets, CausalTrail

CONSTANT Topologies  \* functions from a service to the sequence of its dependencies

ASSUME TopologyAssumption ==
    \A t \in Topologies : DOMAIN t = Services /\ \A s \in Services : t[s] \in Seq(Services)

VARIABLES
    dependencies, healthy, alerted_service,  \* the scenario, fixed
    current, inspected, root,                \* the loop's variables
    pc                                       \* "walking" or "returned"

scenario == <<dependencies, healthy, alerted_service>>
vars == <<scenario, current, inspected, root, pc>>

--------------------------------------------------------------------------------
Elements(s) == {s[i] : i \in 1..Len(s)}

unhealthy(s) == s \in Services \ healthy

\* The positions of them among the dependencies of s.
unhealthy_dependencies(s) == {i \in 1..Len(dependencies[s]) : unhealthy(dependencies[s][i])}

Init ==
    /\ dependencies \in Topologies
    /\ healthy \in SUBSET Services
    /\ alerted_service \in Services
    /\ current = alerted_service
    /\ inspected = <<>>
    /\ root = NoRoot
    /\ pc = "walking"

Return(r) == root' = r /\ pc' = "returned" /\ UNCHANGED current

seen_never(s) == FALSE

seen(s) == s \in Elements(inspected)

loop_closed_spins == FALSE

\* while current not in inspected
loop_closed ==
    /\ pc = "walking"
    /\ seen(current)
    /\ Return(root)
    /\ UNCHANGED <<scenario, inspected>>

inspect_healthy ==
    /\ pc = "walking"
    /\ ~seen(current) /\ ~unhealthy(current)
    /\ inspected' = Append(inspected, current)
    /\ Return(root)
    /\ UNCHANGED scenario

inspect_unhealthy_keeping_first ==
    /\ pc = "walking"
    /\ ~seen(current) /\ unhealthy(current)
    /\ inspected' = Append(inspected, current)
    /\ LET next == unhealthy_dependencies(current)
           first == IF root = NoRoot THEN current ELSE root
       IN  \/ next = {} /\ Return(first)
           \/ \E i \in next :
                 /\ \A j \in next : i <= j
                 /\ root' = first /\ current' = dependencies[current][i] /\ UNCHANGED pc
    /\ UNCHANGED scenario

\* The first unhealthy dependency is inspected next; without one it is over.
inspect_unhealthy ==
    /\ pc = "walking"
    /\ ~seen(current) /\ unhealthy(current)
    /\ inspected' = Append(inspected, current)
    /\ LET next == unhealthy_dependencies(current) IN
       \/ next = {} /\ Return(current)
       \/ \E i \in next :
             /\ \A j \in next : i <= j
             /\ root' = current /\ current' = dependencies[current][i] /\ UNCHANGED pc
    /\ UNCHANGED scenario

Next == loop_closed \/ inspect_healthy \/ inspect_unhealthy

Spec == Init /\ [][Next]_vars /\ WF_vars(Next)

--------------------------------------------------------------------------------
(* Properties *)

\* The investigator's own trail, read as evaluation steps.
Trail == [i \in 1..Len(inspected) |->
             [queried |-> inspected[i], discovered |-> Elements(dependencies[inspected[i]])]]

\* The investigation obeys the rule agent runs are graded by, and never looks
\* at a service twice.
TrailIsCausal ==
    /\ causal_trail_is_valid(alerted_service, Trail)
    /\ Cardinality(Elements(inspected)) = Len(inspected)

\* The walk ends on every topology, cyclic ones included.
WalkEnds == <>(pc = "returned")

\* Paths from the alert over n distinct unhealthy services.
UnhealthyPaths(n) ==
    {p \in [1..n -> Services \ healthy] :
        /\ p[1] = alerted_service
        /\ \A i, j \in 1..n : p[i] = p[j] => i = j
        /\ \A i \in 1..n - 1 : p[i + 1] \in Elements(dependencies[p[i]])}

\* "Return the deepest unhealthy dependency reachable from the alert" is met
\* where the first unhealthy dependency is the only one: a root is returned
\* unless there is nothing unhealthy to start from, and it is the end of a path
\* of unhealthy services such that no path, nor a part of one, is longer.
DeepestOnChains ==
    pc = "returned" =>
        /\ root = NoRoot <=> UnhealthyPaths(1) = {}
        /\ root # NoRoot
           /\ (\A s \in Elements(inspected) : Cardinality(Elements(dependencies[s]) \ healthy) <= 1)
           => LET n == Len(inspected) IN
              (\E p \in UnhealthyPaths(n) : p[n] = root) /\ UnhealthyPaths(n + 1) = {}
================================================================================
