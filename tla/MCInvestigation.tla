---------------------------- MODULE MCInvestigation ----------------------------
(* TLC instances of Investigation.                                            *)
EXTENDS Investigation

Distinct(s) == \A i, j \in 1..Len(s) : s[i] = s[j] => i = j

\* Every graph over three services, each dependency tuple in every order.
SmallServices == {"a", "b", "c"}

SmallTopologies ==
    [SmallServices -> {s \in UNION {[1..n -> SmallServices] : n \in 0..2} : Distinct(s)}]
================================================================================
