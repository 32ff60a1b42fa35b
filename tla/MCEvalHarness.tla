---------------------------- MODULE MCEvalHarness ----------------------------
(* TLC instance of EvalHarness.                                               *)
EXTENDS EvalHarness

SmallServices == {"a", "b"}

step(s, named) == [queried |-> s, discovered |-> named]

\* One that starts at each service and goes on to the other, and an empty one.
SmallTrails ==
    {<<>>, <<step("a", {"b"}), step("b", {})>>, <<step("b", {"a"}), step("a", {})>>}
================================================================================
