------------------------------ MODULE GovernedRun ------------------------------
(* What one supervised investigation promises its operator: a bounded number  *)
(* of model calls, then exactly one verdict, and no ticket write without both *)
(* a gate grant and a human who resumes the run.  TriageGraph implements it.  *)
EXTENDS Integers

CONSTANTS MaxSteps,  \* the hard step cap
          Cap        \* model calls a run may make: 1 when MaxSteps is below 1

VARIABLES phase,     \* "investigating", "granted", "escalated", "written" or "failed"
          spent      \* model calls made so far

govVars == <<phase, spent>>

GovInit == phase = "investigating" /\ spent = 0

AskModel ==
    /\ phase = "investigating"
    /\ spent < Cap
    /\ spent' = spent + 1
    /\ UNCHANGED phase

\* Only an investigation that stopped on its own, below the cap, is granted.
Grant ==
    /\ phase = "investigating"
    /\ spent \in 1..MaxSteps - 1
    /\ phase' = "granted"
    /\ UNCHANGED spent

Escalate ==
    /\ phase = "investigating"
    /\ spent > 0
    /\ phase' = "escalated"
    /\ UNCHANGED spent

Fail ==
    /\ phase = "investigating"
    /\ phase' = "failed"
    /\ UNCHANGED spent

\* The human's step; nothing obliges it to happen.
Release ==
    /\ phase = "granted"
    /\ phase' = "written"
    /\ UNCHANGED spent

Investigation == AskModel \/ Grant \/ Escalate \/ Fail

GovNext == Investigation \/ Release

GovSafe == GovInit /\ [][GovNext]_govVars

GovSpec == GovSafe /\ WF_govVars(Investigation)
================================================================================
