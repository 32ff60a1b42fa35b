----------------------------- MODULE MCTriageGraph -----------------------------
(* TLC instance of TriageGraph: the shipped cap (15) and threshold (0.80).    *)
EXTENDS TriageGraph

\* Below, at and above each bound the gate compares a confidence with.
MCConfidences == {-1, 0, 79, 80, 100, 101, NaN}
================================================================================
