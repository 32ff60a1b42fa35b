------------------------------ MODULE EvalHarness ------------------------------
(* write_report of evals/harness.py: frozen runs are scored against labelled  *)
(* cases, then the static baseline is, by the same evaluate.  An operator     *)
(* whose name is another's with a suffix is a slip a change to the code could *)
(* make; no action uses it.                                                   *)
EXTENDS Naturals, Sequences, FiniteSets, CausalTrail

CONSTANTS
    CaseIds,
    Trails,      \* what a run may have queried
    MaxGoldens,  \* bound: labelled cases
    MaxRuns      \* bound: frozen runs

ASSUME TrailsAssumption == Trails \subseteq Seq(Steps)
ASSUME BoundsAssumption == MaxGoldens \in Nat /\ MaxRuns \in Nat

VARIABLES
    goldens, recorded,  \* the two files, in file order
    runs, scored, tally,  \* evaluate: its runs, goldens scored so far, counters
    metrics,            \* what it returned, for the candidate, then the baseline
    stage               \* "start", "scoring", "written" or "raised"

evalVars == <<goldens, recorded, runs, scored, tally, metrics, stage>>

--------------------------------------------------------------------------------
Roots == Services \cup {NoRoot}

Goldens == [case_id : CaseIds, alerted_service : Services, expected_root : Roots]

Runs == [case_id : CaseIds, concluded_root : Roots, trail : Trails,
         quality_label : BOOLEAN, judge_prediction : BOOLEAN]

SeqsUpTo(S, n) == UNION {[1..k -> S] : k \in 0..n}

ids(s) == {s[i].case_id : i \in 1..Len(s)}

\* The dict over run.case_id keeps the last run of a case.
run_by_id(id) ==
    runs[CHOOSE i \in 1..Len(runs) :
            runs[i].case_id = id /\ \A j \in i + 1..Len(runs) : runs[j].case_id # id]

require_no_missing_case == ids(goldens) \subseteq ids(runs)

require_same_case_ids == ids(goldens) = ids(runs)

is_incident(golden) == golden.expected_root # NoRoot

predicted_incident(run) == run.concluded_root # NoRoot

Zero == [tp |-> 0, tn |-> 0, fp |-> 0, fn |-> 0, diagnosable_cases |-> 0,
         root_correct |-> 0, causal_violations |-> 0,
         judge_tp |-> 0, judge_tn |-> 0, judge_fp |-> 0, judge_fn |-> 0]

One(holds) == IF holds THEN 1 ELSE 0

root_matches(golden, run) == is_incident(golden) /\ run.concluded_root = golden.expected_root

\* One pass of the loop over goldens.
score(t, golden, run) ==
    LET incident == is_incident(golden)
        predicted == predicted_incident(run)
        good == run.quality_label
        approved == run.judge_prediction
        causal == causal_trail_is_valid(golden.alerted_service, run.trail) IN
    [tp |-> t.tp + One(incident /\ predicted),
     fn |-> t.fn + One(incident /\ ~predicted),
     fp |-> t.fp + One(~incident /\ predicted),
     tn |-> t.tn + One(~incident /\ ~predicted),
     diagnosable_cases |-> t.diagnosable_cases + One(incident),
     root_correct |-> t.root_correct + One(root_matches(golden, run)),
     causal_violations |-> t.causal_violations + One(~causal),
     judge_tp |-> t.judge_tp + One(good /\ approved),
     judge_fn |-> t.judge_fn + One(good /\ ~approved),
     judge_fp |-> t.judge_fp + One(~good /\ approved),
     judge_tn |-> t.judge_tn + One(~good /\ ~approved)]

baseline_trail(golden) == <<[queried |-> golden.alerted_service, discovered |-> {}]>>

baseline_run_all_good(golden) ==
    [case_id |-> golden.case_id, concluded_root |-> golden.alerted_service,
     trail |-> baseline_trail(golden), quality_label |-> TRUE,
     judge_prediction |-> golden.expected_root = golden.alerted_service]

\* The static baseline blames the alerted service.
baseline_run(golden) ==
    [case_id |-> golden.case_id, concluded_root |-> golden.alerted_service,
     trail |-> baseline_trail(golden),
     quality_label |-> golden.expected_root = golden.alerted_service,
     judge_prediction |-> golden.expected_root = golden.alerted_service]

alerted_service_baseline == [i \in 1..Len(goldens) |-> baseline_run(goldens[i])]

--------------------------------------------------------------------------------
EvalInit ==
    /\ goldens \in SeqsUpTo(Goldens, MaxGoldens)
    /\ recorded \in SeqsUpTo(Runs, MaxRuns)
    /\ runs = recorded
    /\ scored = 0
    /\ tally = Zero
    /\ metrics = <<>>
    /\ stage = "start"

check_ids ==
    /\ stage = "start"
    /\ stage' = IF require_same_case_ids THEN "scoring" ELSE "raised"
    /\ UNCHANGED <<goldens, recorded, runs, scored, tally, metrics>>

score_next ==
    /\ stage = "scoring"
    /\ scored < Len(goldens)
    /\ scored' = scored + 1
    /\ LET golden == goldens[scored + 1] IN
       tally' = score(tally, golden, run_by_id(golden.case_id))
    /\ UNCHANGED <<goldens, recorded, runs, metrics, stage>>

\* The mean over goldens divides by their number.
finish_raises ==
    /\ stage = "scoring" /\ goldens = <<>>
    /\ stage' = "raised"
    /\ UNCHANGED <<goldens, recorded, runs, scored, tally, metrics>>

all_scored == stage = "scoring" /\ scored = Len(goldens) /\ goldens # <<>>

\* evaluate returns for the candidate, and is called for the baseline.
candidate_scored ==
    /\ all_scored /\ metrics = <<>>
    /\ metrics' = <<tally>>
    /\ runs' = alerted_service_baseline
    /\ scored' = 0
    /\ tally' = Zero
    /\ stage' = "start"
    /\ UNCHANGED <<goldens, recorded>>

baseline_scored ==
    /\ all_scored /\ metrics # <<>>
    /\ metrics' = Append(metrics, tally)
    /\ stage' = "written"
    /\ UNCHANGED <<goldens, recorded, runs, scored, tally>>

EvalNext == check_ids \/ score_next \/ finish_raises \/ candidate_scored \/ baseline_scored

EvalSpec == EvalInit /\ [][EvalNext]_evalVars /\ WF_evalVars(EvalNext)

--------------------------------------------------------------------------------
(* Properties *)

Distinct(s) == \A i, j \in 1..Len(s) : s[i].case_id = s[j].case_id => i = j

Incidents(n) == {i \in 1..n : is_incident(goldens[i])}

AlertNames(n) == {i \in 1..n : goldens[i].expected_root = goldens[i].alerted_service}

\* After n cases the counters split them in every way they are divided, and a
\* root is right only where an incident was found.
AddUp(m, n) ==
    /\ m.diagnosable_cases = Cardinality(Incidents(n))
    /\ m.tp + m.fn = m.diagnosable_cases
    /\ m.tp + m.fn + m.fp + m.tn = n
    /\ m.judge_tp + m.judge_fn + m.judge_fp + m.judge_tn = n
    /\ m.root_correct <= m.tp

\* Where each case has one run, no violation after n cases means none in any
\* trail recorded for them.
GateSpeaks(m, n) ==
    Distinct(recorded) /\ m.causal_violations = 0 =>
        \A i \in 1..n, j \in 1..Len(recorded) :
            goldens[i].case_id = recorded[j].case_id =>
                causal_trail_is_valid(goldens[i].alerted_service, recorded[j].trail)

\* A report is written only for runs and cases that cover each other, and
\* compares counters over the same cases.  A hard gate E3 that passes speaks for
\* every recorded trail.
ReportCoversCases ==
    stage = "written" =>
        /\ ids(goldens) = ids(recorded) /\ goldens # <<>> /\ Len(metrics) = 2
        /\ \A k \in 1..2 : AddUp(metrics[k], Len(goldens))
        /\ GateSpeaks(metrics[1], Len(goldens))

\* After n cases the baseline is scored as what it is: no causal violation, no
\* judge error, no missed incident, a false alarm on every quiet case and the
\* root right exactly where the alert names it.
AsItIs(m, n) ==
    Distinct(goldens) =>
        /\ m.causal_violations = 0 /\ m.judge_fp = 0 /\ m.judge_fn = 0
        /\ m.fn = 0 /\ m.tn = 0
        /\ m.root_correct = Cardinality(AlertNames(n))

\* The baseline agents are compared with never stops a report, and is scored as
\* what it is.
BaselineScored ==
    /\ stage = "raised" => metrics = <<>>
    /\ stage = "written" => AsItIs(metrics[2], Len(goldens))
================================================================================
