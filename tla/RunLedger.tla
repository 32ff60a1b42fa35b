------------------------------- MODULE RunLedger -------------------------------
(* What the service promises whoever posts an alert: one run per alert for as *)
(* long as the process lives, begun at most once, with one final outcome, and *)
(* lost only by a restart.  IncidentService implements it.                    *)
CONSTANTS Alerts, RunIds, NoRun

VARIABLES run_of,  \* alert -> its run since the last restart
          state    \* run -> "unknown", "accepted", "running", "paused", "failed" or "lost"

ledgerVars == <<run_of, state>>

LedgerInit ==
    /\ run_of = [a \in Alerts |-> NoRun]
    /\ state = [r \in RunIds |-> "unknown"]

Accept(a, r) ==
    /\ run_of[a] = NoRun
    /\ state[r] = "unknown"
    /\ run_of' = [run_of EXCEPT ![a] = r]
    /\ state' = [state EXCEPT ![r] = "accepted"]

Begin(r) ==
    /\ state[r] = "accepted"
    /\ state' = [state EXCEPT ![r] = "running"]
    /\ UNCHANGED run_of

\* A run may fail before it begins: its alert is not one the handler supports.
End(r) ==
    /\ \/ state[r] = "running" /\ \E s \in {"paused", "failed"} : state' = [state EXCEPT ![r] = s]
       \/ state[r] = "accepted" /\ state' = [state EXCEPT ![r] = "failed"]
    /\ UNCHANGED run_of

\* The process dies or starts again: unfinished runs are lost, and alerts are
\* new again.
Reset ==
    /\ run_of' \in {run_of, [a \in Alerts |-> NoRun]}
    /\ state' = [r \in RunIds |->
                    IF state[r] \in {"accepted", "running"} THEN "lost" ELSE state[r]]

LedgerNext ==
    \/ \E r \in RunIds : (\E a \in Alerts : Accept(a, r)) \/ Begin(r) \/ End(r)
    \/ Reset

LedgerSafe == LedgerInit /\ [][LedgerNext]_ledgerVars

\* An accepted run does not stay accepted: it begins, fails or is lost.
Progress(r) == Begin(r) \/ End(r)

LedgerSpec == LedgerSafe /\ \A r \in RunIds : WF_ledgerVars(Progress(r))
================================================================================
