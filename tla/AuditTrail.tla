------------------------------- MODULE AuditTrail -------------------------------
(* One incident's trail of evidence: the scripted investigation and the spans *)
(* of src/gld_001.py, their export to Phoenix, and the audit src/audit.py     *)
(* rebuilds from what Phoenix stored.  Every command-line run of the incident *)
(* carries the same run id, so one id may name several traces.  An operator   *)
(* whose name is another's with a suffix is a slip a change to the code could *)
(* make; no action uses it.                                                   *)
EXTENDS Integers, Sequences, FiniteSets, SequencesExt

CONSTANTS
    MaxTraces,  \* bound: runs under the one run id
    MaxDrops    \* bound: batches Phoenix is not there to take

ASSUME BoundsAssumption == MaxTraces \in Nat /\ MaxDrops \in Nat

VARIABLES
    run,      \* per trace: how far its process is
    pending,  \* per trace: ended spans its exporter holds, in order of their end
    stored,   \* spans Phoenix has stored
    dropped,  \* history: spans of batches that were lost
    drops,    \* history: batches lost
    reader,   \* a GET /runs/{run_id} between its two queries
    audit     \* the last audit it answered

vars == <<run, pending, stored, dropped, drops, reader, audit>>

--------------------------------------------------------------------------------
(* The investigation src/gld_001.py plays *)

Call(tool, service) == [tool |-> tool, service |-> service]

\* The tool call of each supervisor message; the one after the last diagnoses.
planned_message(step) ==
    <<Call("search_logs", "payment-api"), Call("get_ci_dependencies", "payment-api"),
      Call("search_logs", "auth-service"), Call("get_ci_dependencies", "auth-service"),
      Call("search_logs", "postgres-main")>>[step]

PlannedCalls == 5

causal_chain == <<"postgres-main", "auth-service", "payment-api">>

Traces == 1..MaxTraces

NoTrace == 0

\* A span's start is its place in the trace: the root starts first.  Arguments
\* are recorded when it starts, a result only if the tool returned one.
tool_span(t, step, ok) ==
    [trace |-> t, start |-> step, parent |-> TRUE, call |-> planned_message(step),
     result |-> ok, gate_status |-> "none"]

root_span_default_gate(t, ok) ==
    [trace |-> t, start |-> 0, parent |-> FALSE, call |-> Call("none", "none"),
     result |-> ok, gate_status |-> "auto_write"]

\* gld001_result_attributes are set on the root once the result was asserted.
root_span(t, ok) ==
    [trace |-> t, start |-> 0, parent |-> FALSE, call |-> Call("none", "none"),
     result |-> ok, gate_status |-> IF ok THEN "auto_write" ELSE "none"]

--------------------------------------------------------------------------------
(* src/audit.py *)

earliest(spans) == CHOOSE s \in spans : \A x \in spans : s.start <= x.start

\* The first span without a parent, or the first one.
find_root_span(spans) ==
    LET parentless == {s \in spans : ~s.parent} IN
    earliest(IF parentless = {} THEN spans ELSE parentless)

\* The members of a set with as many smaller ones as their place says.
ordered(spans) ==
    [i \in 1..Cardinality(spans) |->
        CHOOSE s \in spans : Cardinality({x \in spans : x.start < s.start}) = i - 1]

in_order(positions) ==
    [i \in 1..Cardinality(positions) |->
        CHOOSE n \in positions : Cardinality({m \in positions : m < n}) = i - 1]

\* No span records a step of its own, so steps are numbered by position.
audit_steps(spans) ==
    LET tool_spans == ordered({s \in spans : s.call.tool # "none"}) IN
    [i \in DOMAIN tool_spans |->
        [step |-> i, call |-> tool_spans[i].call, ok |-> tool_spans[i].result]]

\* Services of the steps, each where it is first seen.
services_from_steps(steps) ==
    LET new(i) == \A j \in 1..i - 1 : steps[j].call.service # steps[i].call.service
        firsts == in_order({i \in DOMAIN steps : new(i)})
    IN  [k \in DOMAIN firsts |-> steps[firsts[k]].call.service]

run_status(root) ==
    IF root.gate_status = "auto_write" THEN "awaiting_approval"
    ELSE IF root.result THEN "completed"
    ELSE "running"

NoAudit == [trace |-> NoTrace, status |-> "none", steps |-> <<>>, services |-> <<>>]

reconstruct_run_audit(spans) ==
    LET root == find_root_span(spans)
        steps == audit_steps(spans) IN
    [trace |-> root.trace, status |-> run_status(root), steps |-> steps,
     services |-> services_from_steps(steps)]

run_spans == {s \in stored : ~s.parent}

latest_run_span_oldest == CHOOSE s \in run_spans : \A x \in run_spans : s.trace <= x.trace

\* Traces are numbered in the order their roots start.
latest_run_span == CHOOSE s \in run_spans : \A x \in run_spans : x.trace <= s.trace

--------------------------------------------------------------------------------
Idle == [pc |-> "idle", trace |-> NoTrace]

Init ==
    /\ run = [t \in Traces |-> [pc |-> "none", calls |-> 0]]
    /\ pending = [t \in Traces |-> <<>>]
    /\ stored = {} /\ dropped = {} /\ drops = 0
    /\ reader = Idle
    /\ audit = NoAudit

phoenix == <<stored, dropped, drops>>
viewer == <<reader, audit>>

\* run_traced_gld001 opens the root span.
start_run(t) ==
    /\ run[t].pc = "none"
    /\ \A u \in 1..t - 1 : run[u].pc # "none"
    /\ run' = [run EXCEPT ![t].pc = "running"]
    /\ UNCHANGED <<pending, phoenix, viewer>>

Ends(t, spans) == pending' = [pending EXCEPT ![t] = @ \o spans]

\* A traced tool returns, and its span ends with the result.
tool_call(t) ==
    /\ run[t].pc = "running"
    /\ run[t].calls < PlannedCalls
    /\ run' = [run EXCEPT ![t].calls = @ + 1]
    /\ Ends(t, <<tool_span(t, run[t].calls + 1, TRUE)>>)
    /\ UNCHANGED <<phoenix, viewer>>

tool_raises_root_first(t) ==
    /\ run[t].pc = "running"
    /\ run[t].calls < PlannedCalls
    /\ run' = [run EXCEPT ![t].pc = "failed", ![t].calls = @ + 1]
    /\ Ends(t, <<root_span(t, FALSE), tool_span(t, run[t].calls + 1, FALSE)>>)
    /\ UNCHANGED <<phoenix, viewer>>

\* It raises: its span ends without a result, and the exception ends the run's.
\* (Where the installed langgraph's ToolNode answers the model with the error, the
\* run goes on to its next planned call; the model takes it to pass it on.)
tool_raises(t) ==
    /\ run[t].pc = "running"
    /\ run[t].calls < PlannedCalls
    /\ run' = [run EXCEPT ![t].pc = "failed", ![t].calls = @ + 1]
    /\ Ends(t, <<tool_span(t, run[t].calls + 1, FALSE), root_span(t, FALSE)>>)
    /\ UNCHANGED <<phoenix, viewer>>

\* The planned diagnosis passes the gate, or the gate or an assertion refuses it.
finish_run(t) ==
    /\ run[t].pc = "running"
    /\ run[t].calls = PlannedCalls
    /\ \E ok \in BOOLEAN :
          /\ run' = [run EXCEPT ![t].pc = IF ok THEN "paused" ELSE "failed"]
          /\ Ends(t, <<root_span(t, ok)>>)
    /\ UNCHANGED <<phoenix, viewer>>

\* The process dies with the spans it holds; an open span is never stored.
crash(t) ==
    /\ run[t].pc = "running" \/ pending[t] # <<>>
    /\ run' = [run EXCEPT ![t].pc = IF @ = "running" THEN "crashed" ELSE @]
    /\ dropped' = dropped \cup ToSet(pending[t])
    /\ pending' = [pending EXCEPT ![t] = <<>>]
    /\ UNCHANGED <<stored, drops, viewer>>

\* The exporter sends spans in the order of their end, in batches: the batch
\* processor of the service on its schedule, the simple one of the command line
\* after each span.  Phoenix stores a batch or misses all of it.
export(t) ==
    \E n \in 1..Len(pending[t]) :
        LET batch == ToSet(SubSeq(pending[t], 1, n)) IN
        /\ pending' = [pending EXCEPT ![t] = SubSeq(@, n + 1, Len(@))]
        /\ \/ stored' = stored \cup batch /\ UNCHANGED <<dropped, drops>>
           \/ /\ drops < MaxDrops /\ drops' = drops + 1
              /\ dropped' = dropped \cup batch
              /\ UNCHANGED stored
        /\ UNCHANGED <<run, viewer>>

\* get_run_spans asks for the spans that carry the run id, root spans alone ...
find_run_span ==
    /\ reader.pc = "idle"
    /\ run_spans # {}
    /\ reader' = [pc |-> "found", trace |-> latest_run_span.trace]
    /\ UNCHANGED <<run, pending, phoenix, audit>>

\* ... then for the whole trace of the latest, from which the audit is rebuilt.
get_run ==
    /\ reader.pc = "found"
    /\ audit' = reconstruct_run_audit({s \in stored : s.trace = reader.trace})
    /\ reader' = Idle
    /\ UNCHANGED <<run, pending, phoenix>>

Next ==
    \/ \E t \in Traces : \/ start_run(t) \/ tool_call(t) \/ tool_raises(t)
                         \/ finish_run(t) \/ crash(t) \/ export(t)
    \/ find_run_span \/ get_run

Spec == Init /\ [][Next]_vars

--------------------------------------------------------------------------------
(* Properties *)

Lost(t) == Cardinality({s \in dropped : s.trace = t})

\* An audit shows every call its run made, in the order they were made, except
\* the ones whose spans were lost: neither a call still in the exporter nor one
\* of another trace, although export, the two queries and other runs under the
\* same id interleave.  It can only miss what was dropped, never reorder.
AuditComplete ==
    audit.trace # NoTrace =>
        LET kept == {n \in 1..run[audit.trace].calls :
                        ~\E s \in dropped : s.trace = audit.trace /\ s.start = n} IN
        \E made \in [1..Cardinality(kept) -> kept] :
            /\ \A i, j \in DOMAIN made : i < j => made[i] < made[j]
            /\ [i \in 1..Len(audit.steps) |-> audit.steps[i].call]
                  = [i \in DOMAIN made |-> planned_message(made[i])]

\* An audit is final: asked again, the run is shown with the same verdict and
\* the same steps, unless a later run under the same id has replaced it, and an
\* earlier one never comes back.
AuditFinal ==
    [][/\ audit'.trace >= audit.trace
       /\ audit'.trace = audit.trace => audit' = audit]_audit

\* A run is shown as awaiting approval only if it paused for one; if none of its
\* spans was lost its audit then walks the causal chain from the alert to the
\* root.
ApprovalHasEvidence ==
    audit.status = "awaiting_approval" =>
        /\ run[audit.trace].pc = "paused"
        /\ run[audit.trace].calls = PlannedCalls
        /\ Lost(audit.trace) = 0 => audit.services = Reverse(causal_chain)
================================================================================
