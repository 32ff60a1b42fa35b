------------------------------ MODULE TriageGraph ------------------------------
(* The supervisor graph of src/graph.py, its state (src/state.py) and the     *)
(* confidence gate it ends in (src/gate.py), run by LangGraph one superstep   *)
(* at a time: supervisor -> tool_node -> supervisor ... -> gate -> write, with *)
(* an interrupt before write.  An operator whose name is another's with a     *)
(* suffix is a slip a change to the code could make; no action uses it.       *)
EXTENDS Integers

CONSTANTS
    MaxSteps,        \* settings.agent_max_steps, read unvalidated
    Threshold,       \* settings.auto_write_confidence, in hundredths
    One,             \* the confidence 1.0, in hundredths
    Confidences,     \* what float(data["confidence"]) may return
    NaN,             \* the float that compares false with everything
    RecursionLimit,  \* LangGraph's recursion_limit of one invoke call
    Token, NoToken

ASSUME MaxStepsAssumption == MaxSteps \in Int
ASSUME ThresholdAssumption == Threshold \in Int /\ One \in Nat
ASSUME ConfidenceAssumption == NaN \notin Int /\ Confidences \subseteq Int \cup {NaN}
ASSUME RecursionAssumption == RecursionLimit \in Nat
ASSUME TokenAssumption == Token # NoToken

VARIABLES
    node,            \* the node LangGraph executes next
    status,          \* what the invoke call is doing, or how it ended
    llm_calls,
    last,            \* messages[-1]: routing and gate read no other message
    approval_token,
    gate_decision,
    supersteps,      \* ticks of the invoke call under way
    resumed          \* the paused graph has been invoked again

vars == <<node, status, llm_calls, last, approval_token, gate_decision,
          supersteps, resumed>>

--------------------------------------------------------------------------------
(* Data *)

Nodes == {"supervisor", "tool_node", "gate", "write", "__end__"}
Statuses == {"running", "interrupted", "finished", "raised", "out_of_steps"}

\* A message: does it request tools; does its content decode to a mapping with
\* the required text fields, a causal chain and a numeric confidence; does its
\* evidence sequence hold a non-blank item; what confidence; does next_action
\* mention escalation, a human or manual work.
Messages == [tool_calls : BOOLEAN, parses : BOOLEAN, evidence : BOOLEAN,
             confidence : Confidences, manual : BOOLEAN]

\* Prompts and tool results: no tool calls, and no diagnosis to parse.
Opaque == {m \in Messages : ~m.tool_calls /\ ~m.parses}

Decisions == [status : {"none", "auto_write", "escalate"},
              reason : {"none", "step cap hit", "diagnosis is uncertain",
                        "confidence below threshold", "confidence meets threshold"}]

NoDecision == [status |-> "none", reason |-> "none"]

\* Float comparison: false as soon as one side is NaN.
LessThan(a, b) == a # NaN /\ b # NaN /\ a < b

cap_hit == llm_calls >= MaxSteps

--------------------------------------------------------------------------------
(* src/gate.py and the routing functions of src/graph.py *)

\* require_text, tuple_from_sequence and float() raise on anything else: an
\* empty evidence sequence is refused here, before the gate can judge it.
diagnosis_from_state(m) == m.parses /\ m.evidence

require_confidence(c) == ~LessThan(c, 0) /\ ~LessThan(One, c)

\* The missing root cause and missing evidence of the source cannot reach it:
\* diagnosis_from_state has refused both.
diagnosis_is_uncertain(m) == m.manual

escalation_decision_misspelt(why) == [status |-> "escalated", reason |-> why]

escalation_decision(why) == [status |-> "escalate", reason |-> why]

gate_diagnosis_ignoring_cap(m, hit) ==
    IF diagnosis_is_uncertain(m) THEN escalation_decision("diagnosis is uncertain")
    ELSE IF LessThan(m.confidence, Threshold)
         THEN escalation_decision("confidence below threshold")
    ELSE [status |-> "auto_write", reason |-> "confidence meets threshold"]

gate_diagnosis(m, hit) ==
    IF hit THEN escalation_decision("step cap hit")
    ELSE IF diagnosis_is_uncertain(m) THEN escalation_decision("diagnosis is uncertain")
    ELSE IF LessThan(m.confidence, Threshold)
         THEN escalation_decision("confidence below threshold")
    ELSE [status |-> "auto_write", reason |-> "confidence meets threshold"]

message_has_tool_calls(m) == m.tool_calls

should_continue_without_cap(calls, m) ==
    IF message_has_tool_calls(m) THEN "tool_node" ELSE "gate"

should_continue_one_over(calls, m) ==
    IF calls <= MaxSteps /\ message_has_tool_calls(m) THEN "tool_node" ELSE "gate"

should_continue(calls, m) ==
    IF calls < MaxSteps /\ message_has_tool_calls(m) THEN "tool_node" ELSE "gate"

should_write_any_decision(decision) ==
    IF decision.status # "none" THEN "write" ELSE "__end__"

should_write(decision) == IF decision.status = "auto_write" THEN "write" ELSE "__end__"

--------------------------------------------------------------------------------
(* Transitions *)

initial_triage_state ==
    /\ llm_calls = 0
    /\ last \in Opaque
    /\ approval_token = NoToken
    /\ gate_decision = NoDecision

Init ==
    /\ initial_triage_state
    /\ node = "supervisor"
    /\ status = "running"
    /\ supersteps = 0
    /\ resumed = FALSE

\* LangGraph compares the superstep count with its limit before anything else.
Tick(n) == status = "running" /\ node = n /\ supersteps < RecursionLimit

supervisor_node ==
    /\ Tick("supervisor")
    /\ last' \in Messages
    /\ llm_calls' = llm_calls + 1
    /\ node' = should_continue(llm_calls + 1, last')
    /\ supersteps' = supersteps + 1
    /\ UNCHANGED <<status, approval_token, gate_decision, resumed>>

tool_node ==
    /\ Tick("tool_node")
    /\ last' \in Opaque
    /\ node' = "supervisor"
    /\ supersteps' = supersteps + 1
    /\ UNCHANGED <<status, llm_calls, approval_token, gate_decision, resumed>>

\* model.invoke may raise out of graph.invoke, and so may a tool where ToolNode
\* passes its exception on, which depends on the langgraph installed; where it
\* answers with an error message instead, the step is tool_node.
CallRaises ==
    /\ Tick("supervisor") \/ Tick("tool_node")
    /\ status' = "raised"
    /\ UNCHANGED <<node, llm_calls, last, approval_token, gate_decision,
                   supersteps, resumed>>

gate_node ==
    /\ Tick("gate")
    /\ diagnosis_from_state(last)
    /\ require_confidence(last.confidence)
    /\ gate_decision' = gate_diagnosis(last, cap_hit)
    /\ approval_token' = IF gate_decision'.status = "auto_write" THEN Token ELSE NoToken
    /\ node' = should_write(gate_decision')
    /\ supersteps' = supersteps + 1
    /\ UNCHANGED <<status, llm_calls, last, resumed>>

\* The gate swallows the exception and is simply run again.
GateRaises_swallowed ==
    /\ Tick("gate")
    /\ ~(diagnosis_from_state(last) /\ require_confidence(last.confidence))
    /\ UNCHANGED vars

GateRaises ==
    /\ Tick("gate")
    /\ ~(diagnosis_from_state(last) /\ require_confidence(last.confidence))
    /\ status' = "raised"
    /\ UNCHANGED <<node, llm_calls, last, approval_token, gate_decision,
                   supersteps, resumed>>

\* interrupt_before=["write"]: the invoke call returns with the graph paused.
InterruptBefore ==
    /\ Tick("write")
    /\ ~resumed
    /\ status' = "interrupted"
    /\ UNCHANGED <<node, llm_calls, last, approval_token, gate_decision,
                   supersteps, resumed>>

\* A human approved: the caller invokes the checkpointed graph again.
Resume ==
    /\ status = "interrupted"
    /\ status' = "running"
    /\ supersteps' = 0
    /\ resumed' = TRUE
    /\ UNCHANGED <<node, llm_calls, last, approval_token, gate_decision>>

write_node ==
    /\ Tick("write")
    /\ resumed
    /\ node' = "__end__"
    /\ supersteps' = supersteps + 1
    /\ UNCHANGED <<status, llm_calls, last, approval_token, gate_decision, resumed>>

Finish ==
    /\ Tick("__end__")
    /\ status' = "finished"
    /\ UNCHANGED <<node, llm_calls, last, approval_token, gate_decision,
                   supersteps, resumed>>

\* GraphRecursionError
OutOfSteps ==
    /\ status = "running"
    /\ supersteps >= RecursionLimit
    /\ status' = "out_of_steps"
    /\ UNCHANGED <<node, llm_calls, last, approval_token, gate_decision,
                   supersteps, resumed>>

invoke == \/ supervisor_node \/ tool_node \/ CallRaises
          \/ gate_node \/ GateRaises \/ InterruptBefore
          \/ write_node \/ Finish \/ OutOfSteps

Next == invoke \/ Resume

\* graph.invoke is a plain loop in the calling thread: it keeps running.
\* Nobody is obliged to resume a paused graph.
Spec == Init /\ [][Next]_vars /\ WF_vars(invoke)

--------------------------------------------------------------------------------
(* Properties *)

\* A run asks its model at least once, and at most MaxSteps times.
Cap == IF MaxSteps < 1 THEN 1 ELSE MaxSteps

\* Every variable keeps its type (src/state.py TriageState).
TypeOK ==
    /\ node \in Nodes
    /\ status \in Statuses
    /\ llm_calls \in Nat
    /\ last \in Messages
    /\ approval_token \in {Token, NoToken}
    /\ gate_decision \in Decisions
    /\ supersteps \in Nat
    /\ resumed \in BOOLEAN

\* A token exists only for an auto_write decision, and then the run stopped
\* below its cap on a parseable, automatic diagnosis with evidence whose
\* confidence, if it is a number, lies between the threshold and 1.0.
GrantJustified ==
    approval_token = Token =>
        /\ gate_decision.status = "auto_write"
        /\ ~cap_hit
        /\ last.parses /\ last.evidence /\ ~last.manual
        /\ last.confidence # NaN => last.confidence \in Threshold..One

\* The cap bounds the model calls of a run whatever the model answers, and no
\* tool runs once it is reached (should_continue checks it before tool calls).
StepBudget ==
    /\ llm_calls <= Cap
    /\ node = "tool_node" => llm_calls < MaxSteps

\* A granted run reaches its end only through a human: it is never past write
\* without having been resumed, and only a granted run can be resumed.
WriteNeedsHuman ==
    /\ node = "__end__" /\ approval_token = Token => resumed
    /\ resumed => approval_token = Token
    /\ node = "write" => approval_token = Token

\* When LangGraph allows two supersteps per permitted model call, its limit
\* never cuts a run off before the gate has decided: the cap acts first.
GateBeforeLimit ==
    RecursionLimit >= 2 * Cap /\ status = "out_of_steps" => gate_decision # NoDecision

\* Every invoke call ends: in a verdict, a pause or an exception.
InvokeEnds == status = "running" ~> status # "running"

--------------------------------------------------------------------------------
(* Refinement of GovernedRun *)

\* A verdict stands even if the call that reached it runs out of supersteps.
phase ==
    CASE node = "write" -> "granted"
      [] node = "__end__" /\ approval_token = Token -> "written"
      [] node = "__end__" /\ approval_token # Token -> "escalated"
      [] node \notin {"write", "__end__"} /\ status \in {"raised", "out_of_steps"} -> "failed"
      [] OTHER -> "investigating"

Governed == INSTANCE GovernedRun WITH phase <- phase, spent <- llm_calls

\* Each run of the graph is a run of GovernedRun: one verdict, granted only
\* below the cap, written only after a grant.
ImplementsGovernedRun == Governed!GovSpec

--------------------------------------------------------------------------------
(* Statements of the documents that the code does not meet *)

\* "a cap hit always escalates" (docs/TECHNICAL_ARCHITECTURE.md:73): the gate
\* does not raise on a run the cap cut off while its model was still asking for
\* tools instead of giving a diagnosis.
CapHitEscalates ==
    status = "raised" /\ node = "gate" /\ cap_hit =>
        ~message_has_tool_calls(last) \/ last.parses

\* "confidence must be between 0.0 and 1.0" for every confidence granted.
GrantedConfidenceInRange == approval_token = Token => last.confidence \in 0..One
================================================================================
