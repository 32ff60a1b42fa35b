------------------------------ MODULE LlmToolLoop ------------------------------
(* The full LLM investigation loop of scripts/llm_tool_execute_smoke_01.py:    *)
(* the model picks read tools or answers, and a guard sends it back while     *)
(* dependency targets the CMDB named have had no log search.  What the CMDB   *)
(* answers is a parameter of the tool call: LiveToolLoop supplies it.  An     *)
(* operator whose name is another's with a suffix is a slip a change to the   *)
(* code could make; no action uses it.                                        *)
EXTENDS Naturals

CONSTANTS
    Services,
    MAX_TOOL_STEPS,
    MaxCalls,         \* bound: tool calls in one model message
    NoService

ASSUME NoServiceAssumption == NoService \notin Services
ASSUME StepsAssumption == MAX_TOOL_STEPS \in Nat \ {0} /\ MaxCalls \in Nat \ {0}

VARIABLES
    pc,                      \* "model", "tools", "answer", "returned" or "raised"
    step,                    \* the loop variable; MAX_TOOL_STEPS + 1 past the loop
    call,                    \* the tool call of the message at hand
    left,                    \* tool calls after it
    dependency_targets,
    inspected_log_services,
    answered,                \* history: targets some executed dependency query named
    searched                 \* history: services some executed log search was about

conversation == <<dependency_targets, inspected_log_services, answered, searched>>
loopVars == <<pc, step, call, left, conversation>>

--------------------------------------------------------------------------------
(* A call names a tool and, for two of them, the service it is about.  Of the *)
(* other read tools get_ticket and get_recent_deploys touch no investigation  *)
(* state and stand together as "other_read", the two semantic searches as     *)
(* "retrieval"; whatever else a model may name, a write tool included, is     *)
(* "not_read".                                                                *)
ToolCalls == [name : {"search_logs", "get_ci_dependencies"}, service : Services]
             \cup [name : {"other_read", "retrieval", "not_read"}, service : {NoService}]

NoCall == [name |-> "none", service |-> NoService]

uninspected_targets(targets, inspected) == targets \ inspected

require_read_tool == call.name # "not_read"

\* The tools are built over a log store client without an embedding provider,
\* whose semantic searches always raise.
provided == call.name # "retrieval"

\* update_investigation_state, for the services with inspected logs ...
inspected_by_call == IF call.name = "search_logs" THEN {call.service} ELSE {}

targets_with_latest(targets) == targets

\* ... and for the targets dependency_target_names finds in the result.
targets_with(targets) == dependency_targets \cup targets

--------------------------------------------------------------------------------
LoopInit ==
    /\ pc = "model" /\ step = 1
    /\ call = NoCall /\ left = 0
    /\ dependency_targets = {} /\ inspected_log_services = {}
    /\ answered = {} /\ searched = {}

InLoop_one_over == pc = "model" /\ step <= MAX_TOOL_STEPS + 1

InLoop == pc = "model" /\ step <= MAX_TOOL_STEPS

\* The answer asks for tools: a first call and some more, each drawn when it
\* is its turn.
tool_calls ==
    /\ InLoop
    /\ call' \in ToolCalls /\ left' \in 0..MaxCalls - 1
    /\ pc' = "tools"
    /\ UNCHANGED <<step, conversation>>

\* The answer asks for none.
no_tool_calls ==
    /\ InLoop
    /\ pc' = "answer"
    /\ UNCHANGED <<step, call, left, conversation>>

Guarded == /\ uninspected_targets(dependency_targets, inspected_log_services) # {}
           /\ step < MAX_TOOL_STEPS

sent_back_uncounted ==
    /\ pc = "answer"
    /\ Guarded
    /\ pc' = "model"
    /\ UNCHANGED <<step, call, left, conversation>>

\* append_uninspected_targets_message; continue
sent_back ==
    /\ pc = "answer"
    /\ Guarded
    /\ pc' = "model" /\ step' = step + 1
    /\ UNCHANGED <<call, left, conversation>>

\* parse_final_answer decodes an object and the loop returns it, or raises.
final_answer ==
    /\ pc = "answer"
    /\ ~Guarded
    /\ pc' \in {"returned", "raised"}
    /\ UNCHANGED <<step, call, left, conversation>>

\* The API call itself raises (timeout, rate limit).
completion_raises ==
    /\ InLoop
    /\ pc' = "raised"
    /\ UNCHANGED <<step, call, left, conversation>>

NextCall == left > 0 /\ left' = left - 1 /\ call' \in ToolCalls /\ UNCHANGED <<pc, step>>

NextStep == left = 0 /\ pc' = "model" /\ step' = step + 1 /\ call' = NoCall /\ UNCHANGED left

\* One call of the message is checked, executed and recorded; its result names
\* these targets.
tool_call(targets) ==
    /\ pc = "tools"
    /\ require_read_tool /\ provided
    /\ inspected_log_services' = inspected_log_services \cup inspected_by_call
    /\ dependency_targets' = targets_with(targets)
    /\ answered' = answered \cup targets
    /\ searched' = IF call.name = "search_logs" THEN searched \cup {call.service} ELSE searched
    /\ NextCall \/ NextStep

\* require_read_tool refuses the call, its arguments do not decode or fit, or
\* the tool raises; nothing catches it.
tool_raises ==
    /\ pc = "tools"
    /\ pc' = "raised"
    /\ UNCHANGED <<step, call, left, conversation>>

\* The final answer without tools, decoded or raising like the one in the loop.
force_final_answer ==
    /\ pc = "model" /\ step > MAX_TOOL_STEPS
    /\ pc' \in {"returned", "raised"}
    /\ UNCHANGED <<step, call, left, conversation>>

\* A request to the model and what becomes of its answer.
model_turn ==
    \/ tool_calls \/ no_tool_calls \/ sent_back \/ final_answer
    \/ completion_raises \/ force_final_answer

--------------------------------------------------------------------------------
(* Properties *)

\* Every variable of the loop keeps its type.
LoopTypeOK ==
    /\ pc \in {"model", "tools", "answer", "returned", "raised"}
    /\ step \in 1..MAX_TOOL_STEPS + 1
    /\ call \in ToolCalls \cup {NoCall} /\ left \in 0..MaxCalls - 1
    /\ dependency_targets \subseteq Services /\ inspected_log_services \subseteq Services
    /\ answered \subseteq Services /\ searched \subseteq Services

\* Before its last step the loop returns no answer while a target some executed
\* dependency query named has had no executed log search, however often the
\* model insists.
NoEarlyAnswer ==
    pc = "returned" /\ step < MAX_TOOL_STEPS => answered \subseteq searched

\* The loop always ends: the guard cannot send the model back for ever, nor the
\* model ask for tools for ever.
LoopEnds == <>(pc \in {"returned", "raised"})

================================================================================
