--------------------------- MODULE TriageGraphProofs ---------------------------
(* Proofs about TriageGraph for every cap, threshold, set of confidences and  *)
(* superstep limit.                                                           *)
EXTENDS TriageGraph, TLAPS

(* What links the place in the graph to the count of model calls: the cap is  *)
(* tested on the way out of the supervisor, so every later node inherits it.  *)
CallsInv ==
    /\ llm_calls <= Cap
    /\ node = "supervisor" => llm_calls = 0 \/ llm_calls < MaxSteps
    /\ node = "tool_node" => llm_calls < MaxSteps
    /\ node # "supervisor" => llm_calls >= 1

(* What links a token to the decision and the message it was issued for.      *)
GrantInv ==
    /\ approval_token = Token <=> gate_decision.status = "auto_write"
    /\ node \in {"supervisor", "tool_node", "gate"} => approval_token = NoToken
    /\ node \in {"write", "__end__"} => gate_decision.status \in {"auto_write", "escalate"}
    /\ GrantJustified

(* Who may be where: only a granted run is paused, resumed or past a pause.   *)
PauseInv ==
    /\ WriteNeedsHuman
    /\ resumed => node \in {"write", "__end__"}
    /\ status = "interrupted" => node = "write" /\ ~resumed

(* The superstep count is a function of the node and of llm_calls.            *)
SuperstepInv ==
    /\ node = "supervisor" => supersteps = 2 * llm_calls
    /\ node \in {"tool_node", "gate"} => supersteps = 2 * llm_calls - 1
    /\ node \in {"write", "__end__"} /\ ~resumed => supersteps = 2 * llm_calls
    /\ node = "write" /\ resumed => supersteps = 0
    /\ node = "__end__" /\ resumed => supersteps = 1

(* The limit stops a run only when it is used up.                             *)
LimitInv == status = "out_of_steps" => supersteps >= RecursionLimit

IInv == CallsInv /\ GrantInv /\ PauseInv /\ SuperstepInv /\ LimitInv

--------------------------------------------------------------------------------
\* The cap on model calls is at least one and no less than the step cap.
LEMMA CapFacts == Cap \in Int /\ Cap >= 1 /\ MaxSteps <= Cap
  BY MaxStepsAssumption DEF Cap

\* gate_diagnosis only ever returns a decision, and grants only a confidence
\* that is not below the threshold, a diagnosis that is not uncertain and a run
\* that has not hit its cap.
LEMMA GateDecides ==
  ASSUME NEW m \in Messages, NEW hit \in BOOLEAN
  PROVE  /\ gate_diagnosis(m, hit) \in Decisions
         /\ gate_diagnosis(m, hit).status \in {"auto_write", "escalate"}
         /\ gate_diagnosis(m, hit).status = "auto_write" =>
               ~hit /\ ~m.manual /\ ~LessThan(m.confidence, Threshold)
  BY DEF gate_diagnosis, escalation_decision, diagnosis_is_uncertain, Decisions

\* A confidence that passes both comparisons of the gate is NaN or in range.
LEMMA ConfidenceInRange ==
  ASSUME NEW c \in Confidences, require_confidence(c), ~LessThan(c, Threshold), c # NaN
  PROVE  c \in Threshold..One
  BY ThresholdAssumption, ConfidenceAssumption DEF require_confidence, LessThan

\* Type correctness.
THEOREM TypeCorrect == Spec => []TypeOK
<1>1. Init => TypeOK
  <2>1. NoDecision \in Decisions
    BY DEF NoDecision, Decisions
  <2>2. Opaque \subseteq Messages
    BY DEF Opaque
  <2>3. Init => node \in Nodes /\ status \in Statuses /\ resumed \in BOOLEAN
    BY Zenon DEF Init, Nodes, Statuses
  <2>4. Init => llm_calls \in Nat /\ supersteps \in Nat
    BY DEF Init, initial_triage_state
  <2>5. Init => last \in Messages /\ approval_token \in {Token, NoToken}
    BY <2>2 DEF Init, initial_triage_state
  <2>6. Init => gate_decision \in Decisions
    BY <2>1 DEF Init, initial_triage_state
  <2> QED
    BY <2>3, <2>4, <2>5, <2>6 DEF TypeOK
<1>2. TypeOK /\ [Next]_vars => TypeOK'
  <2> SUFFICES ASSUME TypeOK, [Next]_vars PROVE TypeOK'
    OBVIOUS
  <2> USE DEF TypeOK, Nodes, Statuses
  <2>1. CASE supervisor_node
    BY <2>1 DEF supervisor_node, should_continue, Tick
  <2>2. CASE tool_node
    BY <2>2 DEF tool_node, Opaque, Tick
  <2>3. CASE CallRaises
    BY <2>3 DEF CallRaises
  <2>4. CASE gate_node
    <3>1. cap_hit \in BOOLEAN
      BY DEF cap_hit
    <3>2. gate_decision' \in Decisions
      BY <2>4, <3>1, GateDecides DEF gate_node
    <3> QED
      BY <2>4, <3>2 DEF gate_node, should_write, Tick
  <2>5. CASE GateRaises
    BY <2>5 DEF GateRaises
  <2>6. CASE InterruptBefore
    BY <2>6 DEF InterruptBefore
  <2>7. CASE write_node
    BY <2>7 DEF write_node
  <2>8. CASE Finish
    BY <2>8 DEF Finish
  <2>9. CASE OutOfSteps
    BY <2>9 DEF OutOfSteps
  <2>10. CASE Resume
    BY <2>10 DEF Resume
  <2>11. CASE UNCHANGED vars
    BY <2>11 DEF vars
  <2> QED
    BY <2>1, <2>2, <2>3, <2>4, <2>5, <2>6, <2>7, <2>8, <2>9, <2>10, <2>11
    DEF Next, invoke
<1> QED
  BY <1>1, <1>2, PTL DEF Spec

--------------------------------------------------------------------------------
\* A run starts before its first model call.
LEMMA InitIInv == Init => IInv
  BY CapFacts, TokenAssumption
  DEF Init, initial_triage_state, IInv, CallsInv, GrantInv, GrantJustified, PauseInv,
      WriteNeedsHuman, SuperstepInv, LimitInv, NoDecision

\* The steps that only change what the invoke call is doing.
LEMMA StatusStep ==
  ASSUME TypeOK, IInv, status' \in {"raised", "finished", "running"},
         UNCHANGED <<node, llm_calls, last, approval_token, gate_decision,
                     supersteps, resumed>>
  PROVE  IInv'
  BY DEF IInv, CallsInv, GrantInv, GrantJustified, cap_hit, PauseInv, WriteNeedsHuman,
         SuperstepInv, LimitInv

\* Each node and each action of LangGraph keeps the invariant.
LEMMA StepIInv == TypeOK /\ IInv /\ [Next]_vars => IInv'
<1> SUFFICES ASSUME TypeOK, IInv, [Next]_vars PROVE IInv'
  OBVIOUS
<1> USE DEF TypeOK, Nodes
<1>1. CASE supervisor_node
  <2> USE <1>1 DEF supervisor_node, Tick
  <2>1. node' = should_continue(llm_calls + 1, last') /\ llm_calls' = llm_calls + 1
    OBVIOUS
  <2>2. node' \in {"tool_node", "gate"} /\ (node' = "tool_node" => llm_calls + 1 < MaxSteps)
    BY <2>1 DEF should_continue
  <2>3. CallsInv'
    BY <2>2, CapFacts, MaxStepsAssumption DEF IInv, CallsInv, Cap
  <2>4. GrantInv'
    BY <2>2, TokenAssumption DEF IInv, GrantInv, GrantJustified
  <2>5. PauseInv'
    BY <2>2, TokenAssumption DEF IInv, PauseInv, GrantInv, WriteNeedsHuman
  <2>6. SuperstepInv'
    BY <2>2 DEF IInv, SuperstepInv
  <2>7. LimitInv'
    BY DEF LimitInv
  <2> QED
    BY <2>3, <2>4, <2>5, <2>6, <2>7 DEF IInv
<1>2. CASE tool_node
  <2> USE <1>2 DEF tool_node, Tick
  <2>1. CallsInv'
    BY DEF IInv, CallsInv, Cap
  <2>2. GrantInv'
    BY TokenAssumption DEF IInv, GrantInv, GrantJustified
  <2>3. PauseInv'
    BY DEF IInv, PauseInv, WriteNeedsHuman
  <2>4. SuperstepInv'
    BY DEF IInv, SuperstepInv
  <2>5. LimitInv'
    BY DEF LimitInv
  <2> QED
    BY <2>1, <2>2, <2>3, <2>4, <2>5 DEF IInv
<1>3. CASE CallRaises
  BY <1>3, StatusStep DEF CallRaises
<1>4. CASE gate_node
  <2> USE <1>4 DEF gate_node, Tick
  <2>0. cap_hit \in BOOLEAN
    BY DEF cap_hit
  <2>1. /\ gate_decision'.status \in {"auto_write", "escalate"}
        /\ gate_decision'.status = "auto_write" =>
              ~cap_hit /\ ~last.manual /\ ~LessThan(last.confidence, Threshold)
    BY <2>0, GateDecides
  <2>2. /\ node' = "write" <=> gate_decision'.status = "auto_write"
        /\ node' \in {"write", "__end__"}
    BY DEF should_write
  <2>3. CallsInv'
    BY <2>2 DEF IInv, CallsInv, Cap
  <2>4. approval_token' = Token <=> gate_decision'.status = "auto_write"
    BY TokenAssumption
  <2>5. gate_decision'.status = "auto_write" =>
            last.confidence = NaN \/ last.confidence \in Threshold..One
    BY <2>1, ConfidenceInRange DEF Messages
  <2>6. GrantInv'
    BY <2>1, <2>2, <2>4, <2>5
    DEF IInv, GrantInv, GrantJustified, cap_hit, diagnosis_from_state
  <2>7. PauseInv'
    BY <2>2, <2>4, TokenAssumption DEF IInv, PauseInv, GrantInv, WriteNeedsHuman
  <2>8. SuperstepInv'
    BY <2>2 DEF IInv, SuperstepInv, PauseInv
  <2>9. LimitInv'
    BY DEF LimitInv
  <2> QED
    BY <2>3, <2>6, <2>7, <2>8, <2>9 DEF IInv
<1>5. CASE GateRaises
  BY <1>5, StatusStep DEF GateRaises
<1>6. CASE InterruptBefore
  BY <1>6 DEF InterruptBefore, Tick, IInv, CallsInv, GrantInv, GrantJustified, cap_hit,
              PauseInv, WriteNeedsHuman, SuperstepInv, LimitInv
<1>7. CASE write_node
  BY <1>7 DEF write_node, Tick, IInv, CallsInv, GrantInv, GrantJustified, cap_hit,
              PauseInv, WriteNeedsHuman, SuperstepInv, LimitInv
<1>8. CASE Finish
  BY <1>8, StatusStep DEF Finish
<1>9. CASE OutOfSteps
  BY <1>9 DEF OutOfSteps, IInv, CallsInv, GrantInv, GrantJustified, cap_hit,
              PauseInv, WriteNeedsHuman, SuperstepInv, LimitInv
<1>10. CASE Resume
  BY <1>10 DEF Resume, IInv, CallsInv, GrantInv, GrantJustified, cap_hit,
               PauseInv, WriteNeedsHuman, SuperstepInv, LimitInv
<1>11. CASE UNCHANGED vars
  BY <1>11 DEF vars, IInv, CallsInv, GrantInv, GrantJustified, cap_hit,
               PauseInv, WriteNeedsHuman, SuperstepInv, LimitInv
<1> QED
  BY <1>1, <1>2, <1>3, <1>4, <1>5, <1>6, <1>7, <1>8, <1>9, <1>10, <1>11
  DEF Next, invoke

\* So does every run.
LEMMA Inductive == Spec => []IInv
<1>1. Init => IInv
  BY InitIInv
<1>2. TypeOK /\ IInv /\ [Next]_vars => IInv'
  BY StepIInv
<1> QED
  BY <1>1, <1>2, TypeCorrect, PTL DEF Spec

\* An issued token is always backed by the diagnosis it was issued for.
THEOREM GrantAlwaysJustified == Spec => []GrantJustified
<1>1. IInv => GrantJustified
  BY DEF IInv, GrantInv
<1> QED
  BY <1>1, Inductive, PTL

\* What the gate's range check lets through.
OnlyNaNEscapes ==
    approval_token = Token => last.confidence = NaN \/ last.confidence \in 0..One

\* A confidence that passes its comparisons is NaN or a proportion.
LEMMA CheckedConfidence ==
  ASSUME NEW c \in Confidences, require_confidence(c)
  PROVE  c = NaN \/ c \in 0..One
  BY ThresholdAssumption, ConfidenceAssumption DEF require_confidence, LessThan

\* "confidence must be between 0.0 and 1.0" fails for NaN only, and only if
\* float() may return it: the one hole in require_confidence, whatever the
\* threshold, a negative one included.
THEOREM NaNAloneEscapes ==
  /\ Spec => []OnlyNaNEscapes
  /\ NaN \notin Confidences => (Spec => []GrantedConfidenceInRange)
<1>1. Init => OnlyNaNEscapes
  BY TokenAssumption DEF Init, initial_triage_state, OnlyNaNEscapes
<1>2. TypeOK /\ IInv /\ OnlyNaNEscapes /\ [Next]_vars => OnlyNaNEscapes'
  <2> SUFFICES ASSUME TypeOK, IInv, OnlyNaNEscapes, [Next]_vars, approval_token' = Token
               PROVE  last'.confidence = NaN \/ last'.confidence \in 0..One
    BY DEF OnlyNaNEscapes
  <2>1. CASE gate_node
    BY <2>1, CheckedConfidence DEF gate_node, TypeOK, Messages
  <2>2. CASE supervisor_node \/ tool_node
    <3>1. approval_token = NoToken /\ approval_token' = approval_token
      BY <2>2 DEF supervisor_node, tool_node, Tick, IInv, GrantInv
    <3> QED
      BY <3>1, TokenAssumption
  <2>3. CASE \/ CallRaises \/ GateRaises \/ InterruptBefore \/ write_node \/ Finish
             \/ OutOfSteps \/ Resume \/ UNCHANGED vars
    <3>1. last' = last /\ approval_token' = approval_token
      BY <2>3 DEF CallRaises, GateRaises, InterruptBefore, write_node, Finish, OutOfSteps,
                  Resume, vars
    <3> QED
      BY <3>1 DEF OnlyNaNEscapes
  <2> QED
    BY <2>1, <2>2, <2>3 DEF Next, invoke
<1>3. Spec => []OnlyNaNEscapes
  BY <1>1, <1>2, TypeCorrect, Inductive, PTL DEF Spec
<1>4. ASSUME NaN \notin Confidences PROVE Spec => []GrantedConfidenceInRange
  <2>1. TypeOK /\ OnlyNaNEscapes => GrantedConfidenceInRange
    BY <1>4 DEF TypeOK, Messages, OnlyNaNEscapes, GrantedConfidenceInRange
  <2> QED
    BY <1>3, <2>1, TypeCorrect, PTL
<1> QED
  BY <1>3, <1>4

\* No invoke call uses more supersteps than LangGraph's limit.
WithinLimit == supersteps <= RecursionLimit

\* A step of an invoke call uses a superstep or ends the call; only a paused
\* graph is invoked again, and only once.
InvokeAdvances ==
    [][IF status = "running"
       THEN supersteps' = supersteps + 1 \/ status' # "running"
       ELSE status = "interrupted" /\ ~resumed /\ resumed']_vars

\* The safety half of InvokeEnds: graph.invoke has a bounded number of steps.
THEOREM InvokeIsFinite == Spec => []WithinLimit /\ InvokeAdvances
<1>1. Init => WithinLimit
  BY RecursionAssumption DEF Init, WithinLimit
<1>2. TypeOK /\ WithinLimit /\ [Next]_vars => WithinLimit'
  <2> SUFFICES ASSUME TypeOK, WithinLimit, [Next]_vars PROVE WithinLimit'
    OBVIOUS
  <2>1. CASE supervisor_node \/ tool_node \/ gate_node \/ write_node
    BY <2>1, RecursionAssumption
    DEF supervisor_node, tool_node, gate_node, write_node, Tick, TypeOK, WithinLimit
  <2>2. CASE CallRaises \/ GateRaises \/ InterruptBefore \/ Finish \/ OutOfSteps \/ UNCHANGED vars
    BY <2>2 DEF CallRaises, GateRaises, InterruptBefore, Finish, OutOfSteps, vars, WithinLimit
  <2>3. CASE Resume
    BY <2>3, RecursionAssumption DEF Resume, WithinLimit
  <2> QED
    BY <2>1, <2>2, <2>3 DEF Next, invoke
<1>3. IInv /\ Next =>
        IF status = "running"
        THEN supersteps' = supersteps + 1 \/ status' # "running"
        ELSE status = "interrupted" /\ ~resumed /\ resumed'
  <2> SUFFICES ASSUME IInv, Next
               PROVE  IF status = "running"
                      THEN supersteps' = supersteps + 1 \/ status' # "running"
                      ELSE status = "interrupted" /\ ~resumed /\ resumed'
    OBVIOUS
  <2>1. CASE supervisor_node \/ tool_node \/ gate_node \/ write_node
    BY <2>1 DEF supervisor_node, tool_node, gate_node, write_node, Tick
  <2>2. CASE CallRaises \/ GateRaises \/ InterruptBefore \/ Finish \/ OutOfSteps
    BY <2>2 DEF CallRaises, GateRaises, InterruptBefore, Finish, OutOfSteps, Tick
  <2>3. CASE Resume
    BY <2>3 DEF Resume, IInv, PauseInv
  <2> QED
    BY <2>1, <2>2, <2>3 DEF Next, invoke
<1>4. Spec => []WithinLimit
  BY <1>1, <1>2, TypeCorrect, PTL DEF Spec
<1>5. Spec => InvokeAdvances
  BY <1>3, Inductive, PTL DEF Spec, InvokeAdvances
<1> QED
  BY <1>4, <1>5

\* The cap bounds model calls and tool steps whatever the model answers.
THEOREM StepBudgetHolds == Spec => []StepBudget
<1>1. IInv => StepBudget
  BY DEF IInv, CallsInv, StepBudget
<1> QED
  BY <1>1, Inductive, PTL

\* A granted run passes the write node only after a human resumed it.
THEOREM WriteAlwaysNeedsHuman == Spec => []WriteNeedsHuman
<1>1. IInv => WriteNeedsHuman
  BY DEF IInv, PauseInv
<1> QED
  BY <1>1, Inductive, PTL

\* With two supersteps per permitted model call LangGraph's limit never stops
\* an undecided run.
THEOREM CapActsFirst == Spec => []GateBeforeLimit
<1>1. TypeOK /\ IInv => GateBeforeLimit
  <2> SUFFICES ASSUME TypeOK, IInv, RecursionLimit >= 2 * Cap, status = "out_of_steps",
                      gate_decision = NoDecision
               PROVE  FALSE
    BY DEF GateBeforeLimit
  <2>1. node \in {"supervisor", "tool_node", "gate"}
    BY DEF IInv, GrantInv, TypeOK, Nodes, NoDecision
  <2>2. supersteps < 2 * Cap
    BY <2>1, CapFacts, MaxStepsAssumption DEF IInv, CallsInv, SuperstepInv, TypeOK
  <2> QED
    BY <2>2, CapFacts, RecursionAssumption DEF IInv, LimitInv, TypeOK
<1> QED
  BY <1>1, Inductive, TypeCorrect, PTL

--------------------------------------------------------------------------------
\* Every step of the graph is a step GovernedRun allows.
LEMMA StepGoverned ==
  ASSUME TypeOK, IInv, [Next]_vars
  PROVE  [Governed!GovNext]_(Governed!govVars)
<1> USE DEF TypeOK, Nodes, Statuses
<1>1. CASE supervisor_node
  <2>1. phase = "investigating" /\ phase' = "investigating"
    BY <1>1 DEF supervisor_node, Tick, phase, should_continue
  <2>2. llm_calls' = llm_calls + 1 /\ llm_calls < Cap
    BY <1>1, CapFacts, MaxStepsAssumption DEF supervisor_node, Tick, IInv, CallsInv
  <2> QED
    BY <2>1, <2>2 DEF Governed!GovNext, Governed!Investigation, Governed!AskModel
<1>2. CASE tool_node
  <2> QED
    BY <1>2 DEF tool_node, Tick, phase, Governed!govVars
<1>3. CASE CallRaises
  <2>1. phase = "investigating" /\ phase' = "failed" /\ llm_calls' = llm_calls
    BY <1>3 DEF CallRaises, Tick, phase
  <2> QED
    BY <2>1 DEF Governed!GovNext, Governed!Investigation, Governed!Fail
<1>4. CASE gate_node
  <2>1. /\ phase = "investigating" /\ llm_calls' = llm_calls
        /\ status' = "running" /\ node' = should_write(gate_decision')
    BY <1>4 DEF gate_node, Tick, phase
  <2>2. CASE gate_decision'.status = "auto_write"
    <3>1. phase' = "granted"
      BY <2>1, <2>2 DEF phase, should_write
    <3>2. cap_hit \in BOOLEAN
      BY DEF cap_hit
    <3>3. ~cap_hit
      BY <1>4, <2>2, <3>2, GateDecides DEF gate_node
    <3>4. llm_calls \in 1..MaxSteps - 1
      BY <1>4, <3>3, MaxStepsAssumption DEF cap_hit, gate_node, Tick, IInv, CallsInv
    <3> QED
      BY <2>1, <3>1, <3>4 DEF Governed!GovNext, Governed!Investigation, Governed!Grant
  <2>3. CASE gate_decision'.status # "auto_write"
    <3>1. phase' = "escalated"
      BY <1>4, <2>1, <2>3, TokenAssumption DEF gate_node, phase, should_write
    <3>2. llm_calls > 0
      BY <1>4 DEF gate_node, Tick, IInv, CallsInv
    <3> QED
      BY <2>1, <3>1, <3>2 DEF Governed!GovNext, Governed!Investigation, Governed!Escalate
  <2> QED
    BY <2>2, <2>3
<1>5. CASE GateRaises
  <2>1. phase = "investigating" /\ phase' = "failed" /\ llm_calls' = llm_calls
    BY <1>5 DEF GateRaises, Tick, phase
  <2> QED
    BY <2>1 DEF Governed!GovNext, Governed!Investigation, Governed!Fail
<1>6. CASE InterruptBefore
  BY <1>6 DEF InterruptBefore, Tick, phase, Governed!govVars
<1>7. CASE write_node
  <2>1. phase = "granted" /\ llm_calls' = llm_calls
    BY <1>7 DEF write_node, Tick, phase
  <2>2. phase' = "written"
    BY <1>7 DEF write_node, Tick, phase, IInv, PauseInv, WriteNeedsHuman
  <2> QED
    BY <2>1, <2>2 DEF Governed!GovNext, Governed!Release
<1>8. CASE Finish
  BY <1>8 DEF Finish, Tick, phase, Governed!govVars
<1>9. CASE OutOfSteps
  <2>1. CASE node \in {"write", "__end__"}
    BY <1>9, <2>1 DEF OutOfSteps, phase, Governed!govVars
  <2>2. CASE node \notin {"write", "__end__"}
    <3>1. phase = "investigating" /\ phase' = "failed" /\ llm_calls' = llm_calls
      BY <1>9, <2>2 DEF OutOfSteps, phase
    <3> QED
      BY <3>1 DEF Governed!GovNext, Governed!Investigation, Governed!Fail
  <2> QED
    BY <2>1, <2>2
<1>10. CASE Resume
  BY <1>10 DEF Resume, IInv, PauseInv, phase, Governed!govVars
<1>11. CASE UNCHANGED vars
  BY <1>11 DEF vars, phase, Governed!govVars
<1> QED
  BY <1>1, <1>2, <1>3, <1>4, <1>5, <1>6, <1>7, <1>8, <1>9, <1>10, <1>11
  DEF Next, invoke

\* The graph keeps every safety promise of GovernedRun, whatever LangGraph's
\* limit: one verdict per run, granted only below the cap, written only after
\* a grant.
THEOREM GraphImplementsGovernedRun == Spec => Governed!GovSafe
<1>1. Init => Governed!GovInit
  BY DEF Init, initial_triage_state, phase, Governed!GovInit
<1>2. TypeOK /\ IInv /\ [Next]_vars => [Governed!GovNext]_(Governed!govVars)
  BY StepGoverned
<1> QED
  BY <1>1, <1>2, TypeCorrect, Inductive, PTL DEF Spec, Governed!GovSafe
================================================================================
