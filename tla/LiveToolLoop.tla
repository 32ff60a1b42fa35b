------------------------------ MODULE LiveToolLoop ------------------------------
(* The LLM tool loop over the CMDB in GLPI, which may be empty, half seeded or *)
(* being seeded again while the loop asks: the thread of the loop is the      *)
(* reader of Cmdb.                                                            *)
EXTENDS Cmdb, LlmToolLoop

ASSUME ServicesAssumption == Names \subseteq Services

VARIABLE
    asked  \* history: services asked about once the first seeding was whole

vars == <<cmdbVars, loopVars, asked>>

--------------------------------------------------------------------------------
Init == CmdbInit /\ LoopInit /\ asked = {}

seeding == seed /\ UNCHANGED <<loopVars, asked>>

completion == model_turn /\ UNCHANGED <<cmdbVars, asked>>

AsksCmdb == pc = "tools" /\ call.name = "get_ci_dependencies"

\* Inside ITSMTools.get_ci_dependencies, one request to GLPI.
cmdb_request == AsksCmdb /\ read(call.service) /\ UNCHANGED <<loopVars, asked>>

cmdb_answered ==
    /\ AsksCmdb /\ reader.pc = "answered"
    /\ tool_call(ToSet(reader.answer))
    /\ asked' = IF reader.whole THEN asked \cup {reader.name} ELSE asked
    /\ call_over

other_tool == pc = "tools" /\ ~AsksCmdb /\ tool_call({}) /\ UNCHANGED <<cmdbVars, asked>>

raises == tool_raises /\ call_over /\ UNCHANGED asked

loop == completion \/ cmdb_request \/ cmdb_answered \/ other_tool \/ raises

Next == seeding \/ loop

\* One thread runs the loop, and the clients of Groq, GLPI and Postgres answer
\* or raise.  Nobody has to seed.
Spec == Init /\ [][Next]_vars /\ WF_vars(loop)

--------------------------------------------------------------------------------
(* Properties *)

\* Every variable keeps its type.
TypeOK == CmdbTypeOK /\ LoopTypeOK /\ asked \subseteq Services

\* Once the first seeding has created everything, a later one, finished or not,
\* hides nothing from the loop: its items are shadowed by the first, its
\* relations belong to other ids.  While the lists fit their page, an answer
\* before the last step comes after a log search of every declared dependency
\* of every service the loop asked about.
ChainInspected ==
    /\ pc = "returned" /\ step < MAX_TOOL_STEPS
    /\ Len(SERVICES) <= list_page_size /\ Len(DEPENDENCIES) <= list_page_size
    => UNION {DirectDependencies(s) : s \in asked} \subseteq searched
================================================================================
