# Incident triage agent: formal models

TLA+ models of the incident triage agent, the TLC runs that check them and the
TLAPS proofs about them. Paths are relative to the repository root; a name in
`code font` is a name of the source or of a module here.

    tlc -workers 2 -config TriageGraph.cfg MCTriageGraph     # one run
    tlapm TriageGraphProofs.tla                              # one module's proofs

`PROJECT.json` lists the runs, ties every definition to the lines it models, and
lists the hazards, the mutants that show each property can fail, and the theorems.

## 1. Inventory

### The parts, their state and how they interact

| Part | Source | State it keeps | Operations |
|---|---|---|---|
| Supervisor graph | `src/graph.py`, `src/state.py` | `TriageState` (messages, `llm_calls`, `approval_token`, `gate_decision`), held by a LangGraph checkpointer | supervisor, tool node, gate, write; routes `should_continue`, `should_write`; interrupt before write |
| Confidence gate | `src/gate.py` | none; issues the approval token | `gate_state`, `gate_diagnosis`, the parsing they rest on |
| HTTP API, registry, dispatcher | `src/api.py`, `src/ingestion.py` | run ids by alert fingerprint, known ids, approvers; a thread pool and its queue, all in memory | `POST /webhooks/incident`, `POST /runs/{id}/approve`, `GET /runs/{id}` |
| Runtime | `src/runtime.py`, `src/tracing.py` | the batch span processor's buffer | `DemoIncidentHandler`, lifespan shutdown |
| Scripted incident | `src/gld_001.py` | one run of the graph with a planned model; an `InMemorySaver` per call | `run_gld001`, `run_traced_gld001`, traced tools |
| Run audit | `src/audit.py` | none; reads Phoenix in two queries | `PhoenixRunAuditReader.get_run` |
| GLPI client | `src/clients/glpi.py` | `session_token`, opened lazily, shared by threads | ticket and CMDB reads, `update_ticket`, `close_ticket`, `kill_session` |
| CMDB seeding | `scripts/seed_cmdb.py` | ids it was answered, in memory; everything else in GLPI | `main` |
| LLM tool loop | `scripts/llm_tool_execute_smoke_01.py` | conversation, dependency targets, inspected services | `create_traced_tool_execution` |
| Chaos harness | `chaos/harness.py` | the walk's local variables | `DependencyInvestigator.investigate` |
| Evaluation harness | `evals/harness.py` | counters of `evaluate` | `write_report`: `evaluate`, `alerted_service_baseline` |
| Toy services | `services/` | a fault switch and two counters per service; the traffic thread | verify, charge, fault, recover, stop |
| Log store scripts | `scripts/generate_logs.py`, `scripts/seed_runbooks.py` | one Postgres transaction each; the tables `logs`, `past_incidents`, `runbooks` | load logs and incidents; rebuild the embedding columns |
| Log store, observability and retrieval tools | `src/clients/logstore.py`, `src/mcp/observability.py`, `src/mcp/itsm.py`, `src/embeddings.py` | none: a statement and a connection per call | log search, error rate, vector searches |
| MCP registration, config, prompts, protocols, deployment files | `src/mcp/*_server.py`, `src/config.py`, ... | none | not modelled |

The webhook thread reserves a run under the registry's lock and enqueues it after
releasing it; a pool thread executes the handler, which opens the root span and
invokes the graph; tool spans and the root span go through the exporter's buffer
to Phoenix; the audit endpoint sees a run only through what Phoenix stored. The
graph's tools call the GLPI client from threads; the CMDB answers with what the
seeding script put there, and logs, past incidents and runbooks are what the two
log store scripts last committed. The toy services produce the alert in the first place.

### What is hard here

* Concurrency: handler threads around the unlocked gap between reserve and
  enqueue, two pool threads, the exporter thread, several threads inside one GLPI
  client, requests that outlive a timed-out caller, a stop that races a post.
* Failure: a crash at any point with all of the service in memory, lost span
  batches, lost HTTP responses after the server acted, sessions GLPI ends on its
  own, a seeding script that dies half way, scripts that deadlock inside Postgres.
* Order and boundaries: the step cap against LangGraph's superstep limit, the
  guard that yields at the last step, drain before flush, the two audit queries,
  one page of a list, NaN in a comparison, a search limit that hides the newest
  lines, a reload that leaves the vector index empty.

The hazards, each at its line, are in `PROJECT.json`.

### What makes each part correct

Graph and gate: a token only for a justified diagnosis below the cap, bounded
model calls, no way past the write without a human. Service: one run per alert,
each accepted run in exactly one place until it ends, nothing accepted is left
behind by an orderly stop, audits that never change their verdict. Audit:
complete but for lost spans. GLPI client: reported writes exist, failed ones do
not unless a response was lost, no session leaks in single-threaded use. CMDB:
only declared dependencies, in the declared direction. Tool loop: no early
answer, and every declared dependency inspected once the CMDB is whole. Log
store: only whole loads, one index by one model, answers that agree. Harnesses: trails that obey the causal rule, reports
that cover their cases, a baseline scored as what it is. Toy services: the
victim's failures are explained by its dependency; stop stops.

## 2. Modules

| Module | Models | Composition |
|---|---|---|
| `GovernedRun` | abstract: bounded model calls, one verdict, a human before the write | implemented by `TriageGraph` |
| `TriageGraph` | graph, state and gate under LangGraph's superstep loop | |
| `RunLedger` | abstract: what the service promises for each accepted alert | implemented by `IncidentService` |
| `IncidentService` | API, registry, pool, handler, exporter, shutdown, crash, restart, audit status | composes these around one Phoenix |
| `AuditTrail` | scripted run, its spans, export, the two audit queries | detailed view of what `IncidentService` abstracts to a root span |
| `GlpiClient` | session and writes of the client, shared by threads | |
| `Cmdb` | seeding script and dependency query over one GLPI | |
| `LlmToolLoop` | the loop of the full LLM investigation | |
| `LiveToolLoop` | the loop asking a CMDB that is being seeded | composes `Cmdb` and `LlmToolLoop`, which have no `Spec` of their own |
| `LogStore` | the two log store scripts, Postgres's locks, the reading tools | |
| `CausalTrail` | services, trails and the causal-trail rule of the evaluation | shared by the next two, and so relates the two harnesses |
| `Investigation` | chaos investigator, judged by that rule | |
| `EvalHarness` | `write_report`: the candidate's evaluation, then the baseline's | |
| `ToyServices` | auth-service, payment-api, the traffic thread | |
| `MC*` | instances for TLC | extend theirs |
| `*Proofs` | theorems about `TriageGraph`, `IncidentService`, `AuditTrail`, `GlpiClient`, `LiveToolLoop` (with `Cmdb` and `LlmToolLoop`), `LogStore` and `ToyServices`, each in a module of its name; `HarnessProofs`: about `Investigation` and `EvalHarness` | extend theirs |

An operator whose name is another's with a suffix (`gate_diagnosis_ignoring_cap`)
is a slip a change to the code could make. No action uses it; the mutants of
`PROJECT.json` put it in place of the original to show that a property would
notice.

### How state and actions correspond to the code

**TriageGraph.** `node` is what LangGraph executes next; one action is one
superstep of `graph.invoke`. `last` is `messages[-1]`, the only message the
routes and the gate read, as a record of what they can tell apart: whether it
requests tools, whether its content decodes to a mapping with the required
fields, whether its evidence is non-empty, its confidence and whether
`next_action` names manual work. Confidences are hundredths plus a `NaN` that
compares false with everything. `supervisor_node`, `tool_node`, `gate_node` and
`write_node` are the nodes with the edge that leaves them; `CallRaises` and
`GateRaises` are the exceptions of the model, a tool and the gate's parsing;
`InterruptBefore`, `Resume`, `Finish` and `OutOfSteps` are LangGraph's.

**IncidentService.** `reserve_new`, `reserve_existing` and `enqueue` are the
webhook around the registry's lock; the payload is normalized by
`alert_from_alertmanager` (`strip` is a table of the texts in use). Run ids are
numbered in the order uuid4 draws them, which is all that randomness matters
for. `start_run`, `reject_run`, `tool_call`, `graph_pauses`, `finish_run` and
`fail_run` are the handler on a pool thread; `export_batch` and `lifespan_ends`
empty the exporter's buffer to Phoenix or lose the batch; `crash` clears
everything in memory. `outcome`, `answers` and `dropped` are histories.

**AuditTrail.** Every command-line run of the incident carries the same run id,
so one id may name several traces. The planned calls are those of
`planned_message`; a span carries what the audit reads. Spans leave a process in
the order they end, in batches (`export`), and `find_run_span` and `get_run` are
the two queries with anything in between. A span's start is its place in its
trace, so `ordered`, the sort by start time, lists a set of spans by how many of
them start earlier.

**GlpiClient.** A call goes from `begin` through `_headers` (`check_session`,
`init_session`, `headers`, which reads the shared token twice) to the request.
`serve` and `refused` are GLPI's side, `response`, `timeout` and `init_lost` what
reaches the caller, `expire` GLPI ending a session. Writes require a non-empty
approval token, so calls without one never get past `require_approval_token`.

**Cmdb.** One action per request of `seed_cmdb.py` and of
`get_ci_dependencies`. GLPI numbers what it creates and lists it in that order
(external), one page of it: `Page` is the set of positions shown, and
`list_relations` takes those of the item asked about (`own_relations`) in
increasing order.

**LlmToolLoop.** One action per completion and per tool call of a message; a call
of a message is drawn when it is its turn, since nothing looks at it before. What
the CMDB answers is the parameter of `tool_call`. A message without calls
(`no_tool_calls`) is either sent back by the guard, which uses up a step
(`sent_back`), or decoded and returned (`final_answer`). `force_final_answer` is the
request after the loop.

**LiveToolLoop.** The loop's thread is the reader of `Cmdb`: `cmdb_request` is a
request inside `get_ci_dependencies`, `cmdb_answered` the end of that tool call,
`raises` its end by an exception, which nothing catches. `seeding` is the script,
at any moment.

**LogStore.** A script is one transaction: `txn[p].pc` is its next statement,
`own` the tables as it sees them, `held` its locks, and `commit` publishes. Lines
are dated back from the `NOW` of the process, which is what a reload changes: the
generator's seed is fixed, so the corpus is a constant. After its commit the
generator reads its report back, holding `logs` against the next TRUNCATE until it
closes (`count_levels`, `count_errors`). A log search asks for any level or none and
a keyword or none (`asked`); which messages a keyword matches is a field of the
line. A vector stands for the load its text came from and the model that made it.
`reset` and `update` are one UPDATE, which locks the table before it locks rows.
Locks, waiting and deadlock detection are Postgres's (external); who of several
waiting goes first is left open. A tool call is one statement; which rows are nearest
to a question is left open. Models of equal dimensions, whose vectors pgvector would
compare with each other, are assumed away.

**Investigation.** One action per pass of the loop; the scenario is chosen
initially and fixed. `unhealthy_dependencies` is the set of positions of a
service's dependencies that are not healthy, and the walk goes on to the first.
`root` is the last unhealthy service walked, which the harness compares with the
expected one.

**EvalHarness.** `write_report` calls `evaluate` for the frozen runs and, when that
returns (`candidate_scored`), for runs made by `alerted_service_baseline`: `runs`,
`scored` and `tally` are the local variables of the call at hand, `metrics` what the
calls returned. `check_ids` compares the ids, `score_next` is one pass of the loop
with all its counters, `finish_raises` the division by an empty set of cases. The
counters that are divided are kept, the means they are divided into left out.

**ToyServices.** Reading the fault flag and counting the outcome are the two
critical sections of `VerifyEndpoint`; verification and charge outlive callers
that gave up; `post` and `loop` of the traffic thread are separate, as the check of
the stop event and the post are.

## 3. Runs

| Run | Asks | Bounds, and why they are enough |
|---|---|---|
| `triage` | is every grant justified, is the cap kept, does a write need a human, does the gate act before LangGraph's limit, does every call end; is the graph a `GovernedRun` | shipped cap 15 and threshold 0.80, a confidence below, at and above each bound and NaN; limit 30, the smallest for which the cap is promised to act first |
| `service` | are runs neither lost nor doubled; are ids stable, stops clean and verdicts final; does a pause become visible; is the service a `RunLedger` | two handler threads, two workers, three posts, three ids, one restart: a retry inside the gap, both workers busy, a crash with each place occupied |
| `audit` | are audits complete but for lost spans, final, and backed by the evidence for an approval | two traces under one id, one lost batch, crashes at will, all five planned calls |
| `glpi` | do reported writes exist, do failed ones not, does single-threaded use leak no session | two threads, four calls: an open, a kill and two more around them |
| `live_loop` | are CMDB answers declared dependencies, once each; does the loop hold back early answers, inspect every declared dependency of what it asked about once a first seeding was whole, and end | three services with a fork and a chain, two seedings, one refusal, a page of four: the lists outgrow it in the second seeding; five steps, enough to ask, be sent back, inspect two targets and reach the last step; two calls per message |
| `logstore` | are committed tables whole loads, do log search and error rate agree, do vector searches find what is indexed, do scripts end | two processes, three script runs: a load, a seeding and one that undoes or repeats either, a deadlock of two and one after it; two models; five lines: at both ends of the window, before it, after it and of another service, two of them of one instant and two picked by the keyword; every level, with and without the keyword, limits below and above what there is. One instant suffices: a rerun at another would see the same lines elsewhere around the window, and no property compares answers over two loads |
| `investigation` | does the walk obey the graders' causal rule, end on cycles, and return the deepest root on chains | every graph on three services with up to two ordered dependencies each, every health assignment, every alert |
| `eval` | do the counters of both evaluations add up over the cases, does a gate E3 that passes speak for every recorded trail, is the baseline never refused and scored as what it is | every pair of files of up to two entries over two ids and two services, each run with one of three trails: empty, or from either service to the other, which is causal for an alert of the first only; two cases are enough for one to hide behind the other |
| `demo` | are the victim's failures explained, is at most one charge late, does the thread end | three charges, two uses of the switch |
| `triage_escalates` | (violated) "a cap hit always escalates", of a run cut off while its model asks for tools | as `triage`, with a superstep limit of 31 |
| `triage_nan` | (violated) "confidence must be between 0.0 and 1.0"; NaN is the only way out (`NaNAloneEscapes`) | as `triage` |
| `service_resume` | (violated) "interrupt survives a restart": a run shown as awaiting approval can be resumed | one worker, two posts |

Bounds are constants named `Max...` in the modules; each appears in a guard.
Deadlock is not checked where the system really stops: a walk, a loop or a
script that ended, a run waiting for a human, counters at their bound.

### Fairness

* `TriageGraph`: `graph.invoke` is a loop in the calling thread, so
  `WF(invoke)`. Nobody has to resume a paused graph.
* `IncidentService`: threads that hold work keep running, the batch processor
  wakes up on its schedule, a shutdown under way completes. Nobody has to post,
  approve, stop, crash or restart. A handler that never returns is ruled out by
  the HTTP timeouts of the clients it calls and by the graph's own termination,
  which `InvokeEnds` checks.
* `LiveToolLoop`: the loop's thread runs and its clients answer or raise. Nobody
  has to seed.
* `LogStore`: a started script goes on when its locks are free, and Postgres ends
  one of two transactions that wait for each other. Nobody has to start a script
  or to ask.
* `Investigation`, `EvalHarness`: one thread that runs.
* `ToyServices`: the traffic thread runs, its posts return or time out.
* `GlpiClient`, `AuditTrail`: safety only, no fairness.

### What the three violations show

* `triage_escalates`: `gate_state` (`src/gate.py:50`) parses the last message
  before it looks at the cap. In the trace the model asks for tools fifteen times,
  the route leads to the gate at the cap, and parsing the fifteenth request, which
  holds no diagnosis, raises: the run fails.
  `docs/TECHNICAL_ARCHITECTURE.md:73` promises that a cap hit always escalates.
* `triage_nan`: `require_confidence` (`src/gate.py:167`) compares; NaN passes both
  comparisons and the threshold, and the gate issues a token. Nothing else
  does: `NaNAloneEscapes` proves the range for any confidences without NaN.
* `service_resume`: the checkpoint lives in an `InMemorySaver` of one call
  (`src/gld_001.py:125`), gone when the handler returns;
  `constitution.md:157` expects the interrupt to survive a restart.

### Divergences noticed without a run of their own

* The same line promises an escalation for incomplete evidence. The parser refuses
  an empty evidence list (`src/gate.py:195`): the gate raises, the run fails, and the
  rule of `diagnosis_is_uncertain` for it is never reached. `diagnosis_from_state` and
  `GateRaises` model that.
* `approve` asks only that a run is known (`src/ingestion.py:82`), the endpoint's
  docstring speaks of a paused run (`src/api.py:73`).
* An alert of another service gets a 202 and a run id, then fails before any span
  opens (`src/runtime.py:39`): that id is never found again.
* A failed run's root span has no gate status and is shown as running
  (`src/audit.py:274`).
* The tool loop's guard yields at the last step and the forced answer has none
  (`scripts/llm_tool_execute_smoke_01.py:99`, against `decisions.md:14`).
  `NoEarlyAnswer` states what holds.
* A followup whose response is lost looks like a failure, and a caller who asks
  again writes it twice (`src/clients/glpi.py:147`); the idempotency key of
  `docs/TECHNICAL_ARCHITECTURE.md:52` is not in the code.
* A duplicated evaluation run replaces the earlier one before the
  one-run-per-case check looks (`evals/harness.py:103`, `:293`). `ReportCoversCases`
  and `BaselineScored` speak for distinct ids where it matters.
* Lists are read as one page (`src/clients/glpi.py:205`): in a CMDB with more items
  the dependencies beyond it are missing without a sign. `AnswersDeclared` does not
  mind a missing one, `ChainInspected` is about lists that fit.
* "The deepest unhealthy dependency" is returned on chains only; on a branching
  topology the first unhealthy dependency is followed (`chaos/harness.py:63`, `:46`),
  and the one returned need not be the deepest. `DeepestOnChains` states what holds.
* A seeding after one that died half way leaves a name that answers with an item
  without relations; `ChainInspected` therefore asks that the first was whole, and
  that the lists fit their page.
* The tool loop offers the model two semantic searches, yet its tools are built
  over a log store client without an embedding provider
  (`src/gld_001.py:97`), so choosing one ends the investigation with an exception;
  `decisions.md:13` says it "executes those tools".
* `scripts/generate_logs.py:9` seeds incidents "so get_similar_incidents() has real
  precedent to find", but inserts them without embeddings, which the search skips;
  `VectorsFound` states when it finds something. The script also reads its own
  `DB_DSN`, the tools the dsn of the settings; the model assumes they agree.
* `get_recent_deploys` says "before a reference time" (`src/mcp/observability.py:78`),
  the query has a lower bound only (`src/clients/logstore.py:181`). Nothing in the
  repository writes that table.
* `get_error_rate` and `get_metric` answer 0.0 for a service without any line in
  the window, as for one without errors (`src/clients/logstore.py:166`).

## 4. Proofs

Each `*Proofs` module proves what TLC checks on small instances for every value
of the constants: any number of threads, services, spans, lines or dependencies,
infinite sets included unless an assumption below says finite.

| Theorem | States |
|---|---|
| **`TriageGraphProofs`** | |
| `TypeCorrect` | `TypeOK` |
| `GrantAlwaysJustified` | a token exists only for a justified `auto_write` below the cap |
| `StepBudgetHolds` | at most `Cap` model calls, no tool at the cap |
| `WriteAlwaysNeedsHuman` | a granted run ends only after a resume, and only a granted run is resumed |
| `NaNAloneEscapes` | without NaN a granted confidence is between 0 and 1 |
| `InvokeIsFinite` | every step of an invoke call uses a superstep of a limited number or ends it |
| `CapActsFirst` | with two supersteps per permitted call, LangGraph's limit never precedes the gate's decision |
| `GraphImplementsGovernedRun` | the graph implements the safety part of `GovernedRun` |
| **`IncidentServiceProofs`** | |
| `TypeCorrect` | `TypeOK` |
| `OnePlace` | an accepted run is in exactly one place until it ends (`OnePlacePerRun`) |
| `RunIdIsStable` | posts of one alert are answered with one run id, and one of them at most as no duplicate (`StableRunId`) |
| `StopIsClean` | an orderly stop leaves nothing in memory or unended, and no root span that is neither stored nor itself lost (`CleanStop`) |
| `HistoryIsKept` | verdicts and outcomes are never revised (`HistoryKept`, an action property) |
| `ServiceKeepsLedger` | the service implements the safety part of `RunLedger` |
| **`AuditTrailProofs`** | |
| `AuditsAreComplete` | an audit shows every call whose span was not lost, in order (`AuditComplete`) |
| `AuditsAreFinal` | it never changes, and only a later run replaces it (`AuditFinal`, an action property) |
| `ApprovalsHaveEvidence` | a run awaiting approval paused for one, with the whole causal chain (`ApprovalHasEvidence`) |
| **`GlpiClientProofs`** | |
| `TypeCorrect` | `TypeOK` |
| `AckedAreApplied` | a reported followup is in GLPI, none twice (`AckedWritesApplied`) |
| `FailuresWroteNothing` | without a lost response, a call that raised wrote nothing (`FailedWritesWroteNothing`) |
| `SessionIsNotLeaked` | one thread at a time leaks no session (`NoLeakedSession`) |
| **`LiveToolLoopProofs`** | |
| `TypeCorrect` | `TypeOK` |
| `DependenciesAreDeclared` | the CMDB answers declared dependencies, once each (`AnswersDeclared`) |
| `LoopInspectsTargets` | no early answer while a known target is uninspected (`NoEarlyAnswer`) |
| `WholeChainIsInspected` | over a whole CMDB, an early answer comes after a search of every declared dependency (`ChainInspected`) |
| `LoopIsFinite` | every step of the loop ends it or uses up a bounded number of steps, calls or stages of a read, and seeding gives none back |
| **`LogStoreProofs`** | |
| `TypeCorrect` | `TypeOK` |
| `LoadsAreWhole` | committed tables are whole loads, indexed by one model or none (`WholeLoads`) |
| `SearchesAgree` | over one load no search shows more than the error rate counts, and one without a keyword and below its limit shows all its level asks for (`AnswersAgree`) |
| `VectorSearchesFind` | a vector search finds what is indexed (`VectorsFound`) |
| `LoadsDoNotDeadlock` | two scripts that wait for each other are seedings (`DeadlocksAreSeedings`) |
| `SomeoneGoesOn` | of the scripts that run, one has its lock or two wait for each other |
| **`HarnessProofs`** | |
| `WalkIsCausal` | the walk obeys the graders' causal rule on every topology (`TrailIsCausal`) |
| `WalkIsDeepest` | on chains the root returned ends a longest unhealthy path (`DeepestOnChains`) |
| `WalkIsFinite` | every pass but the last inspects one service more, and there are no more than the services |
| `ReportsCoverCases` | a written report is over equal sets of ids, its counters add up over the cases, and a gate that passes speaks for every recorded trail (`ReportCoversCases`) |
| `BaselineIsScored` | the baseline is never refused and scored as what it is (`BaselineScored`) |
| **`ToyServicesProofs`** | |
| `FailuresAreExplained` | payments fail and succeed as auth-service counted (`FailuresExplained`) |
| `AtMostOneLateCharge` | one charge at most after stop (`OneLateCharge`) |
| `StopIsFinite` | after stop the thread has at most four steps left, and each takes one |

### Assumptions

They are the named `ASSUME`s of the modules, and TLC evaluates each of them.

* `TriageGraph`: integers where the settings are integers, NaN is no integer,
  `Token # NoToken`. None restricts the cap or the threshold to sensible values,
  since the code reads both from the environment.
* Everywhere: the bounds are naturals, and the values that stand for "none" are
  outside the sets they stand beside.
* `IncidentService`: `strip` knows the texts of the payloads. Payloads, handlers,
  workers and approvers are otherwise arbitrary.
* `Cmdb`: the topology of `seed_cmdb.py` repeats neither a service nor a
  dependency and names only its own services; `LiveToolLoop` adds that the model
  may ask about any of them.
* `LogStore`: the corpus is finite, levels and ages are what the generator makes,
  limits are naturals, the two shipped limits are not zero, "no keyword" is no
  keyword, and there is a model.
* `CausalTrail`: the absence of a root is no service. `Investigation`: a topology
  gives every service a sequence of services. `EvalHarness` assumes that trails are
  sequences of steps; its proofs hold without it.

### The inductive invariants

None of the properties is inductive alone. Each module's `IInv` is a conjunction
of named parts; what they add:

* **TriageGraph.** `CallsInv` says how `llm_calls` relates to the cap at each node:
  the supervisor's route tests the cap, so every later node inherits it.
  `GrantInv`: a token exists exactly for an `auto_write` decision. `PauseInv`: who may
  be paused or resumed, and where. `SuperstepInv`: the superstep count is a function
  of node and `llm_calls`, two per call before the pause, on which `CapActsFirst`
  rests. `LimitInv`: LangGraph stops a run only when the limit is used up.
* **IncidentService.** Ids are drawn in order (`RunIdsInv`), so a reservation after a
  restart cannot meet an earlier run. `RegistryInv` and `HeldInv` tie a job in a
  handler, the queue or a worker to the registry's run for its alert;
  `ExclusiveInv` and `KeptInv` are the two halves of "exactly one place", and only
  together do they survive the hand-over from handler to queue to worker.
  `RootsInv` and `EndedInv` follow the root span from the end of a run to Phoenix or
  to the lost batches; `ProcessInv` says what a process that stops has emptied.
  `AnswersInv`: every answer names the registry's run for its alert. `FirstAnswerInv`:
  while a thread has a run to enqueue, all answers that name it say duplicate.
  `ServiceKeepsLedger` goes through the actions one by one, each mapped to an action
  of `RunLedger` or a stutter.
* **AuditTrail.** `TracesInv` numbers the spans a run has ended: tool spans in the
  order of the calls, the root span last. The first of them have left the process,
  each either stored or lost; the exporter holds the others in that order. So a
  stored root span means that the exporter of its trace is empty and nothing of the
  trace will ever change (`Frozen`), which is why the two queries of the audit may
  have anything in between. `ReaderInv` carries that over from the first to the
  second, and `AuditInv` says that an audit is what would be answered again.
* **GlpiClient.** `CountInv` is a ledger: a session or a followup was paid for by the
  begin of one call, which may spend it once. `AloneInv` says whose session is the
  client's when one thread uses it at a time.
* **LiveToolLoop.** `RelationsInv` says that a relation in GLPI joins computers as a
  declared dependency does, and `OwnInv` that those of the present seeding's
  computers are the ones it has got to, which keeps two seedings under equal names
  apart. `FirstInv` describes what a first seeding leaves (`Mirrors`: relation `k`
  is dependency `k`). `ReaderInv` and `WholeReadInv` are about a read in between of
  writes, `LoopInv` equates the loop's sets with what was answered and searched, and
  `AskedInv` joins the two.
* **LogStore.** `LocksOK` derives the locks a transaction holds from its next
  statement and `OwnOK` what it has written under them; `ExclusiveInv` is what the
  locks give. `CommittedInv` says what is committed since which script, `FreshInv`
  that a load has one number, and `SearchInv` keeps a search, with its level and
  keyword, true while the lines it saw are those in the table.
* **Investigation.** `PathInv`: the walk is a path that meets nothing twice.
  `AheadInv`: it is about to go on to a dependency of where it is, its root is the
  service it was at last, or none if the alerted one is healthy, and a walk that
  returned had no other to go on to or one it had been to. `DeepestOnChains` follows
  because a longer path would leave the walk somewhere first.
* **EvalHarness.** Its invariant is `ReportInv`. `ReportTypeInv` says which runs are
  being scored, the recorded or the baseline's, and `CoverInv` what the check of the
  ids has established. `TallyInv` relates the counters to the cases passed so far,
  and those returned to all of them; `GateInv` and `BaselineInv` do the same for the
  causal violations and for the baseline's counters.
* **ToyServices.** `CountInv` counts verifications that were answered and not yet
  read; `LateInv` says that the late charge is the one decided on before the stop.

TLC also finds every `IInv`, and `ReportInv`, to hold on the instances of the runs.

Lemmas that replace induction: `First`, that a set of naturals has a least element
(from the well-foundedness of `<` in the library), in `LiveToolLoopProofs`,
`HarnessProofs` and `AuditTrailProofs`; `Ranked`, that in a finite set with
distinct keys each number of smaller keys is taken by one member, by which a sort
defined by counting is shown to be one.

### Only model-checked

* Liveness, beyond the prover with ENABLED: `InvokeEnds`, `PauseBecomesVisible`,
  `LoopEnds`, `ScriptsEnd`, `WalkEnds`, `TrafficEnds`, and the liveness halves of
  `GovSpec` and `LedgerSpec`. What of it is safety is proved: `InvokeIsFinite`,
  `LoopIsFinite`, `WalkIsFinite` and `StopIsFinite` say that every step uses up
  something bounded, `SomeoneGoesOn` that scripts never all
  wait without a deadlock of two, which is what the model has Postgres break. What is left to TLC is that a step is always possible and
  that the fairness stated makes it happen.
* The three properties that are violated.

## 5. Not modelled, and assumed

* `get_metric`, a wrapper of the error rate, and `get_recent_deploys`, which reads a
  table nothing writes.
* MCP registration and transports, configuration parsing, prompts, protocols,
  deployment files: argument passing, text, or written once. The texts of the log
  corpus and the arithmetic of vectors.
* `get_ci` by number (`src/clients/glpi.py:109`) for a caller that asks by name: no
  service is named by a number. The step of `get_ci_dependencies` that asks by id is
  there.
* The statuses of GLPI's errors: a refused session is `refused`, every other error
  answer (`src/clients/glpi.py:152`, `:198`, `:211`) ends its call as `timeout` does,
  served or not.
* Field mapping and dates of the GLPI client, decoding of attribute text in the
  audit, YAML checks, the means and the report rendering of the evaluation: data the
  properties do not tell apart.
* External, modelled from how the code uses them: LangGraph's superstep loop and
  interrupt, the batch span processor, Phoenix (a batch is stored whole or lost
  whole, in order), GLPI's sessions and numbering, uvicorn's shutdown order,
  Postgres's read committed transactions and locks. The
  superstep limit is a constant because `langgraph` is not pinned and its default
  depends on the version.
* Whether `ToolNode` passes a tool's exception on or answers the model with an error
  message depends on that version too. `TriageGraph` covers both, as `CallRaises` and
  `tool_node`, and so does `IncidentService`, as `fail_run` and `tool_call`;
  `AuditTrail` takes the exception to end the run (`tool_raises`).
* Sampling is at its shipped rate of 1.0.

## 6. State of the plan

Done: the graph, the service with its ledger, audit, GLPI client, the tool loop
over a live CMDB, the log store and its scripts, both harnesses and the toy
services are modelled, checked and proved about; every invariant and action
property that holds in a run is also a theorem. What could follow:

1. What the proofs share (`First`, `LessIsWellFounded`, `NoRepetition`, the lemmas
   about the elements of a sequence) is stated in each module that uses it; a module
   of such lemmas, without variables, would hold them once.
2. The registration of the MCP tools, should it come to do more than pass arguments.
