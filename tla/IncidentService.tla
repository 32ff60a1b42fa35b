---------------------------- MODULE IncidentService ----------------------------
(* The HTTP service of src/api.py over the in-memory registry and thread-pool *)
(* dispatcher of src/ingestion.py, the demo handler and lifecycle of          *)
(* src/runtime.py, the batch export of its spans to Phoenix and the audit     *)
(* status src/audit.py derives from them.  An operator whose name is          *)
(* another's with a suffix is a slip a change to the code could make; no      *)
(* action uses it.                                                            *)
EXTENDS Integers, Sequences, FiniteSets

CONSTANTS
    Payloads,       \* what Alertmanager may post: sequences of alerts
    strip,          \* text -> text: str.strip, on the texts of the payloads
    MaxRuns,        \* bound: run ids uuid4 returns in a behaviour
    Handlers,       \* server threads that serve POST /webhooks/incident
    Workers,        \* threads of the dispatcher's pool (max_workers)
    Approvers,
    ToolSpans,      \* bound: tool spans one run ends
    MaxPosts,       \* bound: webhook posts in a behaviour
    MaxRestarts,    \* bound: process starts after the first
    NoAlert, NoApprover

ASSUME BoundsAssumption ==
    MaxRuns \in Nat /\ ToolSpans \in Nat /\ MaxPosts \in Nat /\ MaxRestarts \in Nat
ASSUME StripAssumption ==
    \A p \in Payloads : \A i \in 1..Len(p) :
        {p[i].service, p[i].alertname, p[i].startsAt} \subseteq DOMAIN strip
ASSUME NoApproverAssumption == NoApprover \notin Approvers

VARIABLES
    process,                 \* "up", "draining", "stopped" or "crashed"
    run_ids_by_fingerprint,  \* InMemoryRunRegistry._run_ids_by_fingerprint
    known_run_ids,           \* InMemoryRunRegistry._known_run_ids
    approvers_by_run_id,     \* InMemoryRunRegistry._approvers_by_run_id
    handler,                 \* per webhook thread: between reserve and enqueue?
    work_queue,              \* the executor's queue of (run, alert)
    worker,                  \* per pool thread: the run it executes
    pending,                 \* ended spans in the batch processor's buffer
    phoenix,                 \* spans Phoenix has stored
    dropped,                 \* history: spans of the batches it was not there for
    outcome,                 \* history: how the handler call of a run ended
    answers,                 \* history: the 202 answers since the process started, in order
    posts, restarts          \* history: bounded counters

registry == <<run_ids_by_fingerprint, known_run_ids, approvers_by_run_id>>
bounds == <<posts, restarts>>
spans == <<pending, phoenix, dropped>>
vars == <<process, registry, handler, work_queue, worker, spans, outcome, answers, bounds>>

--------------------------------------------------------------------------------
(* Data *)

blank(text) == strip[text] = ""

\* Only the first alert of a payload counts.  Its service and name are
\* required; its start, optional, stands for all the text that tells two alerts
\* of one service and name apart.
alert_from_alertmanager(payload) ==
    IF payload = <<>> THEN NoAlert
    ELSE LET first == payload[1] IN
         IF blank(first.service) \/ blank(first.alertname) THEN NoAlert
         ELSE [service |-> strip[first.service], condition |-> strip[first.alertname],
               starts_at |-> strip[first.startsAt]]

\* Normalized alerts.  alert_fingerprint, a hash of every field, tells them apart.
Alerts == {alert_from_alertmanager(p) : p \in Payloads} \ {NoAlert}

\* The only service DemoIncidentHandler accepts.
Supported == {a \in Alerts : a.service = "payment-api"}

\* Random ids are numbered in the order they are drawn.
RunIds == 1..MaxRuns

NoRun == 0

Jobs == [run : RunIds, alert : Alerts]

NoJob == [run |-> NoRun, alert |-> NoAlert]

IdleHandler == [pc |-> "idle", job |-> NoJob]

IdleWorker == [pc |-> "idle", job |-> NoJob, tools |-> 0]

\* incident.run_id is an attribute of the root span only; tool spans share its
\* trace, which one handler call of a run creates.  A failed run's root has no
\* gate.status.
RootSpan(r, gate_status) == [run |-> r, kind |-> "root", n |-> 0, gate_status |-> gate_status]

ToolSpan(r, n) == [run |-> r, kind |-> "tool", n |-> n, gate_status |-> "none"]

Spans == {RootSpan(r, g) : r \in RunIds, g \in {"none", "auto_write"}}
         \cup {ToolSpan(r, n) : r \in RunIds, n \in 1..ToolSpans}

alive == process \in {"up", "draining"}

--------------------------------------------------------------------------------
(* src/audit.py: what GET /runs/{run_id} answers *)

roots(r) == {s \in phoenix : s.kind = "root" /\ s.run = r}

\* PhoenixClientSpanSource finds no trace without a stored root span.  The demo
\* handler never stores an escalated run: assert_gld001_result fails it.
run_status(r) ==
    IF roots(r) = {} THEN "not found"
    ELSE IF \E s \in roots(r) : s.gate_status = "auto_write" THEN "awaiting_approval"
    ELSE "running"

--------------------------------------------------------------------------------
(* Process start *)

\* InMemoryRunRegistry.__init__
fresh_registry == <<[a \in Alerts |-> NoRun], {}, [r \in RunIds |-> NoApprover]>>

Init ==
    /\ process = "up"
    /\ run_ids_by_fingerprint = fresh_registry[1]
    /\ known_run_ids = fresh_registry[2]
    /\ approvers_by_run_id = fresh_registry[3]
    /\ handler = [h \in Handlers |-> IdleHandler]
    /\ work_queue = <<>>
    /\ worker = [w \in Workers |-> IdleWorker]
    /\ pending = {} /\ phoenix = {} /\ dropped = {}
    /\ outcome = [r \in RunIds |-> "none"]
    /\ answers = <<>>
    /\ posts = 0 /\ restarts = 0

--------------------------------------------------------------------------------
(* POST /webhooks/incident *)

Answer_unassigned(r, a, duplicate) == [run |-> NoRun, alert |-> a, duplicate |-> duplicate]

Answer(r, a, duplicate) == [run |-> r, alert |-> a, duplicate |-> duplicate]

Posted(h) ==
    /\ process = "up"
    /\ handler[h].pc = "idle"
    /\ posts < MaxPosts
    /\ posts' = posts + 1

existing(a) == run_ids_by_fingerprint[a] # NoRun

new_in_process == 1 + Cardinality(known_run_ids)

\* uuid4 returns an id no run has had, in this process or an earlier one.
new_run_id == 1 + Cardinality(known_run_ids \cup {r \in RunIds : outcome[r] # "none"})

\* registry.reserve, under the registry's lock, for an alert it does not know.
reserve_new(h, a) ==
    /\ Posted(h)
    /\ ~existing(a)
    /\ \E r \in RunIds :
          /\ r = new_run_id
          /\ run_ids_by_fingerprint' = [run_ids_by_fingerprint EXCEPT ![a] = r]
          /\ known_run_ids' = known_run_ids \cup {r}
          /\ handler' = [handler EXCEPT ![h] =
                            [pc |-> "enqueue", job |-> [run |-> r, alert |-> a]]]
    /\ UNCHANGED <<process, approvers_by_run_id, work_queue, worker, spans,
                   outcome, answers, restarts>>

reserve_existing_enqueues(h, a) ==
    /\ Posted(h)
    /\ existing(a)
    /\ handler' = [handler EXCEPT ![h] =
                      [pc |-> "enqueue", job |-> [run |-> run_ids_by_fingerprint[a], alert |-> a]]]
    /\ UNCHANGED <<process, registry, work_queue, worker, spans, outcome,
                   answers, restarts>>

\* registry.reserve for a known alert; the endpoint answers at once.
reserve_existing(h, a) ==
    /\ Posted(h)
    /\ existing(a)
    /\ answers' = Append(answers, Answer(run_ids_by_fingerprint[a], a, TRUE))
    /\ UNCHANGED <<process, registry, handler, work_queue, worker, spans,
                   outcome, restarts>>

\* dispatcher.enqueue, outside the lock, then the 202 answer.
enqueue(h) ==
    /\ process = "up"
    /\ handler[h].pc = "enqueue"
    /\ work_queue' = Append(work_queue, handler[h].job)
    /\ answers' = Append(answers, Answer(handler[h].job.run, handler[h].job.alert, FALSE))
    /\ handler' = [handler EXCEPT ![h] = IdleHandler]
    /\ UNCHANGED <<process, registry, worker, spans, outcome, bounds>>

(* POST /runs/{run_id}/approve: a known run is all the registry asks for. *)
approve(r, p) ==
    /\ process = "up"
    /\ r \in known_run_ids
    /\ approvers_by_run_id' = [approvers_by_run_id EXCEPT ![r] = p]
    /\ UNCHANGED <<process, run_ids_by_fingerprint, known_run_ids, handler, work_queue,
                   worker, spans, outcome, answers, bounds>>

--------------------------------------------------------------------------------
(* The pool thread and DemoIncidentHandler.__call__ *)

Take(w) ==
    /\ alive
    /\ worker[w].pc = "idle"
    /\ work_queue # <<>>
    /\ work_queue' = Tail(work_queue)

\* The root span opens; the supervisor graph runs under it.
start_run(w) ==
    /\ Take(w)
    /\ Head(work_queue).alert \in Supported
    /\ worker' = [worker EXCEPT ![w] = [pc |-> "graph", job |-> Head(work_queue), tools |-> 0]]
    /\ UNCHANGED <<process, registry, handler, spans, outcome, answers, bounds>>

\* The handler raises before it opens a span; the future that holds the
\* exception was dropped by enqueue.
reject_run(w) ==
    /\ Take(w)
    /\ Head(work_queue).alert \notin Supported
    /\ outcome' = [outcome EXCEPT ![Head(work_queue).run] = "failed"]
    /\ UNCHANGED <<process, registry, handler, worker, spans, answers, bounds>>

InGraph(w) == alive /\ worker[w].pc = "graph"

\* One traced tool call ends its span (Gld001TracedTools).
tool_call(w) ==
    /\ InGraph(w)
    /\ worker[w].tools < ToolSpans
    /\ worker' = [worker EXCEPT ![w].tools = @ + 1]
    /\ pending' = pending \cup {ToolSpan(worker[w].job.run, worker[w].tools + 1)}
    /\ UNCHANGED <<process, registry, handler, work_queue, phoenix, dropped, outcome, answers, bounds>>

\* graph.invoke returns, interrupted before write, and the result is asserted:
\* the checkpoint of the paused graph lives in this call's InMemorySaver.
graph_pauses(w) ==
    /\ InGraph(w)
    /\ worker' = [worker EXCEPT ![w].pc = "paused"]
    /\ UNCHANGED <<process, registry, handler, work_queue, spans, outcome,
                   answers, bounds>>

\* The handler returns: its root span ends, its saver is garbage.
finish_run(w) ==
    /\ alive
    /\ worker[w].pc = "paused"
    /\ pending' = pending \cup {RootSpan(worker[w].job.run, "auto_write")}
    /\ outcome' = [outcome EXCEPT ![worker[w].job.run] = "paused"]
    /\ worker' = [worker EXCEPT ![w] = IdleWorker]
    /\ UNCHANGED <<process, registry, handler, work_queue, phoenix, dropped, answers, bounds>>

\* A client, the graph or assert_gld001_result raises out of run_gld001, or a tool
\* does where ToolNode lets it: some versions of langgraph, which the requirements
\* do not pin, answer the model with the error instead, and the run goes on as
\* after any tool_call.
fail_run(w) ==
    /\ InGraph(w)
    /\ pending' = pending \cup {RootSpan(worker[w].job.run, "none")}
    /\ outcome' = [outcome EXCEPT ![worker[w].job.run] = "failed"]
    /\ worker' = [worker EXCEPT ![w] = IdleWorker]
    /\ UNCHANGED <<process, registry, handler, work_queue, phoenix, dropped, answers, bounds>>

--------------------------------------------------------------------------------
(* The batch span processor *)

\* Phoenix stores a batch, or is unreachable and the batch is dropped.
deliver(batch) ==
    \/ phoenix' = phoenix \cup batch /\ UNCHANGED dropped
    \/ dropped' = dropped \cup batch /\ UNCHANGED phoenix

export_batch ==
    /\ alive
    /\ pending # {}
    /\ deliver(pending)
    /\ pending' = {}
    /\ UNCHANGED <<process, registry, handler, work_queue, worker, outcome, answers, bounds>>

--------------------------------------------------------------------------------
(* Shutdown, crash and restart *)

\* uvicorn answers the requests in flight before it leaves the lifespan.
shutdown_begins ==
    /\ process = "up"
    /\ \A h \in Handlers : handler[h].pc = "idle"
    /\ process' = "draining"
    /\ UNCHANGED <<registry, handler, work_queue, worker, spans, outcome,
                   answers, bounds>>

drained_without_wait == TRUE

\* dispatcher.shutdown(wait=True) returns when the pool has no work left.
drained == work_queue = <<>> /\ \A w \in Workers : worker[w].pc = "idle"

\* Without shutdown_tracing the buffer is thrown away.
lifespan_ends_unflushed ==
    /\ process = "draining"
    /\ drained
    /\ pending' = {}
    /\ process' = "stopped"
    /\ UNCHANGED <<registry, handler, work_queue, worker, phoenix, dropped, outcome, answers, bounds>>

\* shutdown_tracing flushes the batch processor.
lifespan_ends ==
    /\ process = "draining"
    /\ drained
    /\ deliver(pending)
    /\ pending' = {}
    /\ process' = "stopped"
    /\ UNCHANGED <<registry, handler, work_queue, worker, outcome, answers, bounds>>

\* Nothing the process holds survives; Phoenix does.
crash ==
    /\ alive
    /\ restarts < MaxRestarts
    /\ process' = "crashed"
    /\ handler' = [h \in Handlers |-> IdleHandler]
    /\ work_queue' = <<>>
    /\ worker' = [w \in Workers |-> IdleWorker]
    /\ pending' = {}
    /\ outcome' = [r \in RunIds |->
                      IF r \in known_run_ids /\ outcome[r] = "none" THEN "lost" ELSE outcome[r]]
    /\ UNCHANGED <<registry, phoenix, dropped, answers, bounds>>

restart ==
    /\ process \in {"stopped", "crashed"}
    /\ restarts < MaxRestarts
    /\ restarts' = restarts + 1
    /\ process' = "up"
    /\ run_ids_by_fingerprint' = fresh_registry[1]
    /\ known_run_ids' = fresh_registry[2]
    /\ approvers_by_run_id' = fresh_registry[3]
    /\ answers' = <<>>
    /\ UNCHANGED <<handler, work_queue, worker, spans, outcome, posts>>

--------------------------------------------------------------------------------
\* A payload that does not normalize is answered with 422 and changes nothing.
webhook(h) ==
    \/ \E p \in Payloads :
          LET a == alert_from_alertmanager(p) IN
          a # NoAlert /\ (reserve_new(h, a) \/ reserve_existing(h, a))
    \/ enqueue(h)

run_handler(w) == tool_call(w) \/ graph_pauses(w) \/ finish_run(w) \/ fail_run(w)

pool_thread(w) == start_run(w) \/ reject_run(w) \/ run_handler(w)

Next ==
    \/ \E h \in Handlers : webhook(h)
    \/ \E r \in RunIds, p \in Approvers : approve(r, p)
    \/ \E w \in Workers : pool_thread(w)
    \/ export_batch
    \/ shutdown_begins \/ lifespan_ends \/ crash \/ restart

\* Threads that hold work keep running, the exporter thread wakes up on its
\* schedule, and a shutdown under way completes.  Nobody has to post, approve,
\* stop, crash or restart.
Fairness ==
    /\ \A h \in Handlers : WF_vars(enqueue(h))
    /\ \A w \in Workers : WF_vars(pool_thread(w))
    /\ WF_vars(export_batch)
    /\ WF_vars(lifespan_ends)

Spec == Init /\ [][Next]_vars /\ Fairness

--------------------------------------------------------------------------------
(* Properties *)

\* Every variable keeps its type (the annotations of src/ingestion.py).
TypeOK ==
    /\ process \in {"up", "draining", "stopped", "crashed"}
    /\ run_ids_by_fingerprint \in [Alerts -> RunIds \cup {NoRun}]
    /\ known_run_ids \subseteq RunIds
    /\ approvers_by_run_id \in [RunIds -> Approvers \cup {NoApprover}]
    /\ handler \in [Handlers -> [pc : {"idle", "enqueue"}, job : Jobs \cup {NoJob}]]
    /\ work_queue \in Seq(Jobs)
    /\ worker \in [Workers -> [pc : {"idle", "graph", "paused"}, job : Jobs \cup {NoJob},
                               tools : 0..ToolSpans]]
    /\ pending \subseteq Spans /\ phoenix \subseteq Spans /\ dropped \subseteq Spans
    /\ outcome \in [RunIds -> {"none", "paused", "failed", "lost"}]
    /\ answers \in Seq([run : RunIds, alert : Alerts, duplicate : BOOLEAN])
    /\ posts \in Nat /\ restarts \in Nat

\* The places a reserved run can be.
InHandler(r) == {h \in Handlers : handler[h].job.run = r}
InQueue(r) == {i \in 1..Len(work_queue) : work_queue[i].run = r}
InWorker(r) == {w \in Workers : worker[w].job.run = r}
Ended(r) == IF outcome[r] = "none" THEN {} ELSE {r}

\* A reserved run is in exactly one place: about to be enqueued, queued,
\* executing or ended.  It is neither dropped nor dispatched twice, however
\* concurrent posts, retries and workers interleave with the unlocked gap
\* between reserve and enqueue.
OnePlacePerRun ==
    \A r \in known_run_ids :
        Cardinality(InHandler(r)) + Cardinality(InQueue(r)) + Cardinality(InWorker(r))
        + Cardinality(Ended(r)) = 1

\* The answers to any two posts since the process started name one run if they
\* are of one alert, two if not, and no two of one alert both say that theirs
\* is not a duplicate, even when the duplicate is answered first.
StableRunId ==
    \A i, j \in 1..Len(answers) :
        LET x == answers[i]
            y == answers[j]
        IN  /\ x.alert = y.alert <=> x.run = y.run
            /\ i # j /\ x.alert = y.alert => x.duplicate \/ y.duplicate

\* After an orderly shutdown every run answered for has ended, and no span is
\* left in memory: Phoenix holds the root span of each run whose alert was
\* supported, unless it was not there to take the batch that span was in.
CleanStop ==
    process = "stopped" =>
        /\ pending = {}
        /\ \A i \in 1..Len(answers) :
              /\ outcome[answers[i].run] # "none"
              /\ answers[i].alert \in Supported =>
                    \E s \in phoenix \cup dropped : s.kind = "root" /\ s.run = answers[i].run

\* Phoenix is append-only for the service and a run ends once: neither an ended
\* run's outcome nor an audit's verdict is ever revised, across restarts.
HistoryKept ==
    [][\A r \in RunIds :
          /\ outcome[r] # "none" => outcome'[r] = outcome[r]
          /\ run_status(r) # "not found" => run_status(r)' = run_status(r)]_vars

\* A run that pauses for approval becomes visible as such, unless the process
\* crashes first or Phoenix is unreachable when its root span is sent.
PauseBecomesVisible ==
    \A r \in RunIds :
        RootSpan(r, "auto_write") \in pending
            ~> \/ run_status(r) = "awaiting_approval"
               \/ RootSpan(r, "auto_write") \in dropped
               \/ process = "crashed"

ledger_state ==
    [r \in RunIds |->
        IF InWorker(r) # {} THEN "running"
        ELSE IF outcome[r] # "none" THEN outcome[r]
        ELSE IF r \in known_run_ids THEN "accepted"
        ELSE "unknown"]

Ledger == INSTANCE RunLedger WITH run_of <- run_ids_by_fingerprint, state <- ledger_state

\* The service implements the run ledger it stands in for, fairness included:
\* an accepted run does not stay accepted and a running one does not stay running.
ImplementsRunLedger == Ledger!LedgerSpec

--------------------------------------------------------------------------------
(* A statement of the documents that the code does not meet *)

\* The human-review interrupt can be resumed: a run shown as awaiting approval
\* has a checkpoint of its paused graph somewhere.
AwaitingRunResumable ==
    \A r \in RunIds : run_status(r) = "awaiting_approval" =>
        \E w \in Workers : worker[w].pc = "paused" /\ worker[w].job.run = r
================================================================================
