------------------------- MODULE IncidentServiceProofs -------------------------
(* Proofs about IncidentService for every set of payloads, threads and        *)
(* approvers and every bound.                                                 *)
EXTENDS IncidentService, FiniteSetTheorems, SequenceTheorems, TLAPS

(* Run ids are drawn in order, so the next one is new to every process.       *)
Seen == known_run_ids \cup {r \in RunIds : outcome[r] # "none"}

RunIdsInv == \E n \in 0..MaxRuns : Seen = 1..n

(* The registry maps alerts to known runs, one to one.                        *)
RegistryInv ==
    /\ \A a \in Alerts : existing(a) => run_ids_by_fingerprint[a] \in known_run_ids
    /\ \A a, b \in Alerts :
          existing(a) /\ run_ids_by_fingerprint[a] = run_ids_by_fingerprint[b] => a = b

(* A job somebody holds is of the registry's run for its alert and unfinished. *)
Live(job) ==
    /\ job \in Jobs
    /\ run_ids_by_fingerprint[job.alert] = job.run
    /\ outcome[job.run] = "none"

HeldInv ==
    /\ \A h \in Handlers :
          \/ handler[h] = IdleHandler
          \/ handler[h].pc = "enqueue" /\ Live(handler[h].job)
    /\ \A i \in 1..Len(work_queue) : Live(work_queue[i])
    /\ \A w \in Workers :
          \/ worker[w] = IdleWorker
          \/ /\ worker[w].pc \in {"graph", "paused"}
             /\ Live(worker[w].job) /\ worker[w].job.alert \in Supported

(* No run is held twice.                                                      *)
ExclusiveInv ==
    \A r \in RunIds :
        /\ \A g, h \in InHandler(r) : g = h
        /\ \A i, j \in InQueue(r) : i = j
        /\ \A v, w \in InWorker(r) : v = w
        /\ InHandler(r) = {} \/ InQueue(r) = {}
        /\ InHandler(r) = {} \/ InWorker(r) = {}
        /\ InQueue(r) = {} \/ InWorker(r) = {}

(* No known run is dropped.                                                   *)
KeptInv ==
    \A r \in known_run_ids :
        outcome[r] = "none" => InHandler(r) # {} \/ InQueue(r) # {} \/ InWorker(r) # {}

(* Which of its places a process that stops has emptied.                      *)
ProcessInv ==
    /\ process # "up" => \A h \in Handlers : handler[h] = IdleHandler
    /\ ~alive => drained /\ pending = {}

Answers == [run : RunIds, alert : Alerts, duplicate : BOOLEAN]

(* An answer names the registry's run of its alert.                           *)
AnswersInv ==
    \A i \in 1..Len(answers) : run_ids_by_fingerprint[answers[i].alert] = answers[i].run

(* One answer says that its run is new, and it is given as the thread that    *)
(* reserved the run lets go of it.                                            *)
FirstAnswerInv ==
    /\ \A i \in 1..Len(answers), h \in Handlers :
          answers[i].duplicate \/ handler[h].job.run # answers[i].run
    /\ \A i, j \in 1..Len(answers) :
          i # j /\ answers[i].run = answers[j].run => answers[i].duplicate \/ answers[j].duplicate

AllSpans == pending \cup phoenix \cup dropped

(* A run ends its root span once, as it ends.                                 *)
RootsInv ==
    /\ \A s \in AllSpans : s.kind = "root" => outcome[s.run] # "none"
    /\ \A s, t \in AllSpans : s.kind = "root" /\ t.kind = "root" /\ s.run = t.run => s = t

(* A run that ends in a living process was let end, and left its root span.   *)
EndedInv ==
    process # "crashed" =>
        /\ \A r \in known_run_ids : outcome[r] # "lost"
        /\ \A a \in Supported :
              existing(a) /\ outcome[run_ids_by_fingerprint[a]] # "none" =>
                  \E s \in AllSpans : s.kind = "root" /\ s.run = run_ids_by_fingerprint[a]

IInv ==
    /\ TypeOK /\ RunIdsInv /\ RegistryInv /\ HeldInv /\ ExclusiveInv /\ KeptInv
    /\ ProcessInv /\ AnswersInv /\ FirstAnswerInv /\ RootsInv /\ EndedInv
--------------------------------------------------------------------------------
\* A payload that normalizes gives one of the alerts.
LEMMA AlertsNormalized ==
  ASSUME NEW p \in Payloads, alert_from_alertmanager(p) # NoAlert
  PROVE  alert_from_alertmanager(p) \in Alerts
  BY DEF Alerts

\* The next run id is one nothing was ever known about.
LEMMA NewRunIsFresh ==
  ASSUME RunIdsInv, new_run_id \in RunIds
  PROVE  /\ new_run_id \notin Seen
         /\ Seen \cup {new_run_id} = 1..new_run_id
<1>1. PICK n \in 0..MaxRuns : Seen = 1..n
  BY DEF RunIdsInv
<1>2. Cardinality(1..n) = n
  <2>1. n \in Int
    BY BoundsAssumption
  <2> QED
    BY <2>1, FS_Interval
<1>3. new_run_id = 1 + Cardinality(Seen)
  BY DEF new_run_id, Seen
<1> QED
  BY <1>1, <1>2, <1>3, BoundsAssumption

\* Whoever holds a run holds a known, unfinished one.
LEMMA HeldIsLive ==
  ASSUME TypeOK, RegistryInv, HeldInv, NEW r \in RunIds,
         InHandler(r) # {} \/ InQueue(r) # {} \/ InWorker(r) # {}
  PROVE  r \in known_run_ids /\ outcome[r] = "none"
<1>1. PICK job \in Jobs : Live(job) /\ job.run = r
  <2>1. \A h \in InHandler(r) : Live(handler[h].job) /\ handler[h].job.run = r
    BY DEF InHandler, HeldInv, IdleHandler, NoJob, NoRun, RunIds
  <2>2. \A i \in InQueue(r) : Live(work_queue[i]) /\ work_queue[i].run = r
    BY DEF InQueue, HeldInv
  <2>3. \A w \in InWorker(r) : Live(worker[w].job) /\ worker[w].job.run = r
    BY DEF InWorker, HeldInv, IdleWorker, NoJob, NoRun, RunIds
  <2> QED
    BY <2>1, <2>2, <2>3 DEF Live
<1>2. job.alert \in Alerts /\ existing(job.alert)
  BY <1>1 DEF Live, Jobs, existing, NoRun, RunIds
<1> QED
  BY <1>1, <1>2 DEF RegistryInv, Live

\* A process that is neither up nor draining has let every known run end.
LEMMA NothingHeldWhenDown ==
  ASSUME TypeOK, HeldInv, KeptInv, ProcessInv, ~alive
  PROVE  \A r \in known_run_ids : outcome[r] # "none"
<1> SUFFICES ASSUME NEW r \in known_run_ids, outcome[r] = "none" PROVE FALSE
  OBVIOUS
<1>1. InHandler(r) = {}
  BY DEF ProcessInv, alive, InHandler, IdleHandler, NoJob, NoRun, TypeOK, RunIds
<1>2. InQueue(r) = {}
  BY EmptySeq DEF ProcessInv, drained, InQueue
<1>3. InWorker(r) = {}
  BY DEF ProcessInv, drained, HeldInv, InWorker, IdleWorker, NoJob, NoRun, TypeOK, RunIds
<1> QED
  BY <1>1, <1>2, <1>3 DEF KeptInv

\* A process that has just started.
LEMMA InitIInv == Init => IInv
<1> SUFFICES ASSUME Init PROVE IInv
  OBVIOUS
<1> USE DEF Init, fresh_registry
<1>1. TypeOK
  BY BoundsAssumption, EmptySeq
  DEF TypeOK, RunIds, IdleHandler, IdleWorker, NoJob, NoRun
<1>2. RunIdsInv
  <2>1. Seen = 1..0
    BY DEF Seen
  <2> QED
    BY <2>1, BoundsAssumption DEF RunIdsInv
<1>3. RegistryInv /\ AnswersInv /\ FirstAnswerInv /\ KeptInv
  BY EmptySeq DEF RegistryInv, existing, NoRun, AnswersInv, FirstAnswerInv, KeptInv
<1>4. HeldInv
  BY DEF HeldInv
<1>5. ExclusiveInv
  BY DEF ExclusiveInv, InHandler, InQueue, InWorker, IdleHandler, IdleWorker, NoJob, NoRun, RunIds
<1>6. ProcessInv /\ RootsInv
  BY DEF ProcessInv, alive, RootsInv, AllSpans
<1>7. EndedInv
  BY DEF EndedInv, existing, NoRun, Supported
<1> QED
  BY <1>1, <1>2, <1>3, <1>4, <1>5, <1>6, <1>7 DEF IInv

--------------------------------------------------------------------------------
\* A held job is a job, so what is built from it is of its type.
LEMMA StepTypes == TypeOK /\ HeldInv /\ [Next]_vars => TypeOK'
<1> SUFFICES ASSUME TypeOK, HeldInv, [Next]_vars PROVE TypeOK'
  OBVIOUS
<1> USE DEF TypeOK, registry, spans, bounds
<1>1. ASSUME NEW h \in Handlers, NEW a \in Alerts, reserve_new(h, a) PROVE TypeOK'
  BY <1>1 DEF reserve_new, Posted, Jobs
<1>2. ASSUME NEW h \in Handlers, NEW a \in Alerts, reserve_existing(h, a) PROVE TypeOK'
  <2>1. run_ids_by_fingerprint[a] \in RunIds
    BY <1>2 DEF reserve_existing, existing
  <2>2. Answer(run_ids_by_fingerprint[a], a, TRUE)
           \in [run : RunIds, alert : Alerts, duplicate : BOOLEAN]
    BY <2>1 DEF Answer
  <2>3. answers' \in Seq([run : RunIds, alert : Alerts, duplicate : BOOLEAN])
    BY <1>2, <2>2, AppendProperties DEF reserve_existing
  <2>4. posts' \in Nat
    BY <1>2 DEF reserve_existing, Posted
  <2> QED
    BY <1>2, <2>3, <2>4 DEF reserve_existing
<1>3. ASSUME NEW h \in Handlers, enqueue(h) PROVE TypeOK'
  <2>1. handler[h].job \in Jobs
    <3>1. handler[h] # IdleHandler
      BY <1>3 DEF enqueue, IdleHandler
    <3> QED
      BY <3>1 DEF HeldInv, Live
  <2>2. Answer(handler[h].job.run, handler[h].job.alert, FALSE)
           \in [run : RunIds, alert : Alerts, duplicate : BOOLEAN]
    BY <2>1 DEF Answer, Jobs
  <2>3. Append(work_queue, handler[h].job) \in Seq(Jobs)
    BY <2>1, AppendProperties
  <2>4. handler' \in [Handlers -> [pc : {"idle", "enqueue"}, job : Jobs \cup {NoJob}]]
    BY <1>3 DEF enqueue, IdleHandler
  <2>5. answers' \in Seq([run : RunIds, alert : Alerts, duplicate : BOOLEAN])
    BY <1>3, <2>2, AppendProperties DEF enqueue
  <2> QED
    BY <1>3, <2>3, <2>4, <2>5 DEF enqueue
<1>4. ASSUME NEW r \in RunIds, NEW p \in Approvers, approve(r, p) PROVE TypeOK'
  BY <1>4 DEF approve
<1>5. ASSUME NEW w \in Workers, start_run(w) PROVE TypeOK'
  <2>1. Head(work_queue) \in Jobs /\ Tail(work_queue) \in Seq(Jobs)
    BY <1>5, HeadTailProperties DEF start_run, Take
  <2> QED
    BY <1>5, <2>1, BoundsAssumption DEF start_run, Take
<1>6. ASSUME NEW w \in Workers, reject_run(w) PROVE TypeOK'
  <2>1. Head(work_queue) \in Jobs /\ Tail(work_queue) \in Seq(Jobs)
    BY <1>6, HeadTailProperties DEF reject_run, Take
  <2> QED
    BY <1>6, <2>1 DEF reject_run, Take
<1>7. ASSUME NEW w \in Workers, run_handler(w) PROVE TypeOK'
  <2>1. worker[w].pc # "idle"
    BY <1>7 DEF run_handler, tool_call, graph_pauses, finish_run, fail_run, InGraph
  <2>2. worker[w].job \in Jobs
    BY <2>1 DEF HeldInv, Live, IdleWorker
  <2>3. worker[w].job.run \in RunIds
    BY <2>2 DEF Jobs
  <2>4. CASE tool_call(w)
    <3>1. worker[w].tools + 1 \in 1..ToolSpans
      BY <2>4, BoundsAssumption DEF tool_call
    <3>2. ToolSpan(worker[w].job.run, worker[w].tools + 1) \in Spans
      BY <2>3, <3>1 DEF Spans
    <3>3. worker' \in [Workers -> [pc : {"idle", "graph", "paused"},
                                   job : Jobs \cup {NoJob}, tools : 0..ToolSpans]]
      <4> DEFINE W == [pc : {"idle", "graph", "paused"}, job : Jobs \cup {NoJob},
                       tools : 0..ToolSpans]
      <4>1. worker[w] \in W
        OBVIOUS
      <4>2. [worker[w] EXCEPT !.tools = worker[w].tools + 1]
               = [pc |-> worker[w].pc, job |-> worker[w].job, tools |-> worker[w].tools + 1]
        BY <4>1
      <4>3. [worker[w] EXCEPT !.tools = worker[w].tools + 1] \in W
        BY <3>1, <4>1, <4>2, BoundsAssumption
      <4> QED
        BY <2>4, <4>3 DEF tool_call
    <3>4. pending' \subseteq Spans
      BY <2>4, <3>2 DEF tool_call
    <3> HIDE DEF tool_call
    <3> QED
      BY <2>4, <3>3, <3>4 DEF tool_call
  <2>5. CASE graph_pauses(w)
    BY <2>5 DEF graph_pauses
  <2>6. RootSpan(worker[w].job.run, "auto_write") \in Spans
        /\ RootSpan(worker[w].job.run, "none") \in Spans
    BY <2>3 DEF Spans
  <2>7. IdleWorker \in [pc : {"idle", "graph", "paused"}, job : Jobs \cup {NoJob},
                        tools : 0..ToolSpans]
    BY BoundsAssumption DEF IdleWorker
  <2>8. CASE finish_run(w)
    BY <2>8, <2>6, <2>7 DEF finish_run
  <2>9. CASE fail_run(w)
    BY <2>9, <2>6, <2>7 DEF fail_run
  <2> QED
    BY <1>7, <2>4, <2>5, <2>8, <2>9 DEF run_handler
<1>8. CASE export_batch
  BY <1>8 DEF export_batch, deliver
<1>9. CASE shutdown_begins
  BY <1>9 DEF shutdown_begins
<1>10. CASE lifespan_ends
  BY <1>10 DEF lifespan_ends, deliver
<1>11. CASE crash
  BY <1>11, BoundsAssumption, EmptySeq DEF crash, IdleHandler, IdleWorker
<1>12. CASE restart
  BY <1>12 DEF restart, fresh_registry
<1>13. CASE UNCHANGED vars
  BY <1>13 DEF vars
<1> QED
  BY <1>1, <1>2, <1>3, <1>4, <1>5, <1>6, <1>7, <1>8, <1>9, <1>10, <1>11, <1>12, <1>13,
     AlertsNormalized
  DEF Next, webhook, pool_thread

--------------------------------------------------------------------------------
\* What the worker that ends a run knows of it.
LEMMA RunsAreKnown ==
  ASSUME TypeOK, RegistryInv, HeldInv, NEW w \in Workers, worker[w].pc # "idle"
  PROVE  /\ Live(worker[w].job)
         /\ worker[w].job.alert \in Supported
         /\ worker[w].job.run \in known_run_ids
<1>1. Live(worker[w].job) /\ worker[w].job.alert \in Supported
  BY DEF HeldInv, IdleWorker
<1> QED
  BY <1>1 DEF Live, Jobs, RegistryInv, existing, NoRun, RunIds

\* What is true of the job at the head of the queue.
LEMMA HeadIsKnown ==
  ASSUME TypeOK, RegistryInv, HeldInv, work_queue # <<>>
  PROVE  /\ Len(work_queue) \in Nat \ {0}
         /\ Head(work_queue) = work_queue[1]
         /\ Live(Head(work_queue))
         /\ Head(work_queue).run \in known_run_ids
<1>1. Len(work_queue) \in Nat \ {0} /\ Head(work_queue) = work_queue[1]
  BY EmptySeq DEF TypeOK
<1>2. Live(Head(work_queue))
  BY <1>1 DEF HeldInv
<1> QED
  BY <1>1, <1>2 DEF Live, Jobs, RegistryInv, existing, NoRun, RunIds

\* Nothing but a new reservation adds to the runs seen.
LEMMA StepRunIds ==
  TypeOK /\ RunIdsInv /\ RegistryInv /\ HeldInv /\ KeptInv /\ ProcessInv /\ [Next]_vars
    => RunIdsInv'
<1> SUFFICES ASSUME TypeOK, RunIdsInv, RegistryInv, HeldInv, KeptInv, ProcessInv, [Next]_vars
             PROVE  RunIdsInv'
  OBVIOUS
<1> USE DEF registry, spans, bounds
<1>1. Seen' = Seen => RunIdsInv'
  BY DEF RunIdsInv
<1>2. ASSUME NEW h \in Handlers, NEW a \in Alerts, reserve_new(h, a) PROVE RunIdsInv'
  <2>1. new_run_id \in RunIds /\ Seen' = Seen \cup {new_run_id}
    BY <1>2 DEF reserve_new, Seen
  <2>2. Seen' = 1..new_run_id
    BY <2>1, NewRunIsFresh
  <2> QED
    BY <2>1, <2>2, BoundsAssumption DEF RunIdsInv, RunIds
<1>3. ASSUME NEW r \in known_run_ids, NEW o \in {"paused", "failed"},
             outcome' = [outcome EXCEPT ![r] = o], known_run_ids' = known_run_ids
      PROVE  Seen' = Seen
  BY <1>3 DEF Seen, TypeOK
<1>4. ASSUME NEW w \in Workers, reject_run(w) PROVE Seen' = Seen
  BY <1>3, <1>4, HeadIsKnown DEF reject_run, Take
<1>5. ASSUME NEW w \in Workers, finish_run(w) PROVE Seen' = Seen
  BY <1>3, <1>5, RunsAreKnown DEF finish_run
<1>6. ASSUME NEW w \in Workers, fail_run(w) PROVE Seen' = Seen
  BY <1>3, <1>6, RunsAreKnown DEF fail_run, InGraph
<1>7. CASE crash
  BY <1>1, <1>7 DEF crash, Seen, TypeOK
<1>8. CASE restart
  <2>1. ~alive
    BY <1>8 DEF restart, alive
  <2>2. known_run_ids \subseteq {r \in RunIds : outcome[r] # "none"}
    BY <2>1, NothingHeldWhenDown DEF TypeOK
  <2> QED
    BY <1>1, <1>8, <2>2 DEF restart, fresh_registry, Seen
<1>9. ASSUME UNCHANGED <<known_run_ids, outcome>> PROVE Seen' = Seen
  BY <1>9 DEF Seen
<1> QED
  BY <1>1, <1>2, <1>4, <1>5, <1>6, <1>7, <1>8, <1>9, AlertsNormalized
  DEF Next, webhook, pool_thread, run_handler, vars, reserve_existing, enqueue, approve,
      start_run, tool_call, graph_pauses, export_batch, shutdown_begins, lifespan_ends

\* A reservation is of an alert and a run nothing was known about.
LEMMA StepRegistry == TypeOK /\ RunIdsInv /\ RegistryInv /\ [Next]_vars => RegistryInv'
<1> SUFFICES ASSUME TypeOK, RunIdsInv, RegistryInv, [Next]_vars PROVE RegistryInv'
  OBVIOUS
<1> USE DEF registry, spans, bounds
<1>1. ASSUME NEW h \in Handlers, NEW a \in Alerts, reserve_new(h, a) PROVE RegistryInv'
  <2>1. new_run_id \in RunIds /\ new_run_id \notin known_run_ids
    BY <1>1, NewRunIsFresh DEF reserve_new, Seen
  <2>2. /\ run_ids_by_fingerprint' = [run_ids_by_fingerprint EXCEPT ![a] = new_run_id]
        /\ known_run_ids' = known_run_ids \cup {new_run_id}
    BY <1>1 DEF reserve_new
  <2> QED
    BY <2>1, <2>2 DEF RegistryInv, existing, TypeOK
<1>2. CASE restart
  BY <1>2 DEF restart, fresh_registry, RegistryInv, existing
<1>3. CASE UNCHANGED <<run_ids_by_fingerprint, known_run_ids>>
  BY <1>3 DEF RegistryInv, existing
<1> QED
  BY <1>1, <1>2, <1>3, AlertsNormalized
  DEF Next, webhook, pool_thread, run_handler, vars, reserve_existing, enqueue, approve,
      start_run, reject_run, tool_call, graph_pauses, finish_run, fail_run, export_batch,
      shutdown_begins, lifespan_ends, crash

--------------------------------------------------------------------------------
PlacesInv == HeldInv /\ ExclusiveInv /\ KeptInv

\* A reservation puts a run that is nowhere into its handler's hands.
LEMMA ReservePlaces ==
  ASSUME TypeOK, RunIdsInv, RegistryInv, PlacesInv,
         NEW h \in Handlers, NEW a \in Alerts, reserve_new(h, a)
  PROVE  PlacesInv'
<1> USE DEF PlacesInv
<1>1. PICK new \in RunIds :
         new = new_run_id /\ new \notin known_run_ids /\ outcome[new] = "none"
  BY NewRunIsFresh DEF reserve_new, Seen
<1>2. /\ run_ids_by_fingerprint' = [run_ids_by_fingerprint EXCEPT ![a] = new]
      /\ known_run_ids' = known_run_ids \cup {new}
      /\ handler' = [handler EXCEPT ![h] = [pc |-> "enqueue", job |-> [run |-> new, alert |-> a]]]
      /\ handler[h].pc = "idle" /\ run_ids_by_fingerprint[a] = NoRun
      /\ UNCHANGED <<work_queue, worker, outcome>>
  BY <1>1 DEF reserve_new, Posted, existing
<1>3. InHandler(new) = {} /\ InQueue(new) = {} /\ InWorker(new) = {}
  BY <1>1, HeldIsLive
<1>4. handler[h] = IdleHandler
  BY <1>2 DEF HeldInv
<1>5. ASSUME NEW job, Live(job) PROVE Live(job)'
  BY <1>2, <1>5 DEF Live, Jobs, TypeOK, NoRun, RunIds
<1>6. HeldInv'
  <2>1. Live([run |-> new, alert |-> a])'
    BY <1>1, <1>2 DEF Live, Jobs, TypeOK
  <2> QED
    BY <1>2, <1>5, <2>1 DEF HeldInv, TypeOK
<1>7. \A r \in RunIds : /\ InHandler(r)' = IF r = new THEN {h} ELSE InHandler(r)
                        /\ InQueue(r)' = InQueue(r) /\ InWorker(r)' = InWorker(r)
  <2>1. \A r \in RunIds : InQueue(r)' = InQueue(r) /\ InWorker(r)' = InWorker(r)
    BY <1>2 DEF InQueue, InWorker
  <2>2. \A g \in Handlers, r \in RunIds :
          handler'[g].job.run = r <=> IF g = h THEN r = new ELSE handler[g].job.run = r
    BY <1>2 DEF TypeOK
  <2>3. \A r \in RunIds : handler[h].job.run # r
    BY <1>4 DEF IdleHandler, NoJob, NoRun, RunIds
  <2>4. \A r \in RunIds : InHandler(r)' = IF r = new THEN {h} ELSE InHandler(r)
    BY <1>3, <2>2, <2>3 DEF InHandler
  <2> QED
    BY <2>1, <2>4
<1>8. ExclusiveInv'
  BY <1>3, <1>7 DEF ExclusiveInv
<1>9. KeptInv'
  BY <1>2, <1>7 DEF KeptInv, TypeOK
<1> QED
  BY <1>6, <1>8, <1>9

\* enqueue moves a run from its handler to the end of the queue.
LEMMA EnqueuePlaces ==
  ASSUME TypeOK, RegistryInv, PlacesInv, NEW h \in Handlers, enqueue(h)
  PROVE  PlacesInv'
<1> DEFINE job == handler[h].job
           n == Len(work_queue)
<1> USE DEF PlacesInv
<1>1. /\ handler[h].pc = "enqueue"
      /\ work_queue' = Append(work_queue, job)
      /\ handler' = [handler EXCEPT ![h] = IdleHandler]
      /\ UNCHANGED <<run_ids_by_fingerprint, known_run_ids, worker, outcome>>
  BY DEF enqueue, registry
<1>2. Live(job)
  BY <1>1 DEF HeldInv, IdleHandler
<1>3. /\ n \in Nat /\ Len(work_queue') = n + 1
      /\ \A i \in 1..n : work_queue'[i] = work_queue[i]
      /\ work_queue'[n + 1] = job
  BY <1>1, <1>2, AppendProperties, LenProperties DEF Live, TypeOK
<1>4. job \in Jobs /\ job.run \in RunIds
  BY <1>2 DEF Live, Jobs
<1>5. InHandler(job.run) = {h} /\ InQueue(job.run) = {} /\ InWorker(job.run) = {}
  BY <1>4 DEF ExclusiveInv, InHandler
<1>6. \A r \in RunIds : InHandler(r)' = IF r = job.run THEN {} ELSE InHandler(r)
  <2>1. \A g \in Handlers : handler'[g] = IF g = h THEN IdleHandler ELSE handler[g]
    BY <1>1 DEF TypeOK
  <2>2. \A r \in RunIds : IdleHandler.job.run # r
    BY DEF IdleHandler, NoJob, NoRun, RunIds
  <2>3. \A r \in RunIds : InHandler(r)' = InHandler(r) \ {h}
    BY <2>1, <2>2 DEF InHandler
  <2> QED
    BY <1>5, <2>3 DEF InHandler
<1>7. \A r \in RunIds : InQueue(r)' = IF r = job.run THEN {n + 1} ELSE InQueue(r)
  <2>1. \A r \in RunIds : \A i : i \in InQueue(r)' <=>
           i \in InQueue(r) \/ (i = n + 1 /\ r = job.run)
    BY <1>3 DEF InQueue
  <2> QED
    BY <1>5, <2>1
<1>8. \A r \in RunIds : InWorker(r)' = InWorker(r)
  BY <1>1 DEF InWorker
<1> HIDE DEF job, n
<1>9. HeldInv'
  <2>1. \A j : Live(j)' <=> Live(j)
    BY <1>1 DEF Live
  <2>2. \A g \in Handlers : handler'[g] = IdleHandler \/
           (handler'[g].pc = "enqueue" /\ Live(handler'[g].job))
    BY <1>1 DEF HeldInv, TypeOK
  <2>3. \A i \in 1..Len(work_queue') : Live(work_queue'[i])
    BY <1>2, <1>3 DEF HeldInv, n
  <2> QED
    BY <1>1, <2>1, <2>2, <2>3 DEF HeldInv
<1>10. ExclusiveInv'
  BY <1>5, <1>6, <1>7, <1>8 DEF ExclusiveInv
<1>11. KeptInv'
  BY <1>1, <1>6, <1>7, <1>8 DEF KeptInv, TypeOK
<1> QED
  BY <1>9, <1>10, <1>11

\* A pool thread takes the oldest run: it is queued nowhere else.
LEMMA TakenFromQueue ==
  ASSUME TypeOK, RegistryInv, PlacesInv, work_queue # <<>>, work_queue' = Tail(work_queue),
         NEW run, run = Head(work_queue).run
  PROVE  /\ run \in RunIds /\ Live(Head(work_queue)) /\ run \in known_run_ids
         /\ InHandler(run) = {} /\ InWorker(run) = {}
         /\ \A i \in 1..Len(work_queue') :
               i + 1 \in 1..Len(work_queue) /\ work_queue'[i] = work_queue[i + 1]
         /\ \A r \in RunIds : InQueue(r)' = {} <=> r = run \/ InQueue(r) = {}
         /\ \A r \in RunIds : \A i, j \in InQueue(r)' : i = j
<1> USE DEF PlacesInv
<1>1. /\ Len(work_queue) \in Nat \ {0} /\ Head(work_queue) = work_queue[1]
      /\ Live(Head(work_queue)) /\ run \in known_run_ids
  BY HeadIsKnown
<1>2. run \in RunIds /\ 1 \in InQueue(run)
  BY <1>1 DEF Live, Jobs, InQueue
<1>3. InHandler(run) = {} /\ InWorker(run) = {}
  BY <1>2 DEF ExclusiveInv
<1>4. /\ Len(work_queue') = Len(work_queue) - 1
      /\ \A i \in 1..Len(work_queue') : work_queue'[i] = work_queue[i + 1]
  BY HeadTailProperties DEF TypeOK
<1>5. \A i \in 1..Len(work_queue') : i + 1 \in 1..Len(work_queue)
  BY <1>1, <1>4
<1>6. \A r \in RunIds : \A i \in InQueue(r)' : i \in 1..Len(work_queue') /\ i + 1 \in InQueue(r)
  BY <1>4, <1>5 DEF InQueue
<1>7. \A r \in RunIds : \A i, j \in InQueue(r)' : i = j
  <2> SUFFICES ASSUME NEW r \in RunIds, NEW i \in InQueue(r)', NEW j \in InQueue(r)' PROVE i = j
    OBVIOUS
  <2>1. i + 1 = j + 1
    BY <1>6 DEF ExclusiveInv
  <2> QED
    BY <1>1, <1>4, <1>6, <2>1
<1>8. ASSUME NEW r \in RunIds PROVE InQueue(r)' = {} <=> r = run \/ InQueue(r) = {}
  <2>1. ASSUME NEW i \in InQueue(r)' PROVE r # run /\ InQueue(r) # {}
    <3>1. i + 1 \in InQueue(r) /\ i + 1 # 1
      BY <1>1, <1>4, <1>6
    <3> QED
      BY <1>2, <3>1 DEF ExclusiveInv
  <2>2. ASSUME r # run, NEW i \in InQueue(r) PROVE InQueue(r)' # {}
    <3>1. i \in 1..Len(work_queue) /\ i # 1 /\ work_queue[i].run = r
      BY <1>1, <2>2 DEF InQueue
    <3>2. i - 1 \in 1..Len(work_queue') /\ (i - 1) + 1 = i
      BY <1>1, <1>4, <3>1
    <3>3. i - 1 \in InQueue(r)'
      BY <1>4, <3>1, <3>2 DEF InQueue
    <3> QED
      BY <3>3
  <2> QED
    BY <2>1, <2>2
<1> QED
  BY <1>1, <1>2, <1>3, <1>4, <1>5, <1>7, <1>8

\* start_run moves it to the worker.
LEMMA StartPlaces ==
  ASSUME TypeOK, RegistryInv, PlacesInv, NEW w \in Workers, start_run(w)
  PROVE  /\ PlacesInv'
         /\ \A r \in RunIds :
               InWorker(r)' = IF r = Head(work_queue).run THEN {w} ELSE InWorker(r)
<1> USE DEF PlacesInv
<1>1. PICK job : job = Head(work_queue)
  OBVIOUS
<1>2. /\ worker[w].pc = "idle" /\ job.alert \in Supported
      /\ worker' = [worker EXCEPT ![w] = [pc |-> "graph", job |-> job, tools |-> 0]]
      /\ UNCHANGED <<run_ids_by_fingerprint, known_run_ids, handler, outcome>>
      /\ work_queue # <<>> /\ work_queue' = Tail(work_queue)
  BY <1>1 DEF start_run, Take, registry
<1>3. /\ job.run \in RunIds /\ Live(job) /\ job.run \in known_run_ids
      /\ InHandler(job.run) = {} /\ InWorker(job.run) = {}
      /\ \A i \in 1..Len(work_queue') :
            i + 1 \in 1..Len(work_queue) /\ work_queue'[i] = work_queue[i + 1]
      /\ \A r \in RunIds : InQueue(r)' = {} <=> r = job.run \/ InQueue(r) = {}
      /\ \A r \in RunIds : \A i, j \in InQueue(r)' : i = j
  BY <1>1, <1>2, TakenFromQueue
<1>4. \A j : Live(j)' <=> Live(j)
  BY <1>2 DEF Live
<1>5. \A v \in Workers :
        worker'[v] = IF v = w THEN [pc |-> "graph", job |-> job, tools |-> 0] ELSE worker[v]
  BY <1>2 DEF TypeOK
<1>6. HeldInv'
  <2>1. \A i \in 1..Len(work_queue') : Live(work_queue'[i])
    BY <1>3 DEF HeldInv
  <2>2. \A v \in Workers :
           \/ worker'[v] = IdleWorker
           \/ /\ worker'[v].pc \in {"graph", "paused"}
              /\ Live(worker'[v].job) /\ worker'[v].job.alert \in Supported
    BY <1>2, <1>3, <1>5 DEF HeldInv
  <2> QED
    BY <1>2, <1>4, <2>1, <2>2 DEF HeldInv
<1>7. \A r \in RunIds : InHandler(r)' = InHandler(r)
  BY <1>2 DEF InHandler
<1>8. \A r \in RunIds : InWorker(r)' = IF r = job.run THEN {w} ELSE InWorker(r)
  <2>1. \A r \in RunIds : w \notin InWorker(r)
    BY <1>2 DEF HeldInv, InWorker, IdleWorker, NoJob, NoRun, RunIds
  <2> QED
    BY <1>3, <1>5, <2>1 DEF InWorker
<1>9. ExclusiveInv'
  BY <1>3, <1>7, <1>8 DEF ExclusiveInv
<1>10. KeptInv'
  BY <1>2, <1>3, <1>7, <1>8 DEF KeptInv, TypeOK
<1> QED
  BY <1>1, <1>6, <1>8, <1>9, <1>10

\* reject_run ends it at once.
LEMMA RejectPlaces ==
  ASSUME TypeOK, RegistryInv, PlacesInv, NEW w \in Workers, reject_run(w)
  PROVE  PlacesInv'
<1> USE DEF PlacesInv
<1>1. PICK run : run = Head(work_queue).run
  OBVIOUS
<1>2. /\ outcome' = [outcome EXCEPT ![run] = "failed"]
      /\ UNCHANGED <<run_ids_by_fingerprint, known_run_ids, handler, worker>>
      /\ work_queue # <<>> /\ work_queue' = Tail(work_queue)
  BY <1>1 DEF reject_run, Take, registry
<1>3. /\ run \in RunIds /\ InHandler(run) = {} /\ InWorker(run) = {}
      /\ \A i \in 1..Len(work_queue') :
            i + 1 \in 1..Len(work_queue) /\ work_queue'[i] = work_queue[i + 1]
      /\ \A r \in RunIds : InQueue(r)' = {} <=> r = run \/ InQueue(r) = {}
      /\ \A r \in RunIds : \A i, j \in InQueue(r)' : i = j
  BY <1>1, <1>2, TakenFromQueue
<1>4. \A r \in RunIds : InHandler(r)' = InHandler(r) /\ InWorker(r)' = InWorker(r)
  BY <1>2 DEF InHandler, InWorker
<1>5. \A j : Live(j) /\ j.run # run => Live(j)'
  BY <1>2 DEF Live, TypeOK, Jobs
<1>6. HeldInv'
  <2>1. \A i \in 1..Len(work_queue') : Live(work_queue'[i]) /\ work_queue'[i].run # run
    BY <1>3 DEF HeldInv, InQueue
  <2>2. \A h \in Handlers : handler[h].job.run # run
    BY <1>3 DEF InHandler
  <2>3. \A v \in Workers : worker[v].job.run # run
    BY <1>3 DEF InWorker
  <2> QED
    BY <1>2, <1>5, <2>1, <2>2, <2>3 DEF HeldInv
<1>7. ExclusiveInv'
  BY <1>3, <1>4 DEF ExclusiveInv
<1>8. KeptInv'
  BY <1>2, <1>3, <1>4 DEF KeptInv, TypeOK
<1> QED
  BY <1>6, <1>7, <1>8

\* finish_run and fail_run end the run a worker executes.
LEMMA EndPlaces ==
  ASSUME TypeOK, RegistryInv, PlacesInv, NEW w \in Workers, worker[w].pc # "idle",
         NEW o \in {"paused", "failed"},
         outcome' = [outcome EXCEPT ![worker[w].job.run] = o],
         worker' = [worker EXCEPT ![w] = IdleWorker],
         UNCHANGED <<run_ids_by_fingerprint, known_run_ids, handler, work_queue>>
  PROVE  /\ PlacesInv'
         /\ \A r \in RunIds :
               InWorker(r)' = IF r = worker[w].job.run THEN {} ELSE InWorker(r)
<1> USE DEF PlacesInv
<1>1. PICK run : run = worker[w].job.run
  OBVIOUS
<1>2. run \in RunIds
  BY <1>1, RunsAreKnown DEF TypeOK
<1>3. InWorker(run) = {w} /\ InHandler(run) = {} /\ InQueue(run) = {}
  BY <1>1, <1>2 DEF ExclusiveInv, InWorker
<1>4. \A v \in Workers : worker'[v] = IF v = w THEN IdleWorker ELSE worker[v]
  BY DEF TypeOK
<1>5. \A r \in RunIds : InWorker(r)' = IF r = run THEN {} ELSE InWorker(r)
  <2>1. \A r \in RunIds : IdleWorker.job.run # r
    BY DEF IdleWorker, NoJob, NoRun, RunIds
  <2>2. \A r \in RunIds : InWorker(r)' = InWorker(r) \ {w}
    BY <1>4, <2>1 DEF InWorker
  <2>3. \A r \in RunIds : r # run => w \notin InWorker(r)
    BY <1>1 DEF InWorker
  <2> QED
    BY <1>3, <2>2, <2>3
<1>6. \A r \in RunIds : InHandler(r)' = InHandler(r) /\ InQueue(r)' = InQueue(r)
  BY DEF InHandler, InQueue
<1>7. \A j : Live(j) /\ j.run # run => Live(j)'
  BY <1>1 DEF Live, TypeOK, Jobs
<1>8. HeldInv'
  <2>1. \A i \in 1..Len(work_queue) : work_queue[i].run # run
    BY <1>3 DEF InQueue
  <2>2. \A h \in Handlers : handler[h].job.run # run
    BY <1>3 DEF InHandler
  <2>3. \A v \in Workers \ {w} : worker[v].job.run # run
    BY <1>3 DEF InWorker
  <2> QED
    BY <1>4, <1>7, <2>1, <2>2, <2>3 DEF HeldInv
<1>9. ExclusiveInv'
  BY <1>5, <1>6 DEF ExclusiveInv
<1>10. KeptInv'
  BY <1>1, <1>3, <1>5, <1>6 DEF KeptInv, TypeOK
<1> QED
  BY <1>1, <1>5, <1>8, <1>9, <1>10

\* Every step keeps every run in its place.
LEMMA StepPlaces ==
  ASSUME TypeOK, RunIdsInv, RegistryInv, PlacesInv, ProcessInv, [Next]_vars
  PROVE  PlacesInv'
<1> USE DEF registry, spans, bounds
<1>1. ASSUME NEW w \in Workers, finish_run(w) \/ fail_run(w) PROVE PlacesInv'
  BY <1>1, EndPlaces DEF finish_run, fail_run, InGraph
<1>2. ASSUME NEW w \in Workers, tool_call(w) \/ graph_pauses(w) PROVE PlacesInv'
  <2>1. /\ worker[w].pc = "graph"
        /\ UNCHANGED <<run_ids_by_fingerprint, known_run_ids, handler, work_queue, outcome>>
    BY <1>2 DEF tool_call, graph_pauses, InGraph
  <2>2. /\ \A v \in Workers \ {w} : worker'[v] = worker[v]
        /\ worker'[w].job = worker[w].job /\ worker'[w].pc \in {"graph", "paused"}
    <3>1. CASE tool_call(w)
      BY <2>1, <3>1 DEF tool_call, TypeOK
    <3>2. CASE graph_pauses(w)
      BY <3>2 DEF graph_pauses, TypeOK
    <3> QED
      BY <1>2, <3>1, <3>2
  <2>3. \A j : Live(j)' <=> Live(j)
    BY <2>1 DEF Live
  <2>4. HeldInv'
    <3>1. Live(worker[w].job) /\ worker[w].job.alert \in Supported
      BY <2>1 DEF PlacesInv, HeldInv, IdleWorker
    <3> QED
      BY <2>1, <2>2, <2>3, <3>1 DEF PlacesInv, HeldInv
  <2>5. \A r \in RunIds :
           InHandler(r)' = InHandler(r) /\ InQueue(r)' = InQueue(r) /\ InWorker(r)' = InWorker(r)
    BY <2>1, <2>2 DEF InHandler, InQueue, InWorker
  <2>6. ExclusiveInv'
    BY <2>5 DEF PlacesInv, ExclusiveInv
  <2>7. known_run_ids \subseteq RunIds
    BY DEF TypeOK
  <2>8. KeptInv'
    BY <2>1, <2>5, <2>7 DEF PlacesInv, KeptInv
  <2> QED
    BY <2>4, <2>6, <2>8 DEF PlacesInv
<1>3. CASE crash
  <2>1. \A r \in RunIds : InHandler(r)' = {} /\ InQueue(r)' = {} /\ InWorker(r)' = {}
    BY <1>3, EmptySeq
    DEF crash, InHandler, InQueue, InWorker, IdleHandler, IdleWorker, NoJob, NoRun, RunIds
  <2>2. HeldInv'
    BY <1>3, EmptySeq DEF crash, HeldInv
  <2>3. ExclusiveInv'
    BY <2>1 DEF ExclusiveInv
  <2>4. KeptInv'
    BY <1>3 DEF crash, KeptInv, TypeOK
  <2> QED
    BY <2>2, <2>3, <2>4 DEF PlacesInv
<1>4. CASE restart
  <2>1. /\ UNCHANGED <<handler, work_queue, worker>>
        /\ known_run_ids' = {} /\ ~alive
    BY <1>4 DEF restart, fresh_registry, alive
  <2>2. HeldInv'
    <3>1. \A h \in Handlers : handler[h] = IdleHandler
      BY <2>1 DEF ProcessInv, alive
    <3>2. \A w \in Workers : worker[w] = IdleWorker
      BY <2>1 DEF ProcessInv, drained, PlacesInv, HeldInv
    <3>3. Len(work_queue) = 0
      BY <2>1, EmptySeq DEF ProcessInv, drained
    <3> QED
      BY <2>1, <3>1, <3>2, <3>3 DEF HeldInv
  <2>3. ExclusiveInv'
    BY <2>1 DEF PlacesInv, ExclusiveInv, InHandler, InQueue, InWorker
  <2>4. KeptInv'
    BY <2>1 DEF KeptInv
  <2> QED
    BY <2>2, <2>3, <2>4 DEF PlacesInv
<1>5. ASSUME UNCHANGED <<run_ids_by_fingerprint, known_run_ids, handler, work_queue, worker,
                         outcome>>
      PROVE  PlacesInv'
  BY <1>5 DEF PlacesInv, HeldInv, Live, ExclusiveInv, KeptInv, InHandler, InQueue, InWorker
<1> QED
  BY <1>1, <1>2, <1>3, <1>4, <1>5, ReservePlaces, EnqueuePlaces, StartPlaces, RejectPlaces,
     AlertsNormalized
  DEF Next, webhook, pool_thread, run_handler, vars, reserve_existing, approve, export_batch,
      shutdown_begins, lifespan_ends

--------------------------------------------------------------------------------
\* A shutdown begins when no request is in flight and ends when the pool is idle.
LEMMA StepProcess == HeldInv /\ ProcessInv /\ [Next]_vars => ProcessInv'
<1> SUFFICES ASSUME HeldInv, ProcessInv, [Next]_vars PROVE ProcessInv'
  OBVIOUS
<1> USE DEF ProcessInv, alive
<1>1. ASSUME NEW h \in Handlers, webhook(h) PROVE process = "up" /\ process' = "up"
  BY <1>1 DEF webhook, reserve_new, reserve_existing, Posted, enqueue
<1>2. ASSUME NEW w \in Workers, pool_thread(w)
      PROVE  alive /\ UNCHANGED <<process, handler>>
  BY <1>2 DEF pool_thread, run_handler, start_run, reject_run, Take, tool_call, graph_pauses,
              finish_run, fail_run, InGraph
<1>3. CASE shutdown_begins
  BY <1>3 DEF shutdown_begins, HeldInv
<1>4. CASE lifespan_ends
  BY <1>4 DEF lifespan_ends, drained
<1>5. CASE crash
  BY <1>5 DEF crash, drained, IdleWorker
<1>6. CASE restart
  BY <1>6 DEF restart
<1>7. ASSUME alive, UNCHANGED <<process, handler>> PROVE ProcessInv'
  BY <1>7
<1>8. CASE UNCHANGED vars
  BY <1>8 DEF vars, spans, drained
<1> QED
  BY <1>1, <1>2, <1>3, <1>4, <1>5, <1>6, <1>7, <1>8 DEF Next, approve, export_batch

\* One more answer.
LEMMA Answered ==
  ASSUME TypeOK, NEW x \in Answers, answers' = Append(answers, x)
  PROVE  /\ Len(answers) \in Nat /\ Len(answers') = Len(answers) + 1
         /\ answers'[Len(answers) + 1] = x
         /\ \A i \in 1..Len(answers) : answers'[i] = answers[i] /\ answers[i] \in Answers
<1>1. answers \in Seq(Answers)
  BY DEF TypeOK, Answers
<1> QED
  BY <1>1, AppendProperties, LenProperties, ElementOfSeq

\* Every answer so far is of a run the registry knows.
LEMMA AnsweredKnown ==
  ASSUME TypeOK, RegistryInv, AnswersInv, NEW i \in 1..Len(answers)
  PROVE  /\ answers[i] \in Answers /\ existing(answers[i].alert)
         /\ answers[i].run \in known_run_ids
<1>1. answers[i] \in Answers
  BY ElementOfSeq DEF TypeOK, Answers
<1> QED
  BY <1>1 DEF AnswersInv, RegistryInv, existing, Answers, NoRun, RunIds

\* An answer names the registry's run, and keeps doing so until a restart.
LEMMA StepAnswers ==
  TypeOK /\ RegistryInv /\ HeldInv /\ AnswersInv /\ [Next]_vars => AnswersInv'
<1> SUFFICES ASSUME TypeOK, RegistryInv, HeldInv, AnswersInv, [Next]_vars PROVE AnswersInv'
  OBVIOUS
<1> USE DEF registry
<1>1. ASSUME NEW h \in Handlers, NEW a \in Alerts, reserve_new(h, a) PROVE AnswersInv'
  <2>1. \A i \in 1..Len(answers) : answers[i].alert \in Alerts /\ answers[i].alert # a
    BY <1>1, AnsweredKnown DEF reserve_new, Answers
  <2> QED
    BY <1>1, <2>1 DEF AnswersInv, reserve_new, TypeOK
<1>2. ASSUME NEW x \in Answers, answers' = Append(answers, x),
             run_ids_by_fingerprint' = run_ids_by_fingerprint,
             run_ids_by_fingerprint[x.alert] = x.run
      PROVE  AnswersInv'
  BY <1>2, Answered DEF AnswersInv
<1>3. ASSUME NEW h \in Handlers, NEW a \in Alerts, reserve_existing(h, a) PROVE AnswersInv'
  BY <1>2, <1>3 DEF reserve_existing, existing, Answer, Answers, TypeOK
<1>4. ASSUME NEW h \in Handlers, enqueue(h) PROVE AnswersInv'
  <2>1. Live(handler[h].job)
    BY <1>4 DEF enqueue, HeldInv, IdleHandler
  <2> QED
    BY <1>2, <1>4, <2>1 DEF enqueue, Answer, Answers, Live, Jobs
<1>5. CASE restart
  BY <1>5, EmptySeq DEF restart, AnswersInv
<1>6. CASE UNCHANGED <<run_ids_by_fingerprint, answers>>
  BY <1>6 DEF AnswersInv
<1> QED
  BY <1>1, <1>3, <1>4, <1>5, <1>6, AlertsNormalized
  DEF Next, webhook, pool_thread, run_handler, vars, approve, start_run, reject_run, tool_call,
      graph_pauses, finish_run, fail_run, export_batch, shutdown_begins, lifespan_ends, crash

\* Who is told that a run is new is told so once.
LEMMA StepFirstAnswer ==
  ASSUME TypeOK, RunIdsInv, RegistryInv, HeldInv, ExclusiveInv, AnswersInv, FirstAnswerInv,
         [Next]_vars
  PROVE  FirstAnswerInv'
<1> USE DEF registry
<1>1. ASSUME NEW h \in Handlers, NEW a \in Alerts, reserve_new(h, a) PROVE FirstAnswerInv'
  <2>1. PICK r \in RunIds :
           /\ r = new_run_id
           /\ handler' = [handler EXCEPT ![h] = [pc |-> "enqueue", job |-> [run |-> r, alert |-> a]]]
           /\ answers' = answers
    BY <1>1 DEF reserve_new
  <2>2. r \notin known_run_ids
    BY <2>1, NewRunIsFresh DEF Seen
  <2>3. \A i \in 1..Len(answers) : answers[i].run # r
    BY <2>2, AnsweredKnown
  <2>4. handler'[h].job.run = r /\ \A g \in Handlers : g # h => handler'[g] = handler[g]
    BY <2>1 DEF TypeOK
  <2> QED
    BY <2>1, <2>3, <2>4 DEF FirstAnswerInv
<1>2. ASSUME NEW h \in Handlers, NEW a \in Alerts, reserve_existing(h, a) PROVE FirstAnswerInv'
  <2>1. PICK x : x = Answer(run_ids_by_fingerprint[a], a, TRUE)
    OBVIOUS
  <2>2. /\ x \in Answers /\ x.duplicate = TRUE
        /\ answers' = Append(answers, x) /\ handler' = handler
    BY <1>2, <2>1 DEF reserve_existing, existing, Answer, Answers, TypeOK
  <2> QED
    BY <2>2, Answered DEF FirstAnswerInv
<1>3. ASSUME NEW h \in Handlers, enqueue(h) PROVE FirstAnswerInv'
  <2>1. PICK x : x = Answer(handler[h].job.run, handler[h].job.alert, FALSE)
    OBVIOUS
  <2>2. Live(handler[h].job)
    BY <1>3 DEF enqueue, HeldInv, IdleHandler
  <2>3. /\ x \in Answers /\ x.run = handler[h].job.run /\ x.run \in RunIds
        /\ answers' = Append(answers, x) /\ handler' = [handler EXCEPT ![h] = IdleHandler]
    BY <1>3, <2>1, <2>2 DEF enqueue, Answer, Answers, Live, Jobs
  <2>4. \A i \in 1..Len(answers) : answers[i].run = x.run => answers[i].duplicate
    BY <2>3 DEF FirstAnswerInv
  <2>5. \A g \in Handlers : handler'[g].job.run # x.run
    BY <2>3 DEF ExclusiveInv, InHandler, IdleHandler, NoJob, NoRun, RunIds, TypeOK
  <2>6. \A g \in Handlers, i \in 1..Len(answers) :
           answers[i].duplicate \/ handler'[g].job.run # answers[i].run
    BY <2>3, AnsweredKnown DEF FirstAnswerInv, IdleHandler, NoJob, NoRun, RunIds, TypeOK, Answers
  <2> QED
    BY <2>3, <2>4, <2>5, <2>6, Answered DEF FirstAnswerInv
<1>4. CASE restart
  BY <1>4, EmptySeq DEF restart, FirstAnswerInv
<1>5. CASE crash
  <2>1. answers' = answers /\ \A h \in Handlers : handler'[h].job.run = NoRun
    BY <1>5 DEF crash, IdleHandler, NoJob
  <2>2. \A i \in 1..Len(answers) : answers[i].run # NoRun
    BY AnsweredKnown DEF Answers, NoRun, RunIds
  <2> QED
    BY <2>1, <2>2 DEF FirstAnswerInv
<1>6. CASE UNCHANGED <<handler, answers>>
  BY <1>6 DEF FirstAnswerInv
<1> QED
  BY <1>1, <1>2, <1>3, <1>4, <1>5, <1>6, AlertsNormalized
  DEF Next, webhook, pool_thread, run_handler, vars, approve, start_run, reject_run, tool_call,
      graph_pauses, finish_run, fail_run, export_batch, shutdown_begins, lifespan_ends

--------------------------------------------------------------------------------
\* What a step does to the spans and the outcomes.
SpansKept ==
    /\ \A s \in AllSpans' : s.kind = "root" => s \in AllSpans
    /\ \A r \in RunIds : outcome[r] # "none" => outcome'[r] = outcome[r]

RunEnds(w, gate_status) ==
    /\ AllSpans' = AllSpans \cup {RootSpan(worker[w].job.run, gate_status)}
    /\ \E o \in {"paused", "failed"} : outcome' = [outcome EXCEPT ![worker[w].job.run] = o]

\* Only a run that ends stores a root span, and no outcome is ever revised.
LEMMA StepSpans ==
  ASSUME TypeOK, RegistryInv, HeldInv, [Next]_vars
  PROVE  \/ SpansKept
         \/ \E w \in Workers : worker[w].pc # "idle" /\ \E g \in {"auto_write", "none"} : RunEnds(w, g)
<1> USE DEF AllSpans, spans
<1>1. ASSUME NEW w \in Workers, finish_run(w) PROVE worker[w].pc # "idle" /\ RunEnds(w, "auto_write")
  BY <1>1 DEF finish_run, RunEnds
<1>2. ASSUME NEW w \in Workers, fail_run(w) PROVE worker[w].pc # "idle" /\ RunEnds(w, "none")
  BY <1>2 DEF fail_run, InGraph, RunEnds
<1>3. ASSUME NEW w \in Workers, tool_call(w) PROVE SpansKept
  BY <1>3 DEF tool_call, SpansKept, ToolSpan
<1>4. ASSUME NEW w \in Workers, reject_run(w) PROVE SpansKept
  <2>1. outcome[Head(work_queue).run] = "none"
    BY <1>4, HeadIsKnown DEF reject_run, Take, Live
  <2> QED
    BY <1>4, <2>1 DEF reject_run, SpansKept, TypeOK
<1>5. CASE export_batch
  BY <1>5 DEF export_batch, deliver, SpansKept
<1>6. CASE lifespan_ends
  BY <1>6 DEF lifespan_ends, deliver, SpansKept
<1>7. CASE crash
  BY <1>7 DEF crash, SpansKept, TypeOK
<1>8. ASSUME UNCHANGED <<spans, outcome>> PROVE SpansKept
  BY <1>8 DEF SpansKept
<1> QED
  BY <1>1, <1>2, <1>3, <1>4, <1>5, <1>6, <1>7, <1>8
  DEF Next, webhook, pool_thread, run_handler, vars, reserve_new, reserve_existing, enqueue,
      approve, start_run, graph_pauses, shutdown_begins, restart

\* A run ends, and its root span with it, once.
LEMMA StepRoots ==
  ASSUME TypeOK, RegistryInv, HeldInv, RootsInv, [Next]_vars
  PROVE  RootsInv'
<1>1. AllSpans \subseteq Spans
  BY DEF AllSpans, TypeOK
<1>2. \A s \in Spans : s.run \in RunIds
  BY DEF Spans, RootSpan, ToolSpan
<1>3. CASE SpansKept
  BY <1>1, <1>2, <1>3 DEF SpansKept, RootsInv
<1>4. ASSUME NEW w \in Workers, worker[w].pc # "idle",
             NEW g \in {"auto_write", "none"}, RunEnds(w, g)
      PROVE  RootsInv'
  <2>1. PICK s : s = RootSpan(worker[w].job.run, g)
    OBVIOUS
  <2>2. s.kind = "root" /\ s.run = worker[w].job.run
    BY <2>1 DEF RootSpan
  <2>3. s.run \in RunIds /\ outcome[s.run] = "none"
    BY <1>4, <2>2, RunsAreKnown DEF Live, TypeOK
  <2>4. \A t \in AllSpans : t.kind = "root" => t.run # s.run
    BY <2>3 DEF RootsInv
  <2>5. \A r \in RunIds : outcome[r] # "none" \/ r = s.run => outcome'[r] # "none"
    BY <1>4, <2>2, <2>3 DEF RunEnds, TypeOK
  <2> QED
    BY <1>1, <1>2, <1>4, <2>1, <2>2, <2>3, <2>4, <2>5 DEF RunEnds, RootsInv
<1> QED
  BY <1>3, <1>4, StepSpans

\* A living process loses no run, nor the root span of one it let end.
LEMMA StepEnded ==
  ASSUME TypeOK, RunIdsInv, RegistryInv, HeldInv, EndedInv, [Next]_vars
  PROVE  EndedInv'
<1> USE DEF registry, spans, bounds
<1>1. ASSUME process # "crashed", AllSpans \subseteq AllSpans',
             UNCHANGED <<run_ids_by_fingerprint, known_run_ids, outcome>>
      PROVE  EndedInv'
  BY <1>1 DEF EndedInv, existing
<1>2. ASSUME NEW w \in Workers, worker[w].pc # "idle", process # "crashed",
             NEW g \in {"auto_write", "none"}, RunEnds(w, g),
             UNCHANGED <<run_ids_by_fingerprint, known_run_ids>>
      PROVE  EndedInv'
  <2>1. PICK s : s = RootSpan(worker[w].job.run, g)
    OBVIOUS
  <2>2. s.kind = "root" /\ s.run = worker[w].job.run /\ s \in AllSpans'
    BY <1>2, <2>1 DEF RootSpan, RunEnds
  <2>3. AllSpans \subseteq AllSpans'
    BY <1>2 DEF RunEnds
  <2>4. \A r \in RunIds : outcome'[r] = outcome[r] \/ (r = s.run /\ outcome'[r] \in {"paused", "failed"})
    BY <1>2, <2>2 DEF RunEnds, TypeOK
  <2>5. \A r \in known_run_ids : outcome'[r] # "lost"
    <3>1. \A r \in known_run_ids : r \in RunIds /\ outcome[r] # "lost"
      BY <1>2 DEF EndedInv, TypeOK
    <3> QED
      BY <1>2, <2>4, <3>1
  <2>6. ASSUME NEW a \in Supported, existing(a), outcome'[run_ids_by_fingerprint[a]] # "none"
        PROVE  \E t \in AllSpans' : t.kind = "root" /\ t.run = run_ids_by_fingerprint[a]
    <3>1. run_ids_by_fingerprint[a] \in RunIds
      BY <2>6 DEF existing, Supported, TypeOK
    <3>2. CASE run_ids_by_fingerprint[a] = s.run
      BY <2>2, <3>2
    <3>3. CASE run_ids_by_fingerprint[a] # s.run
      <4>1. outcome[run_ids_by_fingerprint[a]] # "none"
        BY <2>4, <2>6, <3>1, <3>3
      <4>2. \E t \in AllSpans : t.kind = "root" /\ t.run = run_ids_by_fingerprint[a]
        BY <1>2, <2>6, <4>1 DEF EndedInv
      <4> QED
        BY <2>3, <4>2
    <3> QED
      BY <3>2, <3>3
  <2>7. \A a \in Supported : existing(a)' <=> existing(a)
    BY <1>2 DEF existing
  <2> QED
    BY <1>2, <2>5, <2>6, <2>7 DEF EndedInv
<1>3. ASSUME NEW h \in Handlers, NEW a \in Alerts, reserve_new(h, a) PROVE EndedInv'
  <2>1. PICK new \in RunIds : new = new_run_id /\ outcome[new] = "none"
    BY <1>3, NewRunIsFresh DEF reserve_new, Seen
  <2>2. /\ process = "up" /\ AllSpans' = AllSpans /\ outcome' = outcome
        /\ known_run_ids' = known_run_ids \cup {new}
        /\ run_ids_by_fingerprint' = [run_ids_by_fingerprint EXCEPT ![a] = new]
    BY <1>3, <2>1 DEF reserve_new, Posted, AllSpans
  <2> QED
    BY <2>1, <2>2 DEF EndedInv, existing, TypeOK, Supported
<1>4. ASSUME NEW w \in Workers, reject_run(w) PROVE EndedInv'
  <2>1. PICK job : job = Head(work_queue)
    OBVIOUS
  <2>2. /\ alive /\ AllSpans' = AllSpans /\ job.alert \notin Supported
        /\ outcome' = [outcome EXCEPT ![job.run] = "failed"]
        /\ UNCHANGED <<run_ids_by_fingerprint, known_run_ids>>
    BY <1>4, <2>1 DEF reject_run, Take, AllSpans
  <2>3. Live(job)
    BY <1>4, <2>1, HeadIsKnown DEF reject_run, Take
  <2>4. \A a \in Supported : existing(a) => run_ids_by_fingerprint[a] # job.run
    BY <2>2, <2>3 DEF RegistryInv, Live, Jobs, Supported
  <2> QED
    BY <2>2, <2>4 DEF EndedInv, existing, alive, TypeOK, Supported
<1>5. ASSUME NEW w \in Workers, finish_run(w) PROVE EndedInv'
  BY <1>2, <1>5 DEF finish_run, alive, RunEnds, AllSpans
<1>6. ASSUME NEW w \in Workers, fail_run(w) PROVE EndedInv'
  BY <1>2, <1>6 DEF fail_run, InGraph, alive, RunEnds, AllSpans
<1>7. CASE export_batch
  BY <1>1, <1>7 DEF export_batch, alive, deliver, AllSpans
<1>8. CASE lifespan_ends
  BY <1>1, <1>8 DEF lifespan_ends, deliver, AllSpans
<1>9. CASE crash
  BY <1>9 DEF crash, EndedInv
<1>10. CASE restart
  BY <1>10 DEF restart, fresh_registry, EndedInv, existing, Supported
<1>11. ASSUME NEW h \in Handlers, NEW a \in Alerts, reserve_existing(h, a) PROVE EndedInv'
  BY <1>1, <1>11 DEF reserve_existing, Posted, AllSpans
<1>12. ASSUME NEW h \in Handlers, enqueue(h) PROVE EndedInv'
  BY <1>1, <1>12 DEF enqueue, AllSpans
<1>13. ASSUME NEW r \in RunIds, NEW p \in Approvers, approve(r, p) PROVE EndedInv'
  BY <1>1, <1>13 DEF approve, AllSpans
<1>14. ASSUME NEW w \in Workers, start_run(w) \/ tool_call(w) \/ graph_pauses(w) PROVE EndedInv'
  BY <1>1, <1>14 DEF start_run, Take, tool_call, graph_pauses, InGraph, alive, AllSpans
<1>15. CASE shutdown_begins
  BY <1>1, <1>15 DEF shutdown_begins, AllSpans
<1>16. CASE UNCHANGED vars
  BY <1>16 DEF vars, EndedInv, existing, AllSpans
<1> QED
  BY <1>3, <1>4, <1>5, <1>6, <1>7, <1>8, <1>9, <1>10, <1>11, <1>12, <1>13, <1>14, <1>15, <1>16,
     AlertsNormalized
  DEF Next, webhook, pool_thread, run_handler

\* Each conjunct is kept with the help of the others.
LEMMA Inductive == Spec => []IInv
<1>1. IInv /\ [Next]_vars => IInv'
  BY StepTypes, StepRunIds, StepRegistry, StepPlaces, StepProcess, StepAnswers,
     StepFirstAnswer, StepRoots, StepEnded
  DEF IInv, PlacesInv
<1> QED
  BY InitIInv, <1>1, PTL DEF Spec

--------------------------------------------------------------------------------
\* Type correctness.
THEOREM TypeCorrect == Spec => []TypeOK
<1>1. IInv => TypeOK
  BY DEF IInv
<1> QED
  BY <1>1, Inductive, PTL

\* A reserved run is at any time in exactly one of its handler's hands, the
\* queue, a worker's hands and the ended runs, whatever posts, retries and
\* workers do between reserve and enqueue.
THEOREM OnePlace == Spec => []OnePlacePerRun
<1>1. IInv => OnePlacePerRun
  <2> SUFFICES ASSUME IInv, NEW r \in known_run_ids
               PROVE  Cardinality(InHandler(r)) + Cardinality(InQueue(r))
                      + Cardinality(InWorker(r)) + Cardinality(Ended(r)) = 1
    BY DEF OnePlacePerRun
  <2> USE DEF IInv
  <2>1. r \in RunIds
    BY DEF TypeOK
  <2>2. \A S : (\A x, y \in S : x = y) => S = {} \/ \E x : S = {x}
    OBVIOUS
  <2>3. \A S : (\A x, y \in S : x = y) => Cardinality(S) = IF S = {} THEN 0 ELSE 1
    BY <2>2, FS_EmptySet, FS_Singleton
  <2>4. /\ Cardinality(InHandler(r)) = IF InHandler(r) = {} THEN 0 ELSE 1
        /\ Cardinality(InQueue(r)) = IF InQueue(r) = {} THEN 0 ELSE 1
        /\ Cardinality(InWorker(r)) = IF InWorker(r) = {} THEN 0 ELSE 1
    BY <2>1, <2>3 DEF ExclusiveInv
  <2>5. Cardinality(Ended(r)) = IF outcome[r] = "none" THEN 0 ELSE 1
    BY FS_EmptySet, FS_Singleton DEF Ended
  <2>6. CASE outcome[r] = "none"
    BY <2>1, <2>4, <2>5, <2>6 DEF KeptInv, ExclusiveInv
  <2>7. CASE outcome[r] # "none"
    BY <2>1, <2>4, <2>5, <2>7, HeldIsLive
  <2> QED
    BY <2>6, <2>7
<1> QED
  BY <1>1, Inductive, PTL

\* One alert has one run id for as long as the process lives, no two alerts share
\* one, and one of its posts at most is answered as the one that started it.
THEOREM RunIdIsStable == Spec => []StableRunId
<1>1. IInv => StableRunId
  <2> SUFFICES ASSUME IInv, NEW i \in 1..Len(answers), NEW j \in 1..Len(answers)
               PROVE  /\ answers[i].alert = answers[j].alert <=> answers[i].run = answers[j].run
                      /\ i # j /\ answers[i].alert = answers[j].alert =>
                            answers[i].duplicate \/ answers[j].duplicate
    BY DEF StableRunId
  <2>1. /\ answers[i] \in Answers /\ existing(answers[i].alert)
        /\ answers[j] \in Answers /\ existing(answers[j].alert)
    BY AnsweredKnown DEF IInv
  <2>2. /\ run_ids_by_fingerprint[answers[i].alert] = answers[i].run
        /\ run_ids_by_fingerprint[answers[j].alert] = answers[j].run
    BY DEF IInv, AnswersInv
  <2>3. answers[i].alert = answers[j].alert <=> answers[i].run = answers[j].run
    BY <2>1, <2>2 DEF IInv, RegistryInv, Answers
  <2> QED
    BY <2>3 DEF IInv, FirstAnswerInv
<1> QED
  BY <1>1, Inductive, PTL

\* An orderly shutdown leaves no run unfinished and no span in memory: the root
\* span of a supported run is stored, or was in a batch that was lost.
THEOREM StopIsClean == Spec => []CleanStop
<1>1. IInv => CleanStop
  <2> SUFFICES ASSUME IInv, process = "stopped"
               PROVE  /\ pending = {}
                      /\ \A i \in 1..Len(answers) :
                            /\ outcome[answers[i].run] # "none"
                            /\ answers[i].alert \in Supported =>
                                  \E s \in phoenix \cup dropped :
                                      s.kind = "root" /\ s.run = answers[i].run
    BY DEF CleanStop
  <2> USE DEF IInv
  <2>1. ~alive
    BY DEF alive
  <2>2. pending = {}
    BY <2>1 DEF ProcessInv
  <2> SUFFICES ASSUME NEW i \in 1..Len(answers)
               PROVE  /\ outcome[answers[i].run] # "none"
                      /\ answers[i].alert \in Supported =>
                            \E s \in phoenix \cup dropped : s.kind = "root" /\ s.run = answers[i].run
    BY <2>2
  <2>3. /\ existing(answers[i].alert) /\ answers[i].run \in known_run_ids
        /\ run_ids_by_fingerprint[answers[i].alert] = answers[i].run
    BY AnsweredKnown DEF AnswersInv
  <2>4. outcome[answers[i].run] # "none"
    BY <2>1, <2>3, NothingHeldWhenDown
  <2>5. ASSUME answers[i].alert \in Supported
        PROVE  \E s \in phoenix \cup dropped : s.kind = "root" /\ s.run = answers[i].run
    <3>1. PICK s \in AllSpans : s.kind = "root" /\ s.run = answers[i].run
      BY <2>3, <2>4, <2>5 DEF EndedInv
    <3> QED
      BY <2>2, <3>1 DEF AllSpans
  <2> QED
    BY <2>4, <2>5
<1> QED
  BY <1>1, Inductive, PTL

--------------------------------------------------------------------------------
\* Phoenix only gains spans.
LEMMA PhoenixGrows == [Next]_vars => phoenix \subseteq phoenix'
  BY DEF Next, webhook, pool_thread, run_handler, vars, spans, reserve_new, reserve_existing,
         enqueue, approve, start_run, reject_run, tool_call, graph_pauses, finish_run, fail_run,
         export_batch, deliver, shutdown_begins, lifespan_ends, crash, restart

\* No step revises how a run ended or what an audit has already shown of it.
THEOREM HistoryIsKept == Spec => HistoryKept
<1> DEFINE Kept == \A r \in RunIds :
                      /\ outcome[r] # "none" => outcome'[r] = outcome[r]
                      /\ run_status(r) # "not found" => run_status(r)' = run_status(r)
<1>1. IInv /\ IInv' /\ [Next]_vars => Kept
  <2> SUFFICES ASSUME IInv, IInv', [Next]_vars, NEW r \in RunIds
               PROVE  /\ outcome[r] # "none" => outcome'[r] = outcome[r]
                      /\ run_status(r) # "not found" => run_status(r)' = run_status(r)
    OBVIOUS
  <2>1. outcome[r] # "none" => outcome'[r] = outcome[r]
    <3>1. CASE SpansKept
      BY <3>1 DEF SpansKept
    <3>2. ASSUME NEW w \in Workers, worker[w].pc # "idle",
                 NEW g \in {"auto_write", "none"}, RunEnds(w, g)
          PROVE  outcome[r] # "none" => outcome'[r] = outcome[r]
      <4>1. outcome[worker[w].job.run] = "none"
        BY <3>2, RunsAreKnown DEF IInv, Live
      <4> QED
        BY <3>2, <4>1 DEF RunEnds, IInv, TypeOK
    <3> QED
      BY <3>1, <3>2, StepSpans DEF IInv
  <2>2. ASSUME roots(r) # {} PROVE roots(r)' = roots(r)
    <3>1. roots(r) \subseteq roots(r)'
      BY PhoenixGrows DEF roots
    <3>2. \A s, t \in roots(r)' : s = t
      BY DEF roots, IInv, RootsInv, AllSpans
    <3> QED
      BY <2>2, <3>1, <3>2
  <2>3. run_status(r) # "not found" => run_status(r)' = run_status(r)
    BY <2>2 DEF run_status
  <2> QED
    BY <2>1, <2>3
<1>2. Kept => [Kept]_vars
  OBVIOUS
<1> QED
  BY <1>1, <1>2, Inductive, PTL DEF Spec, HistoryKept

--------------------------------------------------------------------------------
\* The ledger's view of a run that stays where it is, as far as the ledger can tell.
LEMMA LedgerStutters ==
  ASSUME UNCHANGED <<run_ids_by_fingerprint, known_run_ids, outcome>>,
         \A r \in RunIds : InWorker(r)' = {} <=> InWorker(r) = {}
  PROVE  UNCHANGED <<run_ids_by_fingerprint, ledger_state>>
  BY DEF ledger_state

\* Every step of the service is a step of the ledger.
LEMMA StepLedger ==
  ASSUME IInv, [Next]_vars
  PROVE  [Ledger!LedgerNext]_(Ledger!ledgerVars)
<1> USE DEF IInv, registry, Ledger!ledgerVars
<1>1. ASSUME NEW h \in Handlers, NEW a \in Alerts, reserve_new(h, a)
      PROVE  \E r \in RunIds : Ledger!Accept(a, r)
  <2>1. PICK new \in RunIds :
           new = new_run_id /\ new \notin known_run_ids /\ outcome[new] = "none"
    BY <1>1, NewRunIsFresh DEF reserve_new, Seen
  <2>2. /\ run_ids_by_fingerprint[a] = NoRun
        /\ run_ids_by_fingerprint' = [run_ids_by_fingerprint EXCEPT ![a] = new]
        /\ known_run_ids' = known_run_ids \cup {new}
        /\ UNCHANGED <<worker, outcome>>
    BY <1>1, <2>1 DEF reserve_new, existing
  <2>3. InWorker(new) = {} /\ \A r \in RunIds : InWorker(r)' = InWorker(r)
    BY <2>1, <2>2, HeldIsLive DEF InWorker
  <2>4. ledger_state[new] = "unknown" /\ ledger_state' = [ledger_state EXCEPT ![new] = "accepted"]
    BY <2>1, <2>2, <2>3 DEF ledger_state
  <2> QED
    BY <2>2, <2>4 DEF Ledger!Accept
<1>2. ASSUME NEW w \in Workers, start_run(w) PROVE \E r \in RunIds : Ledger!Begin(r)
  <2>1. PICK run : run = Head(work_queue).run
    OBVIOUS
  <2>2. /\ run \in RunIds /\ outcome[run] = "none" /\ run \in known_run_ids /\ InWorker(run) = {}
    BY <1>2, <2>1, TakenFromQueue DEF start_run, Take, PlacesInv, Live
  <2>3. \A r \in RunIds : InWorker(r)' = IF r = run THEN {w} ELSE InWorker(r)
    BY <1>2, <2>1, StartPlaces DEF PlacesInv
  <2>4. UNCHANGED <<run_ids_by_fingerprint, known_run_ids, outcome>>
    BY <1>2 DEF start_run
  <2>5. ledger_state[run] = "accepted" /\ ledger_state' = [ledger_state EXCEPT ![run] = "running"]
    BY <2>2, <2>3, <2>4 DEF ledger_state
  <2> QED
    BY <2>2, <2>4, <2>5 DEF Ledger!Begin
<1>3. ASSUME NEW w \in Workers, reject_run(w) PROVE \E r \in RunIds : Ledger!End(r)
  <2>1. PICK run : run = Head(work_queue).run
    OBVIOUS
  <2>2. /\ run \in RunIds /\ outcome[run] = "none" /\ run \in known_run_ids /\ InWorker(run) = {}
    BY <1>3, <2>1, TakenFromQueue DEF reject_run, Take, PlacesInv, Live
  <2>3. /\ UNCHANGED <<run_ids_by_fingerprint, known_run_ids>>
        /\ outcome' = [outcome EXCEPT ![run] = "failed"]
        /\ \A r \in RunIds : InWorker(r)' = InWorker(r)
    BY <1>3, <2>1 DEF reject_run, InWorker
  <2>4. ledger_state[run] = "accepted" /\ ledger_state' = [ledger_state EXCEPT ![run] = "failed"]
    BY <2>2, <2>3 DEF ledger_state, TypeOK
  <2> QED
    BY <2>2, <2>3, <2>4 DEF Ledger!End
<1>4. ASSUME NEW w \in Workers, worker[w].pc # "idle", NEW o \in {"paused", "failed"},
             outcome' = [outcome EXCEPT ![worker[w].job.run] = o],
             worker' = [worker EXCEPT ![w] = IdleWorker],
             UNCHANGED <<run_ids_by_fingerprint, known_run_ids, handler, work_queue>>
      PROVE  \E r \in RunIds : Ledger!End(r)
  <2>1. PICK run : run = worker[w].job.run
    OBVIOUS
  <2>2. run \in RunIds /\ w \in InWorker(run)
    BY <1>4, <2>1, RunsAreKnown DEF TypeOK, InWorker
  <2>3. \A r \in RunIds : InWorker(r)' = IF r = run THEN {} ELSE InWorker(r)
    BY <1>4, <2>1, EndPlaces DEF PlacesInv
  <2>4. ledger_state[run] = "running" /\ ledger_state' = [ledger_state EXCEPT ![run] = o]
    BY <1>4, <2>1, <2>2, <2>3 DEF ledger_state, TypeOK
  <2> QED
    BY <1>4, <2>2, <2>4 DEF Ledger!End
<1>5. ASSUME NEW w \in Workers, finish_run(w) \/ fail_run(w)
      PROVE  \E r \in RunIds : Ledger!End(r)
  BY <1>4, <1>5 DEF finish_run, fail_run, InGraph
<1>6. CASE crash
  <2>1. \A r \in RunIds : InWorker(r)' = {}
    BY <1>6 DEF crash, InWorker, IdleWorker, NoJob, NoRun, RunIds
  <2>2. \A r \in RunIds : InWorker(r) # {} => r \in known_run_ids /\ outcome[r] = "none"
    BY HeldIsLive
  <2>3. /\ UNCHANGED <<run_ids_by_fingerprint, known_run_ids>>
        /\ \A r \in RunIds : outcome'[r] =
              IF r \in known_run_ids /\ outcome[r] = "none" THEN "lost" ELSE outcome[r]
    BY <1>6 DEF crash
  <2>4. ledger_state' = [r \in RunIds |->
           IF ledger_state[r] \in {"accepted", "running"} THEN "lost" ELSE ledger_state[r]]
    BY <2>1, <2>2, <2>3 DEF ledger_state, TypeOK
  <2> QED
    BY <2>3, <2>4 DEF Ledger!LedgerNext, Ledger!Reset
<1>7. CASE restart
  <2>1. /\ ~alive /\ UNCHANGED <<worker, outcome>>
        /\ known_run_ids' = {} /\ run_ids_by_fingerprint' = [a \in Alerts |-> NoRun]
    BY <1>7 DEF restart, alive, fresh_registry
  <2>2. \A r \in known_run_ids : outcome[r] # "none"
    BY <2>1, NothingHeldWhenDown
  <2>3. \A r \in RunIds : InWorker(r) = {} /\ InWorker(r)' = {}
    BY <2>1 DEF ProcessInv, drained, HeldInv, InWorker, IdleWorker, NoJob, NoRun, RunIds
  <2>4. ledger_state' = [r \in RunIds |->
           IF ledger_state[r] \in {"accepted", "running"} THEN "lost" ELSE ledger_state[r]]
    BY <2>1, <2>2, <2>3 DEF ledger_state, TypeOK
  <2> QED
    BY <2>1, <2>4 DEF Ledger!LedgerNext, Ledger!Reset
<1>8. ASSUME NEW w \in Workers, tool_call(w) \/ graph_pauses(w)
      PROVE  UNCHANGED Ledger!ledgerVars
  <2>1. \A v \in Workers : worker'[v].job = worker[v].job
    <3>1. CASE tool_call(w)
      BY <3>1 DEF tool_call, TypeOK
    <3>2. CASE graph_pauses(w)
      BY <3>2 DEF graph_pauses, TypeOK
    <3> QED
      BY <1>8, <3>1, <3>2
  <2>2. \A r \in RunIds : InWorker(r)' = InWorker(r)
    BY <2>1 DEF InWorker
  <2> QED
    BY <1>8, <2>2, LedgerStutters DEF tool_call, graph_pauses
<1>9. ASSUME UNCHANGED <<run_ids_by_fingerprint, known_run_ids, outcome, worker>>
      PROVE  UNCHANGED Ledger!ledgerVars
  BY <1>9, LedgerStutters DEF InWorker
<1> QED
  BY <1>1, <1>2, <1>3, <1>5, <1>6, <1>7, <1>8, <1>9, AlertsNormalized
  DEF Next, webhook, pool_thread, run_handler, vars, reserve_existing, enqueue, approve,
      export_batch, shutdown_begins, lifespan_ends, Ledger!LedgerNext

\* The service keeps every safety promise of the run ledger: one run per alert,
\* begun at most once, with one final outcome, lost only by a crash.
THEOREM ServiceKeepsLedger == Spec => Ledger!LedgerSafe
<1>1. Init => Ledger!LedgerInit
  <2> SUFFICES ASSUME Init PROVE Ledger!LedgerInit
    OBVIOUS
  <2>1. \A r \in RunIds : InWorker(r) = {}
    BY DEF Init, InWorker, IdleWorker, NoJob, NoRun, RunIds
  <2> QED
    BY <2>1 DEF Init, fresh_registry, Ledger!LedgerInit, ledger_state
<1>2. IInv /\ [Next]_vars => [Ledger!LedgerNext]_(Ledger!ledgerVars)
  BY StepLedger
<1> QED
  BY <1>1, <1>2, Inductive, PTL DEF Spec, Ledger!LedgerSafe
================================================================================
