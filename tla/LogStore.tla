-------------------------------- MODULE LogStore --------------------------------
(* The Postgres log store.  scripts/generate_logs.py and seed_runbooks.py     *)
(* write it, a transaction per run of the script, several runs possibly at    *)
(* once; the tools over src/clients/logstore.py read it, a statement and a    *)
(* connection per call.  Postgres is external: read committed, locks held to  *)
(* the end of the transaction.  An operator whose name is another's with a    *)
(* suffix is a slip a change to the code could make; no action uses it.       *)
EXTENDS Integers, FiniteSets

CONSTANTS
    Corpus,               \* the log lines generate_logs draws, dated back from NOW
    Incidents,            \* ids of the past incidents it draws
    Runbooks,             \* the RB-*.md files
    Models,               \* embedding models, no two of the same dimensions
    NoModel,
    Null,                 \* SQL NULL in an embedding column
    Zero,                 \* zero_vector
    Scripts,              \* processes the scripts are run in
    Alert,                \* what the reader asks about: service, window_start, window_end
    log_search_limit, vector_search_limit,
    Keywords,             \* keywords a caller may search for
    NoKeyword,            \* None, or the empty text
    Limits,               \* limits a caller passes, 0 for None too
    Clock,                \* instants a script may start at
    MaxStarts             \* bound: runs of a script

ASSUME CorpusAssumption ==
    /\ IsFiniteSet(Corpus)
    /\ \A r \in Corpus :
        r.level \in {"ERROR", "WARN", "INFO"} /\ r.age \in Nat /\ r.matches \subseteq Keywords
ASSUME KeywordsAssumption == NoKeyword \notin Keywords
ASSUME LimitsAssumption ==
    /\ log_search_limit \in Nat \ {0} /\ vector_search_limit \in Nat \ {0}
    /\ Limits \subseteq Nat
ASSUME NamesAssumption ==
    /\ IsFiniteSet(Incidents) /\ IsFiniteSet(Runbooks)
    /\ Models # {} /\ NoModel \notin Models
    /\ Null # Zero /\ Null \notin [load : Nat, model : Models]
ASSUME BoundsAssumption == Clock \subseteq Int /\ Clock # {} /\ MaxStarts \in Nat

VARIABLES
    tables,   \* what is committed
    txn,      \* the transaction of each process
    now,      \* the instant the last script started at
    starts,   \* history: runs of a script
    seeded,   \* history: last seeding committed "never", "before" or "since" the last load
    reader    \* the last tool calls of one agent

vars == <<tables, txn, now, starts, seeded, reader>>

--------------------------------------------------------------------------------
(* Tables and locks *)

Tables == {"logs", "past_incidents", "runbooks"}
VectorTables == {"past_incidents", "runbooks"}

\* A text is known by the load that wrote it (runbooks never change), a vector
\* by its text and model.
Vector(load, model) == [load |-> load, model |-> model]

NoRows == [load |-> 0, embedding |-> [i \in {} |-> Null]]

Empty == [logs |-> [load |-> 0, NOW |-> 0], past_incidents |-> NoRows, runbooks |-> NoRows]

NoTransaction == [pc |-> "idle", load |-> 0, NOW |-> 0, model |-> NoModel,
                  held |-> [t \in Tables |-> "none"], own |-> Empty]

\* The lock the next statement of a transaction waits for.  An UPDATE locks the
\* table against TRUNCATE and ALTER first ("share") and then its rows.
wanted(pc) ==
    CASE pc = "load_logs"       -> [table |-> "logs", mode |-> "table"]
      [] pc = "load_incidents"  -> [table |-> "past_incidents", mode |-> "table"]
      [] pc = "reset"           -> [table |-> "past_incidents", mode |-> "share"]
      [] pc = "update"          -> [table |-> "past_incidents", mode |-> "rows"]
      [] pc = "alter_runbooks"  -> [table |-> "runbooks", mode |-> "table"]
      [] pc = "alter_incidents" -> [table |-> "past_incidents", mode |-> "table"]
      [] pc = "count_levels"    -> [table |-> "logs", mode |-> "read"]
      [] OTHER                  -> [table |-> "logs", mode |-> "none"]

RowsOf(p) == DOMAIN txn[p].own.past_incidents.embedding

\* p cannot go on before q's transaction has ended.
WaitsFor(p, q) ==
    LET want == wanted(txn[p].pc)
        held == txn[q].held[want.table]
    IN  /\ p # q
        /\ \/ want.mode = "table" /\ held # "none"
           \/ want.mode \in {"share", "read"} /\ held = "table"
           \/ want.mode = "rows" /\ held = "rows" /\ RowsOf(q) # {}

\* p is at a statement and has the lock it needs.
At(p, pc) == txn[p].pc = pc /\ \A q \in Scripts : ~WaitsFor(p, q)

\* The lock is kept, the table is as the statement leaves it.
Wrote(p, t, mode, contents, next) ==
    txn' = [txn EXCEPT ![p].held[t] = mode, ![p].own[t] = contents, ![p].pc = next]

unread == <<tables, now, starts, seeded, reader>>

--------------------------------------------------------------------------------
(* scripts/generate_logs.py *)

\* NOW is read when the script starts; the seed of the generator is fixed, so
\* two runs draw the same lines and incidents and date them from their own NOW.
start_load(p) ==
    /\ txn[p].pc = "idle" /\ starts < MaxStarts
    /\ \E t \in Clock :
          /\ now <= t /\ now' = t
          /\ txn' = [txn EXCEPT ![p].pc = "load_logs", ![p].load = starts + 1, ![p].NOW = t]
    /\ starts' = starts + 1
    /\ UNCHANGED <<tables, seeded, reader>>

load_logs_deleting(p) ==
    /\ At(p, "load_logs")
    /\ \A q \in Scripts \ {p} : txn[q].held["past_incidents"] = "none"
    /\ txn' = [txn EXCEPT ![p].held["logs"] = "table",
                          ![p].held["past_incidents"] = "rows",
                          ![p].own["logs"] = [load |-> txn[p].load, NOW |-> txn[p].NOW],
                          ![p].own["past_incidents"] = tables.past_incidents,
                          ![p].pc = "load_incidents"]
    /\ UNCHANGED unread

\* TRUNCATE logs, then the lines.
load_logs(p) ==
    /\ At(p, "load_logs")
    /\ Wrote(p, "logs", "table", [load |-> txn[p].load, NOW |-> txn[p].NOW], "load_incidents")
    /\ UNCHANGED unread

\* TRUNCATE past_incidents, then the incidents, their embedding left out.
load_incidents(p) ==
    /\ At(p, "load_incidents")
    /\ Wrote(p, "past_incidents", "table",
             [load |-> txn[p].load, embedding |-> [i \in Incidents |-> Null]], "commit")
    /\ UNCHANGED unread

\* After its commit the script reads what it reports: the first SELECT opens a
\* transaction that keeps logs from the next TRUNCATE ...
Reporting == [NoTransaction EXCEPT !.pc = "count_levels"]

count_levels(p) ==
    /\ At(p, "count_levels")
    /\ txn' = [txn EXCEPT ![p].held["logs"] = "read", ![p].pc = "count_errors"]
    /\ UNCHANGED unread

\* ... until the second is answered and the connection closed.
count_errors(p) ==
    /\ At(p, "count_errors")
    /\ txn' = [txn EXCEPT ![p] = NoTransaction]
    /\ UNCHANGED unread

--------------------------------------------------------------------------------
(* scripts/seed_runbooks.py *)

embedding_models_optional == Models \cup {NoModel}

\* HuggingFaceEmbeddingProvider(settings.embedding_model): never without one.
embedding_models == Models

start_seeding(p) ==
    /\ txn[p].pc = "idle" /\ starts < MaxStarts
    /\ \E m \in embedding_models : txn' = [txn EXCEPT ![p].pc = "reset", ![p].model = m]
    /\ starts' = starts + 1
    /\ UNCHANGED <<tables, now, seeded, reader>>

WithoutVectors(contents) == [contents EXCEPT !.embedding = [i \in DOMAIN @ |-> Null]]

\* UPDATE past_incidents SET embedding = NULL opens the table ...
reset(p) ==
    /\ At(p, "reset")
    /\ txn' = [txn EXCEPT ![p].held["past_incidents"] = "share", ![p].pc = "update"]
    /\ UNCHANGED unread

\* ... and writes its rows, as last committed.
update(p) ==
    /\ At(p, "update")
    /\ Wrote(p, "past_incidents", "rows", WithoutVectors(tables.past_incidents), "alter_runbooks")
    /\ UNCHANGED unread

alter_runbooks(p) ==
    /\ At(p, "alter_runbooks")
    /\ Wrote(p, "runbooks", "table", WithoutVectors(tables.runbooks), "alter_incidents")
    /\ UNCHANGED unread

alter_incidents_committed(p) ==
    /\ At(p, "alter_incidents")
    /\ Wrote(p, "past_incidents", "table", WithoutVectors(txn[p].own.past_incidents), "load_runbooks")
    /\ tables' = [tables EXCEPT !["past_incidents"] = WithoutVectors(txn[p].own.past_incidents),
                                !["runbooks"] = txn[p].own.runbooks]
    /\ UNCHANGED <<now, starts, seeded, reader>>

\* The last of reset_embedding_columns.
alter_incidents(p) ==
    /\ At(p, "alter_incidents")
    /\ Wrote(p, "past_incidents", "table", WithoutVectors(txn[p].own.past_incidents), "load_runbooks")
    /\ UNCHANGED unread

\* TRUNCATE runbooks, then the documents, each with its vector.
load_runbooks(p) ==
    /\ At(p, "load_runbooks")
    /\ Wrote(p, "runbooks", "table",
             [load |-> 0, embedding |-> [r \in Runbooks |-> Vector(0, txn[p].model)]], "placeholder")
    /\ UNCHANGED unread

placeholder(p) ==
    /\ At(p, "placeholder")
    /\ LET incidents == txn[p].own.past_incidents IN
       Wrote(p, "past_incidents", "table",
             [incidents EXCEPT !.embedding = [i \in DOMAIN @ |-> IF @[i] = Null THEN Zero ELSE @[i]]],
             "embed")
    /\ UNCHANGED unread

\* past_incident_embedding_rows: a vector of its text for every row selected.
embeddings(incidents, model) ==
    [i \in DOMAIN incidents.embedding |-> Vector(incidents.load, model)]

embed(p) ==
    /\ At(p, "embed")
    /\ LET incidents == txn[p].own.past_incidents IN
       Wrote(p, "past_incidents", "table",
             [incidents EXCEPT !.embedding = embeddings(incidents, txn[p].model)], "commit")
    /\ UNCHANGED unread

--------------------------------------------------------------------------------
(* The commit of either script, and its death *)

commit(p) ==
    /\ At(p, "commit")
    /\ tables' = [t \in Tables |-> IF txn[p].held[t] = "table" THEN txn[p].own[t] ELSE tables[t]]
    /\ seeded' = IF txn[p].model # NoModel THEN "since"
                 ELSE IF seeded = "since" THEN "before" ELSE seeded
    /\ txn' = [txn EXCEPT ![p] = IF txn[p].model = NoModel THEN Reporting ELSE NoTransaction]
    /\ UNCHANGED <<now, starts, reader>>

script_dies_connected(p) ==
    /\ txn[p].pc # "idle"
    /\ txn' = [txn EXCEPT ![p].pc = "idle"]
    /\ UNCHANGED unread

\* The process is killed, a document cannot be embedded or its vector does not
\* have the dimensions of the column, or Postgres ends it to break a deadlock:
\* leaving the connection rolls the transaction back.
script_dies(p) ==
    /\ txn[p].pc # "idle"
    /\ txn' = [txn EXCEPT ![p] = NoTransaction]
    /\ UNCHANGED unread

--------------------------------------------------------------------------------
(* The tools *)

NotAsked == [call |-> "none"]

\* LogLevel or None
levels == {"DEBUG", "INFO", "WARN", "ERROR", "any"}

\* The ITSM server builds its client over a provider, the agent's own tools
\* theirs over none.
providers == Models \cup {NoModel}

readable(t) == \A p \in Scripts : txn[p].held[t] # "table"

effective_limit_unchecked(limit, default) == limit

\* limit or default: None and 0 are the default.
effective_limit(limit, default) == IF limit = 0 THEN default ELSE limit

AtMost(n, m) == IF n <= m THEN n ELSE m

ts(line) == tables.logs.NOW - line.age

in_window_open(line) ==
    /\ tables.logs.load # 0
    /\ line.service = Alert.service
    /\ ts(line) >= Alert.window_start /\ ts(line) < Alert.window_end

\* WHERE service = .. AND ts >= .. AND ts <= ..
in_window(line) ==
    /\ tables.logs.load # 0
    /\ line.service = Alert.service
    /\ ts(line) >= Alert.window_start /\ ts(line) <= Alert.window_end

\* ORDER BY ts ASC LIMIT n: lines of one instant come in any order.
Oldest(lines, n) ==
    {kept \in SUBSET lines :
        /\ Cardinality(kept) = AtMost(n, Cardinality(lines))
        /\ \A l \in kept, o \in lines \ kept : ts(l) <= ts(o)}

\* The level is a plain equality, the keyword a full-text match of the message,
\* which one made of stop words never is.
asked(level, keyword) ==
    {l \in Corpus : /\ in_window(l)
                    /\ level = "any" \/ l.level = level
                    /\ keyword = NoKeyword \/ keyword \in l.matches}

search_logs(level, keyword, limit) ==
    /\ reader.call = "none" /\ readable("logs")
    /\ \E lines \in Oldest(asked(level, keyword), effective_limit(limit, log_search_limit)) :
          reader' = [call |-> "search_logs", level |-> level, keyword |-> keyword,
                     limit |-> limit, lines |-> lines, load |-> tables.logs.load]
    /\ UNCHANGED <<tables, txn, now, starts, seeded>>

counted_open == {l \in Corpus : in_window_open(l)}

\* SELECT count(*), count(*) FILTER (level = 'ERROR') over the same condition.
counted == {l \in Corpus : in_window(l)}

\* The agent that has the lines asks for the rate, another statement.
get_error_rate ==
    /\ reader.call = "search_logs" /\ readable("logs")
    /\ reader' = [call |-> "get_error_rate", search |-> reader, load |-> tables.logs.load,
                  total_count |-> Cardinality(counted),
                  error_count |-> Cardinality({l \in counted : l.level = "ERROR"})]
    /\ UNCHANGED <<tables, txn, now, starts, seeded>>

\* WHERE embedding IS NOT NULL
embedded(t) == LET e == tables[t].embedding IN {i \in DOMAIN e : e[i] # Null}

\* pgvector compares vectors of the same dimensions only.
comparable(t, model) == \A i \in embedded(t) : tables[t].embedding[i].model = model

\* get_similar_incidents and search_runbooks; which rows are nearest is data.
vector_search(t, model, limit) ==
    /\ reader.call = "none" /\ model # NoModel /\ readable(t)
    /\ comparable(t, model)
    /\ \E ids \in SUBSET embedded(t) :
          /\ Cardinality(ids) = AtMost(effective_limit(limit, vector_search_limit),
                                       Cardinality(embedded(t)))
          /\ reader' = [call |-> "vector_search", table |-> t, model |-> model, limit |-> limit,
                        vectors |-> [i \in ids |-> tables[t].embedding[i]],
                        load |-> tables[t].load, seeded |-> seeded]
    /\ UNCHANGED <<tables, txn, now, starts, seeded>>

\* Without a provider the client raises before it connects; Postgres raises on
\* vectors of other dimensions.
vector_search_raises(t, model) ==
    /\ reader.call = "none"
    /\ \/ model = NoModel
       \/ readable(t) /\ ~comparable(t, model)
    /\ reader' = [call |-> "raised"]
    /\ UNCHANGED <<tables, txn, now, starts, seeded>>

forget ==
    /\ reader.call # "none"
    /\ reader' = NotAsked
    /\ UNCHANGED <<tables, txn, now, starts, seeded>>

--------------------------------------------------------------------------------
Init ==
    /\ tables = Empty
    /\ txn = [p \in Scripts |-> NoTransaction]
    /\ now \in Clock /\ \A t \in Clock : now <= t
    /\ starts = 0 /\ seeded = "never"
    /\ reader = NotAsked

generate_logs(p) ==
    \/ start_load(p) \/ load_logs(p) \/ load_incidents(p)
    \/ count_levels(p) \/ count_errors(p)

seed_runbooks(p) ==
    \/ start_seeding(p) \/ reset(p) \/ update(p) \/ alter_runbooks(p) \/ alter_incidents(p)
    \/ load_runbooks(p) \/ placeholder(p) \/ embed(p)

write == \E p \in Scripts : generate_logs(p) \/ seed_runbooks(p) \/ commit(p) \/ script_dies(p)

read ==
    \/ \E level \in levels, keyword \in Keywords \cup {NoKeyword}, limit \in Limits :
          search_logs(level, keyword, limit)
    \/ get_error_rate
    \/ \E t \in VectorTables, model \in providers :
          (\E limit \in Limits : vector_search(t, model, limit)) \/ vector_search_raises(t, model)
    \/ forget

Next == write \/ read

\* Postgres ends one of two transactions that wait for each other.
deadlock_detected ==
    \E p, q \in Scripts : WaitsFor(p, q) /\ WaitsFor(q, p) /\ script_dies(p)

statement(p) ==
    \/ load_logs(p) \/ load_incidents(p) \/ count_levels(p) \/ count_errors(p)
    \/ reset(p) \/ update(p) \/ alter_runbooks(p) \/ alter_incidents(p)
    \/ load_runbooks(p) \/ placeholder(p) \/ embed(p)
    \/ commit(p)

\* A started script goes on; nobody has to start one or to ask anything.
Spec ==
    /\ Init /\ [][Next]_vars
    /\ \A p \in Scripts : WF_vars(statement(p))
    /\ WF_vars(deadlock_detected)

--------------------------------------------------------------------------------
(* Properties *)

Loads == 0..MaxStarts
Vectors == {Null, Zero} \cup [load : Loads, model : Models]

ContentsOK(contents) ==
    /\ contents.logs \in [load : Loads, NOW : Clock \cup {0}]
    /\ \A t \in VectorTables :
        /\ contents[t].load \in Loads
        /\ DOMAIN contents[t].embedding \subseteq Incidents \cup Runbooks
        /\ \A i \in DOMAIN contents[t].embedding : contents[t].embedding[i] \in Vectors

\* Every variable keeps its type.
TypeOK ==
    /\ ContentsOK(tables)
    /\ \A p \in Scripts :
        /\ txn[p].pc \in {"idle", "load_logs", "load_incidents", "reset", "update", "alter_runbooks",
                          "alter_incidents", "load_runbooks", "placeholder", "embed", "commit",
                          "count_levels", "count_errors"}
        /\ txn[p].held \in [Tables -> {"none", "read", "share", "rows", "table"}]
        /\ ContentsOK(txn[p].own)
        /\ txn[p].load \in Loads /\ txn[p].model \in Models \cup {NoModel}
    /\ now \in Clock /\ starts \in Loads /\ seeded \in {"never", "before", "since"}
    /\ reader.call \in {"none", "search_logs", "get_error_rate", "vector_search", "raised"}

\* Whatever scripts run, overlap and die, the committed tables are those of
\* whole runs: the lines and the incidents of one load, and either no incident
\* indexed or every one, by its present text, with the model the runbooks are
\* indexed with.  No placeholder is ever committed.
WholeLoads ==
    LET incidents == tables.past_incidents
        indexed(model) ==
            /\ incidents.embedding = [i \in Incidents |-> Vector(incidents.load, model)]
            /\ tables.runbooks.embedding = [r \in Runbooks |-> Vector(0, model)]
    IN  /\ tables.logs.load = incidents.load
        /\ DOMAIN incidents.embedding = IF incidents.load = 0 THEN {} ELSE Incidents
        /\ embedded("past_incidents") = {} \/ \E model \in Models : indexed(model)
        /\ \E model \in Models :
              tables.runbooks.embedding = [r \in DOMAIN tables.runbooks.embedding |-> Vector(0, model)]

\* Over one load, no log answer shows more lines or errors than the error rate
\* of its window counts.  One that no keyword and no other level narrows shows
\* every error counted while it is below its limit, and every line if no level
\* narrows it either: only a full answer hides some.  A reload between the two
\* calls leaves them incomparable.
AnswersAgree ==
    reader.call = "get_error_rate" /\ reader.load = reader.search.load =>
        LET search == reader.search
            shown == Cardinality(search.lines)
            errors == Cardinality({l \in search.lines : l.level = "ERROR"})
            full == shown >= IF search.limit = 0 THEN log_search_limit ELSE search.limit
        IN  /\ errors <= reader.error_count /\ shown <= reader.total_count
            /\ search.keyword = NoKeyword /\ ~full =>
                  /\ search.level \in {"any", "ERROR"} => errors = reader.error_count
                  /\ search.level = "any" => shown = reader.total_count

\* A search over vectors finds nothing only if nothing is indexed: no seeding
\* yet, or for incidents a load since the last one, which generate_logs leaves
\* without vectors.  What it finds was indexed from the rows now in the table,
\* by the model of the question, all of them while the limit allows.
VectorsFound ==
    reader.call = "vector_search" =>
        LET rows == IF reader.table = "runbooks"
                    THEN IF reader.seeded = "never" THEN {} ELSE Runbooks
                    ELSE IF reader.seeded = "since" /\ reader.load # 0 THEN Incidents ELSE {}
            ids == DOMAIN reader.vectors
        IN  /\ ids \subseteq rows
            /\ ids = {} => rows = {}
            /\ reader.limit >= Cardinality(rows) => ids = rows
            /\ \A i \in ids : reader.vectors[i] = Vector(reader.load, reader.model)

\* Scripts that wait for each other are both seedings, which lock the rows of
\* past_incidents before the table: generate_logs deadlocks with nobody.
DeadlocksAreSeedings ==
    \A p, q \in Scripts :
        WaitsFor(p, q) /\ WaitsFor(q, p) => txn[p].model # NoModel /\ txn[q].model # NoModel

\* A started script ends, whichever others run, die or deadlock with it: none
\* leaves its locks behind.
ScriptsEnd == \A p \in Scripts : txn[p].pc # "idle" ~> txn[p].pc = "idle"

================================================================================
