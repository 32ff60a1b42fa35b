----------------------------- MODULE LogStoreProofs -----------------------------
(* Proofs about LogStore for every corpus, every set of scripts, infinite ones *)
(* included, and every limit, clock and bound.                                 *)
EXTENDS LogStore, FiniteSetTheorems, TLAPS

(* What a table holds, as sets of values. *)
Embeddings == UNION {[D -> Vectors] : D \in SUBSET (Incidents \cup Runbooks)}
LogRows == [load : Loads, NOW : Clock \cup {0}]
VectorRows == [load : Loads, embedding : Embeddings]
Contents == [logs : LogRows, past_incidents : VectorRows, runbooks : VectorRows]

(* The statements of the two scripts. *)
LoadStatements == {"load_logs", "load_incidents"}
SeedStatements == {"reset", "update", "alter_runbooks", "alter_incidents",
                   "load_runbooks", "placeholder", "embed"}
ReportStatements == {"count_levels", "count_errors"}
Pcs == {"idle", "commit"} \cup LoadStatements \cup SeedStatements \cup ReportStatements

Modes == {"none", "read", "share", "rows", "table"}

Transactions == [pc : Pcs, load : Loads, NOW : Clock \cup {0}, model : Models \cup {NoModel},
                 held : [Tables -> Modes], own : Contents]

TypeInv ==
    /\ tables \in Contents
    /\ txn \in [Scripts -> Transactions]
    /\ now \in Clock /\ starts \in Loads /\ seeded \in {"never", "before", "since"}
    /\ reader.call \in {"none", "search_logs", "get_error_rate", "vector_search", "raised"}

(* A run of generate_logs that has locked something or is about to, and one of *)
(* seed_runbooks, told apart at their common commit by the model.              *)
Loading(x) == x.pc \in LoadStatements \/ (x.pc = "commit" /\ x.model = NoModel)
Seeding(x) == x.pc \in SeedStatements \/ (x.pc = "commit" /\ x.model # NoModel)

ModelOK(x) ==
    /\ x.pc \in LoadStatements \cup ReportStatements \cup {"idle"} => x.model = NoModel
    /\ x.pc \in SeedStatements => x.model # NoModel

(* The locks a transaction holds follow from the statement it is at. *)
LocksOK(x) ==
    /\ x.held["logs"] = IF Loading(x) /\ x.pc # "load_logs" THEN "table"
                        ELSE IF x.pc = "count_errors" THEN "read" ELSE "none"
    /\ x.held["past_incidents"] =
          CASE x.pc = "update" -> "share"
            [] x.pc \in {"alter_runbooks", "alter_incidents"} -> "rows"
            [] x.pc \in {"load_runbooks", "placeholder", "embed", "commit"} -> "table"
            [] OTHER -> "none"
    /\ x.held["runbooks"] =
          IF Seeding(x) /\ x.pc \notin {"reset", "update", "alter_runbooks"}
          THEN "table" ELSE "none"

(* What it has written under them; incidents is what is committed.  A seeding *)
(* that has the rows works on the incidents that are in the table.            *)
OwnOK(x, incidents) ==
    LET mine == x.own.past_incidents IN
    /\ Loading(x) => x.load # 0
    /\ Loading(x) /\ x.pc # "load_logs" => x.own.logs.load = x.load
    /\ Loading(x) /\ x.pc = "commit" =>
          mine.load = x.load /\ mine.embedding = [i \in Incidents |-> Null]
    /\ Seeding(x) /\ x.pc \notin {"reset", "update"} =>
          mine.load = incidents.load /\ DOMAIN mine.embedding = DOMAIN incidents.embedding
    /\ x.pc = "alter_incidents" => x.own.runbooks.load = 0
    /\ Seeding(x) /\ x.pc \in {"placeholder", "embed", "commit"} =>
          /\ x.own.runbooks.load = 0
          /\ x.own.runbooks.embedding = [r \in Runbooks |-> Vector(0, x.model)]
    /\ Seeding(x) /\ x.pc = "commit" =>
          mine.embedding = [i \in DOMAIN mine.embedding |-> Vector(mine.load, x.model)]

TransactionsInv ==
    \A p \in Scripts :
        /\ ModelOK(txn[p]) /\ LocksOK(txn[p])
        /\ OwnOK(txn[p], tables.past_incidents)

(* A table is locked exclusively or not at all by the others. *)
Compatible(mode, other) == mode = "table" => other = "none"

ExclusiveInv ==
    \A p, q \in Scripts : p # q =>
        \A t \in Tables : Compatible(txn[p].held[t], txn[q].held[t])

(* What is committed, and what the history variable remembers of it. *)
Indexed(incidents, runbooks, model) ==
    /\ incidents.embedding = [i \in Incidents |-> Vector(incidents.load, model)]
    /\ runbooks.embedding = [r \in Runbooks |-> Vector(0, model)]

Embedded(embedding) == {i \in DOMAIN embedding : embedding[i] # Null}

CommittedOK(committed, history) ==
    LET incidents == committed.past_incidents
        runbooks == committed.runbooks
    IN  /\ committed.logs.load = incidents.load
        /\ DOMAIN incidents.embedding = IF incidents.load = 0 THEN {} ELSE Incidents
        /\ runbooks.load = 0
        /\ IF history = "never"
           THEN DOMAIN runbooks.embedding = {}
           ELSE \E model \in Models :
                    runbooks.embedding = [r \in Runbooks |-> Vector(0, model)]
        /\ IF history = "since" /\ incidents.load # 0
           THEN \E model \in Models : Indexed(incidents, runbooks, model)
           ELSE Embedded(incidents.embedding) = {}

CommittedInv == CommittedOK(tables, seeded)

(* A load is numbered once: what one run may yet commit, no other run commits, *)
(* has committed, or has been read of.                                         *)
FreshInv ==
    /\ tables.logs.load <= starts
    /\ reader.call = "search_logs" => reader.load \in 0..starts
    /\ \A p \in Scripts : Loading(txn[p]) =>
        /\ txn[p].load <= starts /\ txn[p].load # tables.logs.load
        /\ reader.call = "search_logs" => txn[p].load # reader.load
        /\ \A q \in Scripts : q # p /\ Loading(txn[q]) => txn[p].load # txn[q].load

(* While the lines searched are those in the table, the answer is still right. *)
SearchInv ==
    reader.call = "search_logs" /\ reader.load = tables.logs.load =>
        LET matching == asked(reader.level, reader.keyword) IN
        /\ reader.level \in levels /\ reader.limit \in Limits
        /\ reader.lines \subseteq matching
        /\ Cardinality(reader.lines) = AtMost(effective_limit(reader.limit, log_search_limit),
                                              Cardinality(matching))

IInv ==
    /\ TypeInv /\ TransactionsInv /\ ExclusiveInv /\ CommittedInv /\ FreshInv /\ SearchInv
    /\ AnswersAgree /\ VectorsFound
--------------------------------------------------------------------------------
(* A statement of p leaves everybody else as they were and p with x. *)
Moves(p, x) ==
    /\ txn' = [txn EXCEPT ![p] = x]
    /\ x \in Transactions /\ ModelOK(x) /\ LocksOK(x) /\ OwnOK(x, tables.past_incidents)
    /\ x.load = txn[p].load /\ Loading(x) = Loading(txn[p])
    /\ \A q \in Scripts \ {p}, t \in Tables :
          Compatible(x.held[t], txn[q].held[t]) /\ Compatible(txn[q].held[t], x.held[t])

After(x, t, mode, contents, next) ==
    [pc |-> next, load |-> x.load, NOW |-> x.NOW, model |-> x.model,
     held |-> [x.held EXCEPT ![t] = mode], own |-> [x.own EXCEPT ![t] = contents]]

\* What a statement that writes a table leaves its transaction with.
LEMMA WroteAfter ==
  ASSUME TypeInv, NEW p \in Scripts, NEW t \in Tables, NEW mode, NEW contents, NEW next,
         Wrote(p, t, mode, contents, next)
  PROVE  txn' = [txn EXCEPT ![p] = After(txn[p], t, mode, contents, next)]
<1>1. PICK x \in Transactions : x = txn[p]
  BY DEF TypeInv
<1> DEFINE held == [x.held EXCEPT ![t] = mode]
           own == [x.own EXCEPT ![t] = contents]
           Rec(pc, h, o) == [pc |-> pc, load |-> x.load, NOW |-> x.NOW, model |-> x.model,
                             held |-> h, own |-> o]
<1>2. [x EXCEPT !.held[t] = mode] = Rec(x.pc, held, x.own)
  BY DEF Transactions
<1>3. [Rec(x.pc, held, x.own) EXCEPT !.own[t] = contents] = Rec(x.pc, held, own)
  OBVIOUS
<1>4. [Rec(x.pc, held, own) EXCEPT !.pc = next] = Rec(next, held, own)
  OBVIOUS
<1>5. Rec(next, held, own) = After(x, t, mode, contents, next)
  BY DEF After
<1>6. txn' = [txn EXCEPT ![p] =
                [[[x EXCEPT !.held[t] = mode] EXCEPT !.own[t] = contents] EXCEPT !.pc = next]]
  BY <1>1 DEF Wrote, TypeInv
<1> HIDE DEF Rec, held, own
<1> QED
  BY <1>1, <1>2, <1>3, <1>4, <1>5, <1>6, Zenon

\* A record stays well-formed when one table of it is.
LEMMA AfterType ==
  ASSUME NEW x \in Transactions, NEW t \in Tables, NEW mode \in Modes, NEW next \in Pcs,
         NEW contents, contents \in IF t = "logs" THEN LogRows ELSE VectorRows
  PROVE  After(x, t, mode, contents, next) \in Transactions
<1>1. [x.held EXCEPT ![t] = mode] \in [Tables -> Modes]
  BY DEF Transactions
<1>2. [x.own EXCEPT ![t] = contents] \in Contents
  BY DEF Transactions, Contents, Tables
<1> QED
  BY <1>1, <1>2 DEF Transactions, After

\* The lock a statement waited for.
LEMMA LockTaken ==
  ASSUME NEW p \in Scripts, NEW q \in Scripts \ {p}, NEW s, At(p, s)
  PROVE  /\ wanted(s).mode = "table" => txn[q].held[wanted(s).table] = "none"
         /\ wanted(s).mode \in {"share", "read"} => txn[q].held[wanted(s).table] # "table"
  BY DEF At, WaitsFor

\* Vectors written over those of a table keep it a table.
LEMMA NewVectors ==
  ASSUME NEW rows \in VectorRows, NEW e \in [DOMAIN rows.embedding -> Vectors], NEW new,
         new = [rows EXCEPT !.embedding = e]
  PROVE  /\ new \in VectorRows /\ new.load = rows.load /\ new.embedding = e
         /\ DOMAIN new.embedding = DOMAIN rows.embedding
<1>1. DOMAIN rows.embedding \subseteq Incidents \cup Runbooks
  BY DEF VectorRows, Embeddings
<1>2. e \in Embeddings
  BY <1>1 DEF Embeddings
<1> QED
  BY <1>2 DEF VectorRows

\* Setting an embedding column to NULL.
LEMMA Nulled ==
  ASSUME NEW rows \in VectorRows
  PROVE  /\ WithoutVectors(rows) \in VectorRows /\ WithoutVectors(rows).load = rows.load
         /\ DOMAIN WithoutVectors(rows).embedding = DOMAIN rows.embedding
<1> DEFINE e == [i \in DOMAIN rows.embedding |-> Null]
<1>1. e \in [DOMAIN rows.embedding -> Vectors]
  BY DEF Vectors
<1>2. WithoutVectors(rows) = [rows EXCEPT !.embedding = e]
  BY DEF WithoutVectors, VectorRows
<1> HIDE DEF e
<1> QED
  BY <1>1, <1>2, NewVectors

\* A statement keeps the transactions apart if the lock it takes is compatible
\* with those of the others.
LEMMA WroteMoves ==
  ASSUME TypeInv, ExclusiveInv,
         NEW p \in Scripts, NEW t \in Tables, NEW mode \in Modes, NEW next \in Pcs,
         NEW contents, contents \in IF t = "logs" THEN LogRows ELSE VectorRows,
         Wrote(p, t, mode, contents, next),
         \A q \in Scripts \ {p} : /\ Compatible(mode, txn[q].held[t])
                                  /\ Compatible(txn[q].held[t], mode),
         ModelOK(After(txn[p], t, mode, contents, next)),
         LocksOK(After(txn[p], t, mode, contents, next)),
         OwnOK(After(txn[p], t, mode, contents, next), tables.past_incidents),
         Loading(After(txn[p], t, mode, contents, next)) = Loading(txn[p])
  PROVE  \E x : Moves(p, x)
<1>1. txn[p] \in Transactions
  BY DEF TypeInv
<1>2. PICK x : x = After(txn[p], t, mode, contents, next)
  OBVIOUS
<1>3. txn' = [txn EXCEPT ![p] = x]
  BY <1>2, WroteAfter
<1>4. x \in Transactions
  BY <1>1, <1>2, AfterType
<1>5. x.load = txn[p].load
  BY <1>2 DEF After
<1>6. ASSUME NEW q \in Scripts \ {p}, NEW u \in Tables
      PROVE  Compatible(x.held[u], txn[q].held[u]) /\ Compatible(txn[q].held[u], x.held[u])
  <2>1. x.held[u] = IF u = t THEN mode ELSE txn[p].held[u]
    BY <1>1, <1>2 DEF After, Transactions
  <2> QED
    BY <2>1 DEF ExclusiveInv
<1> QED
  BY <1>2, <1>3, <1>4, <1>5, <1>6 DEF Moves

\* A lock on a whole table, new or held already, excludes the others.
LEMMA TableTaken ==
  ASSUME TypeInv, ExclusiveInv, NEW p \in Scripts, NEW t \in Tables, NEW q \in Scripts \ {p},
         txn[p].held[t] = "table" \/ txn[q].held[t] = "none"
  PROVE  Compatible("table", txn[q].held[t]) /\ Compatible(txn[q].held[t], "table")
  BY DEF ExclusiveInv, Compatible

\* TRUNCATE logs and the lines.
LEMMA LoadLogsMoves ==
  ASSUME TypeInv, TransactionsInv, ExclusiveInv, NEW p \in Scripts, load_logs(p)
  PROVE  \E x : Moves(p, x)
<1>1. txn[p] \in Transactions /\ txn[p].pc = "load_logs"
  BY DEF TypeInv, load_logs, At
<1>2. PICK rows : rows = [load |-> txn[p].load, NOW |-> txn[p].NOW]
  OBVIOUS
<1>3. rows \in LogRows
  BY <1>1, <1>2 DEF Transactions, LogRows
<1>4. \A q \in Scripts \ {p} : txn[q].held["logs"] = "none"
  BY LockTaken DEF load_logs, wanted
<1>5. PICK x : x = After(txn[p], "logs", "table", rows, "load_incidents")
  OBVIOUS
<1>6. ModelOK(x) /\ LocksOK(x) /\ OwnOK(x, tables.past_incidents) /\ Loading(x) = Loading(txn[p])
  BY <1>1, <1>2, <1>5 DEF TransactionsInv, ModelOK, LocksOK, OwnOK, After, Loading, Seeding,
                   LoadStatements, SeedStatements, Transactions, Tables, Contents
<1>7. Wrote(p, "logs", "table", rows, "load_incidents")
  BY <1>2 DEF load_logs
<1> QED
  BY <1>3, <1>4, <1>5, <1>6, <1>7, TableTaken, WroteMoves
     DEF Tables, Modes, Pcs, LoadStatements

\* TRUNCATE past_incidents and the incidents.
LEMMA LoadIncidentsMoves ==
  ASSUME TypeInv, TransactionsInv, ExclusiveInv, NEW p \in Scripts, load_incidents(p)
  PROVE  \E x : Moves(p, x)
<1>1. txn[p] \in Transactions /\ txn[p].pc = "load_incidents"
  BY DEF TypeInv, load_incidents, At
<1>2. PICK rows : rows = [load |-> txn[p].load, embedding |-> [i \in Incidents |-> Null]]
  OBVIOUS
<1>3. rows \in VectorRows
  <2>1. [i \in Incidents |-> Null] \in [Incidents -> Vectors]
    BY DEF Vectors
  <2>2. [i \in Incidents |-> Null] \in Embeddings
    BY <2>1 DEF Embeddings
  <2> QED
    BY <1>1, <1>2, <2>2 DEF Transactions, VectorRows
<1>4. \A q \in Scripts \ {p} : txn[q].held["past_incidents"] = "none"
  BY LockTaken DEF load_incidents, wanted
<1>5. PICK x : x = After(txn[p], "past_incidents", "table", rows, "commit")
  OBVIOUS
<1>6. ModelOK(x) /\ LocksOK(x) /\ OwnOK(x, tables.past_incidents) /\ Loading(x) = Loading(txn[p])
  BY <1>1, <1>2, <1>5 DEF TransactionsInv, ModelOK, LocksOK, OwnOK, After, Loading, Seeding,
                   LoadStatements, SeedStatements, Transactions, Tables, Contents
<1>7. Wrote(p, "past_incidents", "table", rows, "commit")
  BY <1>2 DEF load_incidents
<1> QED
  BY <1>3, <1>4, <1>5, <1>6, <1>7, TableTaken, WroteMoves
     DEF Tables, Modes, Pcs

\* UPDATE past_incidents locks the table first.
LEMMA ResetMoves ==
  ASSUME TypeInv, TransactionsInv, ExclusiveInv, NEW p \in Scripts, reset(p)
  PROVE  \E x : Moves(p, x)
<1>1. txn[p] \in Transactions /\ txn[p].pc = "reset"
  BY DEF TypeInv, reset, At
<1> DEFINE held == [txn[p].held EXCEPT !["past_incidents"] = "share"]
<1>2. PICK x : x = [pc |-> "update", load |-> txn[p].load, NOW |-> txn[p].NOW,
                    model |-> txn[p].model, held |-> held, own |-> txn[p].own]
  OBVIOUS
<1>3. txn' = [txn EXCEPT ![p] = x]
  <2>1. PICK y \in Transactions : y = txn[p]
    BY <1>1
  <2>2. [y EXCEPT !.held["past_incidents"] = "share"]
           = [pc |-> y.pc, load |-> y.load, NOW |-> y.NOW, model |-> y.model,
              held |-> held, own |-> y.own]
    BY <2>1 DEF Transactions
  <2> DEFINE z == [pc |-> y.pc, load |-> y.load, NOW |-> y.NOW, model |-> y.model,
                   held |-> held, own |-> y.own]
  <2>3. [z EXCEPT !.pc = "update"] = x
    BY <1>2, <2>1
  <2>4. txn' = [txn EXCEPT ![p] =
                   [[y EXCEPT !.held["past_incidents"] = "share"] EXCEPT !.pc = "update"]]
    BY <2>1 DEF reset, TypeInv
  <2> HIDE DEF z, held
  <2> QED
    BY <2>2, <2>3, <2>4, Zenon DEF z
<1>4. x \in Transactions
  BY <1>1, <1>2 DEF Transactions, Pcs, SeedStatements, Tables, Modes
<1>5. ModelOK(x) /\ LocksOK(x) /\ OwnOK(x, tables.past_incidents) /\ Loading(x) = Loading(txn[p])
  BY <1>1, <1>2 DEF TransactionsInv, ModelOK, LocksOK, OwnOK, Loading, Seeding,
                   LoadStatements, SeedStatements, ReportStatements, Transactions, Tables
<1>6. ASSUME NEW q \in Scripts \ {p}, NEW u \in Tables
      PROVE  Compatible(x.held[u], txn[q].held[u]) /\ Compatible(txn[q].held[u], x.held[u])
  <2>1. x.held[u] = IF u = "past_incidents" THEN "share" ELSE txn[p].held[u]
    BY <1>1, <1>2 DEF Transactions
  <2>2. txn[q].held["past_incidents"] # "table"
    BY LockTaken DEF reset, wanted
  <2> QED
    BY <2>1, <2>2 DEF ExclusiveInv, Compatible
<1> QED
  BY <1>2, <1>3, <1>4, <1>5, <1>6 DEF Moves

\* ... and then its rows, which no other run may have locked with the table.
LEMMA UpdateMoves ==
  ASSUME TypeInv, TransactionsInv, ExclusiveInv, NEW p \in Scripts, update(p)
  PROVE  \E x : Moves(p, x)
<1>1. txn[p] \in Transactions /\ txn[p].pc = "update" /\ tables.past_incidents \in VectorRows
  BY DEF TypeInv, update, At, Contents
<1>2. PICK rows : rows = WithoutVectors(tables.past_incidents)
  OBVIOUS
<1>3. /\ rows \in VectorRows /\ rows.load = tables.past_incidents.load
      /\ DOMAIN rows.embedding = DOMAIN tables.past_incidents.embedding
  BY <1>1, <1>2, Nulled
<1>4. \A q \in Scripts \ {p} : txn[q].held["past_incidents"] # "table"
  <2>1. txn[p].held["past_incidents"] = "share"
    BY <1>1 DEF TransactionsInv, LocksOK
  <2> QED
    BY <2>1 DEF ExclusiveInv, Compatible, Tables
<1>5. PICK x : x = After(txn[p], "past_incidents", "rows", rows, "alter_runbooks")
  OBVIOUS
<1>6. ModelOK(x) /\ LocksOK(x) /\ OwnOK(x, tables.past_incidents) /\ Loading(x) = Loading(txn[p])
  BY <1>1, <1>3, <1>5 DEF TransactionsInv, ModelOK, LocksOK, OwnOK, After, Loading, Seeding,
         LoadStatements, SeedStatements, ReportStatements, Transactions, Tables, Contents
<1>7. Wrote(p, "past_incidents", "rows", rows, "alter_runbooks")
  BY <1>2 DEF update
<1> QED
  BY <1>3, <1>4, <1>5, <1>6, <1>7, WroteMoves DEF Tables, Modes, Pcs, SeedStatements, Compatible

\* ALTER TABLE runbooks.
LEMMA AlterRunbooksMoves ==
  ASSUME TypeInv, TransactionsInv, ExclusiveInv, CommittedInv, NEW p \in Scripts, alter_runbooks(p)
  PROVE  \E x : Moves(p, x)
<1>1. txn[p] \in Transactions /\ txn[p].pc = "alter_runbooks"
  BY DEF TypeInv, alter_runbooks, At
<1>2. PICK rows : rows = WithoutVectors(tables.runbooks)
  OBVIOUS
<1>3. rows \in VectorRows /\ rows.load = 0
  <2>1. tables.runbooks \in VectorRows /\ tables.runbooks.load = 0
    BY DEF TypeInv, Contents, CommittedInv, CommittedOK
  <2> QED
    BY <1>2, <2>1, Nulled
<1>4. \A q \in Scripts \ {p} : txn[q].held["runbooks"] = "none"
  BY LockTaken DEF alter_runbooks, wanted
<1>5. PICK x : x = After(txn[p], "runbooks", "table", rows, "alter_incidents")
  OBVIOUS
<1>6. ModelOK(x) /\ LocksOK(x) /\ OwnOK(x, tables.past_incidents) /\ Loading(x) = Loading(txn[p])
  BY <1>1, <1>3, <1>5 DEF TransactionsInv, ModelOK, LocksOK, OwnOK, After, Loading, Seeding,
         LoadStatements, SeedStatements, ReportStatements, Transactions, Tables, Contents
<1>7. Wrote(p, "runbooks", "table", rows, "alter_incidents")
  BY <1>2 DEF alter_runbooks
<1> QED
  BY <1>3, <1>4, <1>5, <1>6, <1>7, TableTaken, WroteMoves
     DEF Tables, Modes, Pcs, SeedStatements

\* ALTER TABLE past_incidents, of the rows the run has already.
LEMMA AlterIncidentsMoves ==
  ASSUME TypeInv, TransactionsInv, ExclusiveInv, NEW p \in Scripts, alter_incidents(p)
  PROVE  \E x : Moves(p, x)
<1>1. txn[p] \in Transactions /\ txn[p].pc = "alter_incidents"
  BY DEF TypeInv, alter_incidents, At
<1>2. PICK rows : rows = WithoutVectors(txn[p].own.past_incidents)
  OBVIOUS
<1>3. /\ rows \in VectorRows /\ rows.load = txn[p].own.past_incidents.load
      /\ DOMAIN rows.embedding = DOMAIN txn[p].own.past_incidents.embedding
  <2>1. txn[p].own.past_incidents \in VectorRows
    BY <1>1 DEF Transactions, Contents
  <2> QED
    BY <1>2, <2>1, Nulled
<1>4. \A q \in Scripts \ {p} : txn[q].held["past_incidents"] = "none"
  BY LockTaken DEF alter_incidents, wanted
<1>5. PICK x : x = After(txn[p], "past_incidents", "table", rows, "load_runbooks")
  OBVIOUS
<1>6. ModelOK(x) /\ LocksOK(x) /\ OwnOK(x, tables.past_incidents) /\ Loading(x) = Loading(txn[p])
  BY <1>1, <1>3, <1>5 DEF TransactionsInv, ModelOK, LocksOK, OwnOK, After, Loading, Seeding,
         LoadStatements, SeedStatements, ReportStatements, Transactions, Tables, Contents
<1>7. Wrote(p, "past_incidents", "table", rows, "load_runbooks")
  BY <1>2 DEF alter_incidents
<1> QED
  BY <1>3, <1>4, <1>5, <1>6, <1>7, TableTaken, WroteMoves
     DEF Tables, Modes, Pcs, SeedStatements

\* TRUNCATE runbooks and the documents with their vectors.
LEMMA LoadRunbooksMoves ==
  ASSUME TypeInv, TransactionsInv, ExclusiveInv, NEW p \in Scripts, load_runbooks(p)
  PROVE  \E x : Moves(p, x)
<1>1. txn[p] \in Transactions /\ txn[p].pc = "load_runbooks"
  BY DEF TypeInv, load_runbooks, At
<1>2. PICK rows : rows = [load |-> 0, embedding |-> [r \in Runbooks |-> Vector(0, txn[p].model)]]
  OBVIOUS
<1>3. rows \in VectorRows
  <2>1. txn[p].model \in Models
    BY <1>1 DEF TransactionsInv, ModelOK, SeedStatements, Transactions
  <2>2. Vector(0, txn[p].model) \in Vectors
    BY <2>1, BoundsAssumption DEF Vector, Vectors, Loads
  <2>3. [r \in Runbooks |-> Vector(0, txn[p].model)] \in [Runbooks -> Vectors]
    BY <2>2
  <2>4. [r \in Runbooks |-> Vector(0, txn[p].model)] \in Embeddings
    BY <2>3 DEF Embeddings
  <2> QED
    BY <1>2, <2>4, BoundsAssumption DEF VectorRows, Loads
<1>4. txn[p].held["runbooks"] = "table"
  BY <1>1 DEF TransactionsInv, LocksOK, Loading, Seeding, LoadStatements, SeedStatements
<1>5. PICK x : x = After(txn[p], "runbooks", "table", rows, "placeholder")
  OBVIOUS
<1>6. ModelOK(x) /\ LocksOK(x) /\ OwnOK(x, tables.past_incidents) /\ Loading(x) = Loading(txn[p])
  BY <1>1, <1>2, <1>5 DEF TransactionsInv, ModelOK, LocksOK, OwnOK, After, Loading, Seeding,
         LoadStatements, SeedStatements, ReportStatements, Transactions, Tables, Contents
<1>7. Wrote(p, "runbooks", "table", rows, "placeholder")
  BY <1>2 DEF load_runbooks
<1> QED
  BY <1>3, <1>4, <1>5, <1>6, <1>7, TableTaken, WroteMoves
     DEF Tables, Modes, Pcs, SeedStatements

\* The placeholder of rows without a vector.
LEMMA PlaceholderMoves ==
  ASSUME TypeInv, TransactionsInv, ExclusiveInv, NEW p \in Scripts, placeholder(p)
  PROVE  \E x : Moves(p, x)
<1>1. txn[p] \in Transactions /\ txn[p].pc = "placeholder"
  BY DEF TypeInv, placeholder, At
<1>2. PICK rows : rows = [txn[p].own.past_incidents EXCEPT
                       !.embedding = [i \in DOMAIN @ |-> IF @[i] = Null THEN Zero ELSE @[i]]]
  OBVIOUS
<1>3. /\ rows \in VectorRows /\ rows.load = txn[p].own.past_incidents.load
      /\ DOMAIN rows.embedding = DOMAIN txn[p].own.past_incidents.embedding
  <2> DEFINE old == txn[p].own.past_incidents
             e == [i \in DOMAIN old.embedding |->
                      IF old.embedding[i] = Null THEN Zero ELSE old.embedding[i]]
  <2>1. old \in VectorRows
    BY <1>1 DEF Transactions, Contents
  <2>2. \A i \in DOMAIN old.embedding : old.embedding[i] \in Vectors
    BY <2>1 DEF VectorRows, Embeddings
  <2>3. e \in [DOMAIN old.embedding -> Vectors]
    BY <2>2 DEF Vectors
  <2>4. rows = [old EXCEPT !.embedding = e]
    BY <1>2, <2>1 DEF VectorRows
  <2> HIDE DEF old, e
  <2>5. /\ rows \in VectorRows /\ rows.load = old.load
        /\ DOMAIN rows.embedding = DOMAIN old.embedding
    BY <2>1, <2>3, <2>4, NewVectors
  <2> QED
    BY <2>5 DEF old
<1>4. txn[p].held["past_incidents"] = "table"
  BY <1>1 DEF TransactionsInv, LocksOK, Loading, Seeding, LoadStatements, SeedStatements
<1>5. PICK x : x = After(txn[p], "past_incidents", "table", rows, "embed")
  OBVIOUS
<1>6. ModelOK(x) /\ LocksOK(x) /\ OwnOK(x, tables.past_incidents) /\ Loading(x) = Loading(txn[p])
  <2>1. /\ x.pc = "embed" /\ x.model = txn[p].model /\ x.load = txn[p].load
        /\ x.held = [txn[p].held EXCEPT !["past_incidents"] = "table"]
        /\ x.own.past_incidents = rows /\ x.own.runbooks = txn[p].own.runbooks
    BY <1>1, <1>5 DEF After, Transactions, Contents
  <2>2. ModelOK(x) /\ LocksOK(x) /\ Loading(x) = Loading(txn[p]) /\ ~Loading(x)
    BY <1>1, <2>1 DEF TransactionsInv, ModelOK, LocksOK, Loading, Seeding, LoadStatements,
                      SeedStatements, ReportStatements, Transactions, Tables
  <2>3. /\ x.own.runbooks.load = 0
        /\ x.own.runbooks.embedding = [r \in Runbooks |-> Vector(0, txn[p].model)]
    BY <1>1, <2>1 DEF TransactionsInv, OwnOK, Seeding, SeedStatements
  <2>4. [r \in Runbooks |-> Vector(0, txn[p].model)] = [r \in Runbooks |-> Vector(0, x.model)]
    BY <2>1
  <2>5. /\ rows.load = tables.past_incidents.load
        /\ DOMAIN rows.embedding = DOMAIN tables.past_incidents.embedding
    BY <1>1, <1>3 DEF TransactionsInv, OwnOK, Seeding, SeedStatements
  <2> QED
    BY <1>3, <2>1, <2>2, <2>3, <2>4, <2>5 DEF OwnOK
<1>7. Wrote(p, "past_incidents", "table", rows, "embed")
  BY <1>2 DEF placeholder
<1> QED
  BY <1>3, <1>4, <1>5, <1>6, <1>7, TableTaken, WroteMoves
     DEF Tables, Modes, Pcs, SeedStatements

\* A vector of its text for every incident.
LEMMA EmbedMoves ==
  ASSUME TypeInv, TransactionsInv, ExclusiveInv, NEW p \in Scripts, embed(p)
  PROVE  \E x : Moves(p, x)
<1>1. txn[p] \in Transactions /\ txn[p].pc = "embed"
  BY DEF TypeInv, embed, At
<1>2. PICK rows : rows = [txn[p].own.past_incidents EXCEPT
                       !.embedding = embeddings(txn[p].own.past_incidents, txn[p].model)]
  OBVIOUS
<1>3. /\ rows \in VectorRows /\ rows.load = txn[p].own.past_incidents.load
      /\ DOMAIN rows.embedding = DOMAIN txn[p].own.past_incidents.embedding
      /\ rows.embedding = [i \in DOMAIN rows.embedding |-> Vector(rows.load, txn[p].model)]
  <2> DEFINE old == txn[p].own.past_incidents
             e == [i \in DOMAIN old.embedding |-> Vector(old.load, txn[p].model)]
  <2>1. old \in VectorRows
    BY <1>1 DEF Transactions, Contents
  <2>2. txn[p].model \in Models
    BY <1>1 DEF TransactionsInv, ModelOK, SeedStatements, Transactions
  <2>3. e \in [DOMAIN old.embedding -> Vectors]
    BY <2>1, <2>2 DEF VectorRows, Vectors, Vector
  <2>4. rows = [old EXCEPT !.embedding = e]
    BY <1>2, <2>1 DEF VectorRows, embeddings
  <2>5. /\ rows \in VectorRows /\ rows.load = old.load /\ rows.embedding = e
        /\ DOMAIN rows.embedding = DOMAIN old.embedding
    <3> HIDE DEF old, e
    <3> QED
      BY <2>1, <2>3, <2>4, NewVectors
  <2> QED
    BY <2>5
<1>4. txn[p].held["past_incidents"] = "table"
  BY <1>1 DEF TransactionsInv, LocksOK, Loading, Seeding, LoadStatements, SeedStatements
<1>5. PICK x : x = After(txn[p], "past_incidents", "table", rows, "commit")
  OBVIOUS
<1>6. ModelOK(x) /\ LocksOK(x) /\ OwnOK(x, tables.past_incidents) /\ Loading(x) = Loading(txn[p])
  <2>1. /\ x.pc = "commit" /\ x.model = txn[p].model /\ x.load = txn[p].load
        /\ x.held = [txn[p].held EXCEPT !["past_incidents"] = "table"]
        /\ x.own.past_incidents = rows /\ x.own.runbooks = txn[p].own.runbooks
    BY <1>1, <1>5 DEF After, Transactions, Contents
  <2>2. ModelOK(x) /\ LocksOK(x) /\ Loading(x) = Loading(txn[p]) /\ ~Loading(x)
    BY <1>1, <2>1 DEF TransactionsInv, ModelOK, LocksOK, Loading, Seeding, LoadStatements,
                      SeedStatements, ReportStatements, Transactions, Tables
  <2>3. /\ x.own.runbooks.load = 0
        /\ x.own.runbooks.embedding = [r \in Runbooks |-> Vector(0, txn[p].model)]
    BY <1>1, <2>1 DEF TransactionsInv, OwnOK, Seeding, SeedStatements
  <2>4. [r \in Runbooks |-> Vector(0, txn[p].model)] = [r \in Runbooks |-> Vector(0, x.model)]
    BY <2>1
  <2>5. /\ rows.load = tables.past_incidents.load
        /\ DOMAIN rows.embedding = DOMAIN tables.past_incidents.embedding
    BY <1>1, <1>3 DEF TransactionsInv, OwnOK, Seeding, SeedStatements
  <2>6. [i \in DOMAIN rows.embedding |-> Vector(rows.load, txn[p].model)]
           = [i \in DOMAIN rows.embedding |-> Vector(rows.load, x.model)]
    BY <2>1
  <2> QED
    BY <1>3, <2>1, <2>2, <2>3, <2>4, <2>5, <2>6 DEF OwnOK
<1>7. Wrote(p, "past_incidents", "table", rows, "commit")
  BY <1>2 DEF embed
<1> QED
  BY <1>3, <1>4, <1>5, <1>6, <1>7, TableTaken, WroteMoves
     DEF Tables, Modes, Pcs, SeedStatements

\* The first SELECT after the commit of a load.
LEMMA CountLevelsMoves ==
  ASSUME TypeInv, TransactionsInv, ExclusiveInv, NEW p \in Scripts, count_levels(p)
  PROVE  \E x : Moves(p, x)
<1>1. txn[p] \in Transactions /\ txn[p].pc = "count_levels"
  BY DEF TypeInv, count_levels, At
<1> DEFINE held == [txn[p].held EXCEPT !["logs"] = "read"]
<1>2. PICK x : x = [pc |-> "count_errors", load |-> txn[p].load, NOW |-> txn[p].NOW,
                    model |-> txn[p].model, held |-> held, own |-> txn[p].own]
  OBVIOUS
<1>3. txn' = [txn EXCEPT ![p] = x]
  <2>1. PICK y \in Transactions : y = txn[p]
    BY <1>1
  <2>2. [y EXCEPT !.held["logs"] = "read"]
           = [pc |-> y.pc, load |-> y.load, NOW |-> y.NOW, model |-> y.model,
              held |-> held, own |-> y.own]
    BY <2>1 DEF Transactions
  <2> DEFINE z == [pc |-> y.pc, load |-> y.load, NOW |-> y.NOW, model |-> y.model,
                   held |-> held, own |-> y.own]
  <2>3. [z EXCEPT !.pc = "count_errors"] = x
    BY <1>2, <2>1
  <2>4. txn' = [txn EXCEPT ![p] =
                   [[y EXCEPT !.held["logs"] = "read"] EXCEPT !.pc = "count_errors"]]
    BY <2>1 DEF count_levels, TypeInv
  <2> HIDE DEF z, held
  <2> QED
    BY <2>2, <2>3, <2>4, Zenon DEF z
<1>4. x \in Transactions
  BY <1>1, <1>2 DEF Transactions, Pcs, ReportStatements, Tables, Modes
<1>5. ModelOK(x) /\ LocksOK(x) /\ OwnOK(x, tables.past_incidents) /\ Loading(x) = Loading(txn[p])
  BY <1>1, <1>2 DEF TransactionsInv, ModelOK, LocksOK, OwnOK, Loading, Seeding,
                   LoadStatements, SeedStatements, ReportStatements, Transactions, Tables
<1>6. ASSUME NEW q \in Scripts \ {p}, NEW u \in Tables
      PROVE  Compatible(x.held[u], txn[q].held[u]) /\ Compatible(txn[q].held[u], x.held[u])
  <2>1. x.held[u] = IF u = "logs" THEN "read" ELSE txn[p].held[u]
    BY <1>1, <1>2 DEF Transactions
  <2>2. txn[q].held["logs"] # "table"
    BY LockTaken DEF count_levels, wanted
  <2> QED
    BY <2>1, <2>2 DEF ExclusiveInv, Compatible
<1> QED
  BY <1>2, <1>3, <1>4, <1>5, <1>6 DEF Moves

\* The statements of the scripts that neither begin nor end a transaction.
LEMMA StatementMoves ==
  ASSUME TypeInv, TransactionsInv, ExclusiveInv, CommittedInv, NEW p \in Scripts,
         \/ load_logs(p) \/ load_incidents(p) \/ reset(p) \/ update(p) \/ alter_runbooks(p)
         \/ alter_incidents(p) \/ load_runbooks(p) \/ placeholder(p) \/ embed(p)
         \/ count_levels(p)
  PROVE  (\E x : Moves(p, x)) /\ UNCHANGED unread
<1>1. UNCHANGED unread
  BY DEF load_logs, load_incidents, reset, update, alter_runbooks, alter_incidents, load_runbooks,
         placeholder, embed, count_levels
<1>2. \E x : Moves(p, x)
  BY LoadLogsMoves, LoadIncidentsMoves, ResetMoves, UpdateMoves, AlterRunbooksMoves,
     AlterIncidentsMoves, LoadRunbooksMoves, PlaceholderMoves, EmbedMoves,
     CountLevelsMoves
<1> QED
  BY <1>1, <1>2
--------------------------------------------------------------------------------
\* What speaks of the tables and the reader alone.
LEMMA Unread ==
  ASSUME CommittedInv, SearchInv, AnswersAgree, VectorsFound, UNCHANGED <<tables, seeded, reader>>
  PROVE  CommittedInv' /\ SearchInv' /\ AnswersAgree' /\ VectorsFound'
<1>1. CommittedInv'
  BY DEF CommittedInv
<1>2. SearchInv'
  BY DEF SearchInv, asked, in_window, ts
<1>3. AnswersAgree'
  BY DEF AnswersAgree
<1>4. VectorsFound'
  BY DEF VectorsFound
<1> QED
  BY <1>1, <1>2, <1>3, <1>4

\* One transaction changes: the others are as they were.
LEMMA OneMoves ==
  ASSUME TypeInv, TransactionsInv, ExclusiveInv, NEW p \in Scripts, NEW x \in Transactions,
         txn' = [txn EXCEPT ![p] = x], UNCHANGED tables,
         ModelOK(x), LocksOK(x), OwnOK(x, tables.past_incidents),
         \A q \in Scripts \ {p}, t \in Tables :
            Compatible(x.held[t], txn[q].held[t]) /\ Compatible(txn[q].held[t], x.held[t])
  PROVE  /\ txn' \in [Scripts -> Transactions] /\ TransactionsInv' /\ ExclusiveInv'
         /\ txn'[p] = x /\ \A q \in Scripts \ {p} : txn'[q] = txn[q]
<1>1. /\ txn' \in [Scripts -> Transactions]
      /\ txn'[p] = x /\ \A q \in Scripts \ {p} : txn'[q] = txn[q]
  BY DEF TypeInv
<1>2. TransactionsInv'
  <2> SUFFICES ASSUME NEW q \in Scripts
               PROVE  ModelOK(txn'[q]) /\ LocksOK(txn'[q]) /\ OwnOK(txn'[q], tables.past_incidents)
    BY DEF TransactionsInv
  <2>1. CASE q = p
    BY <1>1, <2>1
  <2>2. CASE q # p
    BY <1>1, <2>2 DEF TransactionsInv
  <2> QED
    BY <2>1, <2>2
<1>3. ExclusiveInv'
  BY <1>1 DEF ExclusiveInv
<1> QED
  BY <1>1, <1>2, <1>3

\* A statement of a script.
LEMMA MovesIInv ==
  ASSUME IInv, NEW p \in Scripts, NEW x, Moves(p, x), UNCHANGED unread
  PROVE  IInv'
<1> USE DEF IInv
<1>1. /\ txn' \in [Scripts -> Transactions] /\ TransactionsInv' /\ ExclusiveInv'
      /\ txn'[p] = x /\ \A q \in Scripts \ {p} : txn'[q] = txn[q]
  BY OneMoves DEF Moves, unread
<1>2. TypeInv'
  BY <1>1 DEF TypeInv, unread
<1>3. FreshInv'
  BY <1>1 DEF FreshInv, Moves, unread
<1>4. CommittedInv' /\ SearchInv' /\ AnswersAgree' /\ VectorsFound'
  BY Unread DEF unread
<1> QED
  BY <1>1, <1>2, <1>3, <1>4

\* generate_logs starts: its number is new.
LEMMA StartLoadIInv ==
  ASSUME IInv, NEW p \in Scripts, start_load(p)
  PROVE  IInv'
<1> USE DEF IInv
<1>1. PICK t \in Clock :
         /\ now' = t
         /\ txn' = [txn EXCEPT ![p].pc = "load_logs", ![p].load = starts + 1, ![p].NOW = t]
  BY DEF start_load
<1>2. PICK z \in Transactions : z = txn[p] /\ z.pc = "idle"
  BY DEF TypeInv, start_load
<1>3. PICK x : x = [pc |-> "load_logs", load |-> starts + 1, NOW |-> t, model |-> z.model,
                    held |-> z.held, own |-> z.own]
  OBVIOUS
<1>4. txn' = [txn EXCEPT ![p] = x]
  <2> DEFINE Rec(load, NOW) == [pc |-> "load_logs", load |-> load, NOW |-> NOW,
                                model |-> z.model, held |-> z.held, own |-> z.own]
  <2>1. [z EXCEPT !.pc = "load_logs"] = Rec(z.load, z.NOW)
    BY DEF Transactions
  <2>2. [Rec(z.load, z.NOW) EXCEPT !.load = starts + 1] = Rec(starts + 1, z.NOW)
    OBVIOUS
  <2>3. [Rec(starts + 1, z.NOW) EXCEPT !.NOW = t] = x
    BY <1>3
  <2>4. txn' = [txn EXCEPT ![p] =
                   [[[z EXCEPT !.pc = "load_logs"] EXCEPT !.load = starts + 1] EXCEPT !.NOW = t]]
    BY <1>1, <1>2 DEF TypeInv
  <2> HIDE DEF Rec
  <2> QED
    BY <2>1, <2>2, <2>3, <2>4, Zenon
<1>5. starts \in Nat /\ starts + 1 \in Loads
  BY BoundsAssumption DEF start_load, TypeInv, Loads
<1>6. x \in Transactions
  BY <1>2, <1>3, <1>5 DEF Transactions, Pcs, LoadStatements
<1>7. \A u \in Tables : x.held[u] = "none"
  BY <1>2, <1>3 DEF TransactionsInv, LocksOK, Loading, Seeding, LoadStatements, SeedStatements, Tables
<1>8. ModelOK(x) /\ LocksOK(x) /\ OwnOK(x, tables.past_incidents) /\ Loading(x)
  <2>1. x.pc = "load_logs" /\ x.model = NoModel
    BY <1>2, <1>3 DEF TransactionsInv, ModelOK
  <2>2. x.load # 0
    BY <1>3, <1>5
  <2> QED
    BY <1>7, <2>1, <2>2 DEF ModelOK, LocksOK, OwnOK, Loading, Seeding,
                            LoadStatements, SeedStatements, Tables
<1>9. /\ txn' \in [Scripts -> Transactions] /\ TransactionsInv' /\ ExclusiveInv'
      /\ txn'[p] = x /\ \A q \in Scripts \ {p} : txn'[q] = txn[q]
  BY <1>4, <1>6, <1>7, <1>8, OneMoves DEF Compatible, start_load
<1>10. TypeInv'
  BY <1>1, <1>5, <1>9 DEF TypeInv, start_load
<1>11. FreshInv'
  <2>1. tables.logs.load \in Nat /\ (reader.call = "search_logs" => reader.load \in 0..starts)
    BY DEF TypeInv, Contents, LogRows, Loads, FreshInv
  <2>2. \A q \in Scripts : txn[q].load \in Nat
    BY DEF TypeInv, Transactions, Loads
  <2>3. x.load = starts + 1
    BY <1>3
  <2> QED
    BY <1>5, <1>9, <2>1, <2>2, <2>3 DEF FreshInv, start_load
<1>12. CommittedInv' /\ SearchInv' /\ AnswersAgree' /\ VectorsFound'
  BY Unread DEF start_load
<1> QED
  BY <1>9, <1>10, <1>11, <1>12

\* seed_runbooks starts.
LEMMA StartSeedingIInv ==
  ASSUME IInv, NEW p \in Scripts, start_seeding(p)
  PROVE  IInv'
<1> USE DEF IInv
<1>1. PICK m \in Models : txn' = [txn EXCEPT ![p].pc = "reset", ![p].model = m]
  BY DEF start_seeding, embedding_models
<1>2. PICK z \in Transactions : z = txn[p] /\ z.pc = "idle"
  BY DEF TypeInv, start_seeding
<1>3. PICK x : x = [pc |-> "reset", load |-> z.load, NOW |-> z.NOW, model |-> m,
                    held |-> z.held, own |-> z.own]
  OBVIOUS
<1>4. txn' = [txn EXCEPT ![p] = x]
  <2> DEFINE Rec(model) == [pc |-> "reset", load |-> z.load, NOW |-> z.NOW,
                            model |-> model, held |-> z.held, own |-> z.own]
  <2>1. [z EXCEPT !.pc = "reset"] = Rec(z.model)
    BY DEF Transactions
  <2>2. [Rec(z.model) EXCEPT !.model = m] = x
    BY <1>3
  <2>3. txn' = [txn EXCEPT ![p] = [[z EXCEPT !.pc = "reset"] EXCEPT !.model = m]]
    BY <1>1, <1>2 DEF TypeInv
  <2> HIDE DEF Rec
  <2> QED
    BY <2>1, <2>2, <2>3, Zenon
<1>5. starts \in Nat /\ starts + 1 \in Loads
  BY BoundsAssumption DEF start_seeding, TypeInv, Loads
<1>6. x \in Transactions /\ m # NoModel
  BY <1>2, <1>3, NamesAssumption DEF Transactions, Pcs, SeedStatements
<1>7. \A u \in Tables : x.held[u] = "none"
  BY <1>2, <1>3 DEF TransactionsInv, LocksOK, Loading, Seeding, LoadStatements, SeedStatements, Tables
<1>8. ModelOK(x) /\ LocksOK(x) /\ OwnOK(x, tables.past_incidents) /\ ~Loading(x)
  BY <1>2, <1>3, <1>6, <1>7 DEF TransactionsInv, ModelOK, LocksOK, OwnOK, Loading, Seeding,
                                 LoadStatements, SeedStatements, ReportStatements, Tables
<1>9. /\ txn' \in [Scripts -> Transactions] /\ TransactionsInv' /\ ExclusiveInv'
      /\ txn'[p] = x /\ \A q \in Scripts \ {p} : txn'[q] = txn[q]
  BY <1>4, <1>6, <1>7, <1>8, OneMoves DEF Compatible, start_seeding
<1>10. TypeInv'
  BY <1>5, <1>9 DEF TypeInv, start_seeding
<1>11. FreshInv'
  <2>1. tables.logs.load \in Nat
    BY DEF TypeInv, Contents, LogRows, Loads
  <2>2. \A q \in Scripts : txn[q].load \in Nat
    BY DEF TypeInv, Transactions, Loads
  <2> QED
    BY <1>5, <1>8, <1>9, <2>1, <2>2 DEF FreshInv, start_seeding
<1>12. CommittedInv' /\ SearchInv' /\ AnswersAgree' /\ VectorsFound'
  BY Unread DEF start_seeding
<1> QED
  BY <1>9, <1>10, <1>11, <1>12

\* A transaction that is over, or was never begun.
LEMMA NoTransactionOK ==
  /\ NoTransaction \in Transactions /\ ~Loading(NoTransaction)
  /\ ModelOK(NoTransaction) /\ LocksOK(NoTransaction)
  /\ \A incidents : OwnOK(NoTransaction, incidents)
  /\ \A t \in Tables : NoTransaction.held[t] = "none"
<1>1. Empty \in Contents
  <2>1. NoRows.embedding \in Embeddings
    <3>1. [i \in {} |-> Null] \in [{} -> Vectors]
      OBVIOUS
    <3> QED
      BY <3>1 DEF Embeddings, NoRows
  <2> QED
    BY <2>1, BoundsAssumption DEF Empty, NoRows, Contents, LogRows, VectorRows, Loads
<1>2. NoTransaction \in Transactions
  BY <1>1, BoundsAssumption DEF NoTransaction, Transactions, Pcs, Loads, Modes
<1>3. ~Loading(NoTransaction) /\ ~Seeding(NoTransaction)
  BY DEF NoTransaction, Loading, Seeding, LoadStatements, SeedStatements
<1> QED
  BY <1>2, <1>3 DEF NoTransaction, ModelOK, LocksOK, OwnOK, SeedStatements, Tables

\* ... and one that only reports.
LEMMA ReportingOK ==
  /\ Reporting \in Transactions /\ ~Loading(Reporting)
  /\ ModelOK(Reporting) /\ LocksOK(Reporting)
  /\ \A incidents : OwnOK(Reporting, incidents)
  /\ \A t \in Tables : Reporting.held[t] = "none"
<1>1. /\ Reporting.pc = "count_levels" /\ Reporting.model = NoModel
      /\ Reporting.held = NoTransaction.held
  BY DEF Reporting, NoTransaction
<1>2. Reporting \in Transactions
  BY NoTransactionOK DEF Reporting, Transactions, Pcs, ReportStatements
<1>3. ~Loading(Reporting) /\ ~Seeding(Reporting)
  BY <1>1 DEF Loading, Seeding, LoadStatements, SeedStatements
<1> QED
  BY <1>1, <1>2, <1>3, NoTransactionOK DEF ModelOK, LocksOK, OwnOK, SeedStatements, Tables

\* A script dies, nothing it wrote committed, or has reported and is over.
LEMMA EndsIInv ==
  ASSUME IInv, NEW p \in Scripts, script_dies(p) \/ count_errors(p)
  PROVE  IInv'
<1> USE DEF IInv
<1>1. /\ txn' \in [Scripts -> Transactions] /\ TransactionsInv' /\ ExclusiveInv'
      /\ txn'[p] = NoTransaction /\ \A q \in Scripts \ {p} : txn'[q] = txn[q]
  BY NoTransactionOK, OneMoves DEF Compatible, script_dies, count_errors, unread
<1>2. TypeInv'
  BY <1>1 DEF TypeInv, script_dies, count_errors, unread
<1>3. FreshInv'
  BY <1>1, NoTransactionOK DEF FreshInv, script_dies, count_errors, unread
<1>4. CommittedInv' /\ SearchInv' /\ AnswersAgree' /\ VectorsFound'
  BY Unread DEF script_dies, count_errors, unread
<1> QED
  BY <1>1, <1>2, <1>3, <1>4

\* A commit replaces the tables the transaction has locked whole.
LEMMA CommitTables ==
  ASSUME IInv, NEW p \in Scripts, commit(p)
  PROVE  /\ tables' \in Contents
         /\ tables'.past_incidents = txn[p].own.past_incidents
         /\ tables'.logs = IF Loading(txn[p]) THEN txn[p].own.logs ELSE tables.logs
         /\ tables'.runbooks = IF Loading(txn[p]) THEN tables.runbooks ELSE txn[p].own.runbooks
<1> USE DEF IInv
<1>1. PICK x \in Transactions : x = txn[p] /\ x.pc = "commit" /\ LocksOK(x) /\ ModelOK(x)
  BY DEF TypeInv, TransactionsInv, commit, At
<1>2. /\ x.held["past_incidents"] = "table"
      /\ x.held["logs"] = IF Loading(x) THEN "table" ELSE "none"
      /\ x.held["runbooks"] = IF Loading(x) THEN "none" ELSE "table"
  BY <1>1 DEF LocksOK, Loading, Seeding, LoadStatements, SeedStatements
<1>3. tables' = [t \in Tables |-> IF x.held[t] = "table" THEN x.own[t] ELSE tables[t]]
  BY <1>1 DEF commit
<1>4. /\ tables'["past_incidents"] = x.own.past_incidents
      /\ tables'["logs"] = IF Loading(x) THEN x.own.logs ELSE tables.logs
      /\ tables'["runbooks"] = IF Loading(x) THEN tables.runbooks ELSE x.own.runbooks
  BY <1>2, <1>3 DEF Tables
<1>5. tables' = [logs |-> tables'["logs"], past_incidents |-> tables'["past_incidents"],
                 runbooks |-> tables'["runbooks"]]
  BY <1>3 DEF Tables
<1>6. /\ tables'["logs"] \in LogRows /\ tables'["past_incidents"] \in VectorRows
      /\ tables'["runbooks"] \in VectorRows
  BY <1>1, <1>4 DEF TypeInv, Contents, Transactions
<1>7. tables' \in Contents
  BY <1>5, <1>6 DEF Contents
<1> QED
  BY <1>1, <1>4, <1>7

\* What a commit leaves is a whole load or a whole seeding.
LEMMA CommitCommitted ==
  ASSUME IInv, NEW p \in Scripts, commit(p)
  PROVE  CommittedInv'
<1> USE DEF IInv
<1>1. PICK x \in Transactions :
         /\ x = txn[p] /\ x.pc = "commit" /\ ModelOK(x)
         /\ OwnOK(x, tables.past_incidents)
  BY DEF TypeInv, TransactionsInv, commit, At
<1>2. PICK new : new = tables'
  OBVIOUS
<1>3. PICK since : since = seeded'
  OBVIOUS
<1>4. CommittedOK(tables, seeded)
  BY DEF CommittedInv
<1>5. CASE x.model = NoModel
  <2>1. Loading(x)
    BY <1>1, <1>5 DEF Loading
  <2>2. /\ new.logs.load = x.load /\ new.past_incidents.load = x.load /\ x.load # 0
        /\ new.past_incidents.embedding = [i \in Incidents |-> Null]
        /\ new.runbooks = tables.runbooks
    BY <1>1, <1>2, <2>1, CommitTables DEF OwnOK, LoadStatements
  <2>3. since # "since" /\ (since = "never" <=> seeded = "never")
    BY <1>1, <1>3, <1>5 DEF commit, TypeInv
  <2>4. Embedded(new.past_incidents.embedding) = {}
    BY <2>2 DEF Embedded
  <2> QED
    BY <1>2, <1>3, <1>4, <2>2, <2>3, <2>4 DEF CommittedInv, CommittedOK
<1>6. CASE x.model # NoModel
  <2>1. ~Loading(x) /\ Seeding(x) /\ x.model \in Models
    BY <1>1, <1>6 DEF Loading, Seeding, LoadStatements, Transactions
  <2>2. /\ new.logs = tables.logs /\ new.past_incidents = x.own.past_incidents
        /\ new.runbooks = x.own.runbooks
    BY <1>1, <1>2, <2>1, CommitTables
  <2>3. /\ new.past_incidents.load = tables.past_incidents.load
        /\ DOMAIN new.past_incidents.embedding = DOMAIN tables.past_incidents.embedding
        /\ new.runbooks.load = 0
        /\ new.runbooks.embedding = [r \in Runbooks |-> Vector(0, x.model)]
        /\ new.past_incidents.embedding =
              [i \in DOMAIN new.past_incidents.embedding |-> Vector(new.past_incidents.load, x.model)]
    BY <1>1, <2>1, <2>2 DEF OwnOK, SeedStatements
  <2>4. since = "since"
    BY <1>1, <1>3, <1>6 DEF commit
  <2>5. DOMAIN new.past_incidents.embedding = IF new.past_incidents.load = 0 THEN {} ELSE Incidents
    BY <1>4, <2>3 DEF CommittedOK
  <2>6. new.logs.load = new.past_incidents.load
    BY <1>4, <2>2, <2>3 DEF CommittedOK
  <2>7. CASE new.past_incidents.load = 0
    <3>1. Embedded(new.past_incidents.embedding) = {}
      BY <2>5, <2>7 DEF Embedded
    <3> QED
      BY <1>2, <1>3, <2>1, <2>3, <2>4, <2>5, <2>6, <2>7, <3>1 DEF CommittedInv, CommittedOK
  <2>8. CASE new.past_incidents.load # 0
    <3>1. Indexed(new.past_incidents, new.runbooks, x.model)
      BY <2>3, <2>5, <2>8 DEF Indexed
    <3> QED
      BY <1>2, <1>3, <2>1, <2>3, <2>4, <2>5, <2>6, <2>8, <3>1 DEF CommittedInv, CommittedOK
  <2> QED
    BY <2>7, <2>8
<1> QED
  BY <1>5, <1>6

\* The commit ends the run of a seeding and leaves that of a load to report; the
\* others do not depend on the tables it has replaced.
LEMMA CommitIInv ==
  ASSUME IInv, NEW p \in Scripts, commit(p)
  PROVE  IInv'
<1> USE DEF IInv
<1>1. PICK x : /\ x \in {NoTransaction, Reporting} /\ txn' = [txn EXCEPT ![p] = x]
               /\ now' = now /\ starts' = starts /\ reader' = reader
               /\ txn[p].pc = "commit" /\ txn[p] \in Transactions
               /\ OwnOK(txn[p], tables.past_incidents)
  BY DEF commit, At, TypeInv, TransactionsInv
<1>9. /\ x \in Transactions /\ ~Loading(x) /\ ModelOK(x) /\ LocksOK(x)
      /\ \A incidents : OwnOK(x, incidents)
      /\ \A t \in Tables : x.held[t] = "none"
  BY <1>1, NoTransactionOK, ReportingOK
<1>2. /\ txn' \in [Scripts -> Transactions] /\ txn'[p] = x
      /\ \A q \in Scripts \ {p} : txn'[q] = txn[q]
  BY <1>9, <1>1 DEF TypeInv
<1>3. TypeInv'
  <2>1. seeded' \in {"never", "before", "since"}
    BY DEF commit, TypeInv
  <2> QED
    BY <1>1, <1>2, <2>1, CommitTables DEF TypeInv
<1>4. TransactionsInv'
  <2> SUFFICES ASSUME NEW q \in Scripts
               PROVE  ModelOK(txn'[q]) /\ LocksOK(txn'[q]) /\ OwnOK(txn'[q], tables'.past_incidents)
    BY DEF TransactionsInv
  <2>1. CASE q = p
    BY <1>2, <1>9, <2>1
  <2>2. CASE q # p
    <3>1. txn[p].held["past_incidents"] = "table"
      BY <1>1 DEF TransactionsInv, LocksOK
    <3>2. txn[q].held["past_incidents"] = "none"
      BY <2>2, <3>1 DEF ExclusiveInv, Compatible, Tables
    <3>3. PICK y : y = txn[q]
      OBVIOUS
    <3>4. y \in Transactions /\ ModelOK(y) /\ LocksOK(y) /\ OwnOK(y, tables.past_incidents)
      BY <3>3 DEF TypeInv, TransactionsInv
    <3>5. y.pc \notin {"update", "alter_runbooks", "alter_incidents", "load_runbooks",
                       "placeholder", "embed", "commit"}
      BY <3>2, <3>3, <3>4 DEF LocksOK
    <3>6. OwnOK(y, tables'.past_incidents)
      BY <3>4, <3>5 DEF OwnOK, Seeding, SeedStatements
    <3> QED
      BY <1>2, <2>2, <3>3, <3>4, <3>6
  <2> QED
    BY <2>1, <2>2
<1>5. ExclusiveInv'
  BY <1>2, <1>9 DEF ExclusiveInv, Compatible
<1>6. FreshInv'
  BY <1>1, <1>2, <1>9, CommitTables DEF FreshInv, OwnOK
<1>7. SearchInv'
  <2>1. CASE Loading(txn[p])
    <3>1. tables'.logs.load = txn[p].load
      BY <1>1, <2>1, CommitTables DEF OwnOK
    <3>2. reader.call = "search_logs" => txn[p].load # reader.load
      BY <2>1 DEF FreshInv
    <3> QED
      BY <1>1, <3>1, <3>2 DEF SearchInv
  <2>2. CASE ~Loading(txn[p])
    <3>1. tables'.logs = tables.logs
      BY <2>2, CommitTables
    <3> QED
      BY <1>1, <3>1 DEF SearchInv, asked, in_window, ts
  <2> QED
    BY <2>1, <2>2
<1>8. AnswersAgree' /\ VectorsFound'
  BY <1>1 DEF AnswersAgree, VectorsFound
<1> QED
  BY <1>3, <1>4, <1>5, <1>6, <1>7, <1>8, CommitCommitted
--------------------------------------------------------------------------------
\* A tool call reads: only what the agent knows changes.
LEMMA ReadFrame ==
  ASSUME IInv, UNCHANGED <<tables, txn, now, starts, seeded>>,
         reader'.call \in {"none", "search_logs", "get_error_rate", "vector_search", "raised"}
  PROVE  TypeInv' /\ TransactionsInv' /\ ExclusiveInv' /\ CommittedInv'
<1>1. TypeInv'
  BY DEF IInv, TypeInv
<1>2. TransactionsInv'
  BY DEF IInv, TransactionsInv
<1>3. ExclusiveInv'
  BY DEF IInv, ExclusiveInv
<1>4. CommittedInv'
  BY DEF IInv, CommittedInv
<1> QED
  BY <1>1, <1>2, <1>3, <1>4

\* Lines are searched: they are those of the load in the table.
LEMMA SearchIInv ==
  ASSUME IInv, NEW level \in levels, NEW keyword \in Keywords \cup {NoKeyword},
         NEW limit \in Limits, search_logs(level, keyword, limit)
  PROVE  IInv'
<1>1. PICK lines \in Oldest(asked(level, keyword), effective_limit(limit, log_search_limit)) :
         reader' = [call |-> "search_logs", level |-> level, keyword |-> keyword,
                    limit |-> limit, lines |-> lines, load |-> tables.logs.load]
  BY DEF search_logs
<1>2. /\ reader'.call = "search_logs" /\ reader'.level = level
      /\ reader'.keyword = keyword /\ reader'.limit = limit
      /\ reader'.lines = lines /\ reader'.load = tables.logs.load
  BY <1>1
<1>3. UNCHANGED <<tables, txn, now, starts, seeded>>
  BY DEF search_logs
<1>4. TypeInv' /\ TransactionsInv' /\ ExclusiveInv' /\ CommittedInv'
  BY <1>2, <1>3, ReadFrame
<1>5. FreshInv'
  <2>1. tables.logs.load \in 0..starts
    BY BoundsAssumption DEF IInv, FreshInv, TypeInv, Contents, LogRows, Loads
  <2> QED
    BY <1>2, <1>3, <2>1 DEF IInv, FreshInv
<1>6. SearchInv'
  <2>1. /\ lines \subseteq asked(level, keyword)
        /\ Cardinality(lines) = AtMost(effective_limit(limit, log_search_limit),
                                       Cardinality(asked(level, keyword)))
    BY DEF Oldest
  <2>2. asked(level, keyword)' = asked(level, keyword)
    BY <1>3 DEF asked, in_window, ts
  <2>3. asked(reader.level, reader.keyword)' = asked(level, keyword)
    BY <1>2, <2>2 DEF asked
  <2> QED
    BY <1>2, <2>1, <2>3 DEF SearchInv
<1>7. AnswersAgree' /\ VectorsFound'
  BY <1>2 DEF AnswersAgree, VectorsFound
<1> QED
  BY <1>4, <1>5, <1>6, <1>7 DEF IInv

\* The error rate is counted over the lines that were searched, if the load is
\* still the same.
LEMMA CountIInv ==
  ASSUME IInv, get_error_rate
  PROVE  IInv'
<1> DEFINE errors == {l \in counted : l.level = "ERROR"}
<1>1. /\ reader'.call = "get_error_rate" /\ reader'.search = reader
      /\ reader'.load = tables.logs.load /\ reader'.total_count = Cardinality(counted)
      /\ reader'.error_count = Cardinality(errors) /\ reader.call = "search_logs"
  BY DEF get_error_rate
<1>2. UNCHANGED <<tables, txn, now, starts, seeded>>
  BY DEF get_error_rate
<1>3. TypeInv' /\ TransactionsInv' /\ ExclusiveInv' /\ CommittedInv'
  BY <1>1, <1>2, ReadFrame
<1>4. FreshInv' /\ SearchInv' /\ VectorsFound'
  BY <1>1, <1>2 DEF IInv, FreshInv, SearchInv, VectorsFound
<1>5. AnswersAgree'
  <2> SUFFICES ASSUME reader.load = tables.logs.load
               PROVE  LET shown == Cardinality(reader.lines)
                          found == Cardinality({l \in reader.lines : l.level = "ERROR"})
                          full == shown >= IF reader.limit = 0 THEN log_search_limit
                                           ELSE reader.limit
                      IN  /\ found <= Cardinality(errors) /\ shown <= Cardinality(counted)
                          /\ reader.keyword = NoKeyword /\ ~full =>
                                /\ reader.level \in {"any", "ERROR"} =>
                                      found = Cardinality(errors)
                                /\ reader.level = "any" => shown = Cardinality(counted)
    BY <1>1 DEF AnswersAgree
  <2>1. PICK shown, matching, limit :
           /\ shown = reader.lines /\ matching = asked(reader.level, reader.keyword)
           /\ limit = effective_limit(reader.limit, log_search_limit)
    OBVIOUS
  <2>2. /\ reader.level \in levels /\ reader.limit \in Limits /\ shown \subseteq matching
        /\ Cardinality(shown) = AtMost(limit, Cardinality(matching))
    BY <1>1, <2>1 DEF IInv, SearchInv
  <2>3. matching \subseteq counted /\ counted \subseteq Corpus /\ errors \subseteq counted
    BY <2>1 DEF asked, counted
  <2>4. /\ reader.keyword = NoKeyword /\ reader.level \in {"any", "ERROR"} => errors \subseteq matching
        /\ reader.keyword = NoKeyword /\ reader.level = "any" => matching = counted
    BY <2>1 DEF asked, counted
  <2>5. IsFiniteSet(counted) /\ IsFiniteSet(matching) /\ IsFiniteSet(errors)
    BY <2>3, CorpusAssumption, FS_Subset
  <2>6. PICK found : found = {l \in shown : l.level = "ERROR"}
    OBVIOUS
  <2>7. found \subseteq errors
    BY <2>2, <2>3, <2>6
  <2>8. /\ Cardinality(found) <= Cardinality(errors) /\ Cardinality(shown) <= Cardinality(counted)
        /\ Cardinality(shown) \in Nat /\ Cardinality(matching) \in Nat
    BY <2>2, <2>3, <2>5, <2>7, FS_Subset, FS_CardinalityType
  <2>9. limit \in Nat /\ limit = IF reader.limit = 0 THEN log_search_limit ELSE reader.limit
    BY <2>1, <2>2, LimitsAssumption DEF effective_limit
  <2>10. ASSUME ~(Cardinality(shown) >= limit)
         PROVE  shown = matching
    <3>1. Cardinality(shown) = Cardinality(matching)
      BY <2>2, <2>8, <2>9, <2>10 DEF AtMost
    <3> QED
      BY <2>2, <2>5, <3>1, FS_Subset
  <2>11. ASSUME shown = matching, errors \subseteq matching
         PROVE  found = errors
    BY <2>6, <2>7, <2>11
  <2> HIDE DEF errors
  <2> QED
    BY <2>1, <2>4, <2>6, <2>8, <2>9, <2>10, <2>11
<1> QED
  BY <1>3, <1>4, <1>5 DEF IInv

\* A vector search finds what the committed tables hold.
LEMMA VectorSearchIInv ==
  ASSUME IInv, NEW t \in VectorTables, NEW model \in providers, NEW limit \in Limits,
         vector_search(t, model, limit)
  PROVE  IInv'
<1> DEFINE e == tables[t].embedding
           n == effective_limit(limit, vector_search_limit)
<1>1. PICK ids \in SUBSET embedded(t) :
         /\ Cardinality(ids) = AtMost(n, Cardinality(embedded(t)))
         /\ reader' = [call |-> "vector_search", table |-> t, model |-> model, limit |-> limit,
                       vectors |-> [i \in ids |-> e[i]],
                       load |-> tables[t].load, seeded |-> seeded]
  BY DEF vector_search
<1>2. /\ reader'.call = "vector_search" /\ reader'.table = t /\ reader'.model = model
      /\ reader'.limit = limit /\ reader'.vectors = [i \in ids |-> e[i]]
      /\ reader'.load = tables[t].load /\ reader'.seeded = seeded
  BY <1>1
<1>3. /\ UNCHANGED <<tables, txn, now, starts, seeded>>
      /\ comparable(t, model) /\ model \in Models
  BY DEF vector_search, providers
<1>4. TypeInv' /\ TransactionsInv' /\ ExclusiveInv' /\ CommittedInv'
  BY <1>2, <1>3, ReadFrame
<1>5. FreshInv' /\ SearchInv' /\ AnswersAgree'
  BY <1>2, <1>3 DEF IInv, FreshInv, SearchInv, AnswersAgree
<1>6. VectorsFound'
  <2>1. PICK rows :
           rows = IF t = "runbooks" THEN IF seeded = "never" THEN {} ELSE Runbooks
                  ELSE IF seeded = "since" /\ tables[t].load # 0 THEN Incidents ELSE {}
    OBVIOUS
  <2>2. CommittedOK(tables, seeded)
    BY DEF IInv, CommittedInv
  <2>3. tables[t].load \in Nat
    BY BoundsAssumption DEF IInv, TypeInv, Contents, VectorRows, VectorTables, Loads
  <2>4. \A m \in Models, k \in Nat : Vector(k, m) # Null
    BY NamesAssumption DEF Vector
  <2>5. embedded(t) = rows /\ \E m \in Models : \A i \in rows : e[i] = Vector(tables[t].load, m)
    <3>1. embedded(t) = Embedded(e)
      BY DEF embedded, Embedded
    <3>2. ASSUME NEW I, NEW k \in Nat, NEW m \in Models, e = [i \in I |-> Vector(k, m)]
          PROVE  Embedded(e) = I /\ \A i \in I : e[i] = Vector(k, m)
      BY <2>4, <3>2 DEF Embedded
    <3>3. CASE t = "runbooks"
      <4>1. tables[t] = tables.runbooks
        BY <3>3
      <4>2. CASE seeded = "never"
        BY <2>1, <2>2, <3>1, <3>3, <4>1, <4>2, NamesAssumption DEF CommittedOK, Embedded
      <4>3. CASE seeded # "never"
        <5>1. PICK m \in Models : e = [r \in Runbooks |-> Vector(0, m)]
          BY <2>2, <4>1, <4>3 DEF CommittedOK
        <5>2. tables[t].load = 0 /\ rows = Runbooks
          BY <2>1, <2>2, <3>3, <4>1, <4>3 DEF CommittedOK
        <5> QED
          BY <3>1, <3>2, <5>1, <5>2
      <4> QED
        BY <4>2, <4>3
    <3>4. CASE t = "past_incidents"
      <4>1. tables[t] = tables.past_incidents
        BY <3>4
      <4>2. CASE seeded = "since" /\ tables[t].load # 0
        <5>1. PICK m \in Models : e = [i \in Incidents |-> Vector(tables[t].load, m)]
          BY <2>2, <4>1, <4>2 DEF CommittedOK, Indexed
        <5>2. rows = Incidents
          BY <2>1, <3>4, <4>2
        <5> QED
          BY <2>3, <3>1, <3>2, <5>1, <5>2
      <4>3. CASE ~(seeded = "since" /\ tables[t].load # 0)
        BY <2>1, <2>2, <3>1, <3>4, <4>1, <4>3, NamesAssumption DEF CommittedOK
      <4> QED
        BY <4>2, <4>3
    <3> QED
      BY <3>3, <3>4 DEF VectorTables
  <2>6. \A i \in rows : e[i] = Vector(tables[t].load, model)
    BY <1>3, <2>5 DEF comparable, Vector
  <2>7. IsFiniteSet(rows) /\ Cardinality(rows) \in Nat
    BY <2>1, NamesAssumption, FS_EmptySet, FS_CardinalityType
  <2>8. limit \in Nat /\ n \in Nat \ {0} /\ (limit # 0 => n = limit)
    BY LimitsAssumption DEF effective_limit
  <2>9. ids \subseteq rows /\ Cardinality(ids) = AtMost(n, Cardinality(rows))
    BY <1>1, <2>5
  <2>10. ids = {} => rows = {}
    <3> SUFFICES ASSUME ids = {} PROVE rows = {}
      OBVIOUS
    <3>1. Cardinality(ids) = 0
      BY FS_EmptySet
    <3>2. Cardinality(rows) = 0
      BY <2>7, <2>8, <2>9, <3>1 DEF AtMost
    <3> QED
      BY <2>7, <3>2, FS_EmptySet
  <2>11. limit >= Cardinality(rows) => ids = rows
    <3> SUFFICES ASSUME limit >= Cardinality(rows) PROVE ids = rows
      OBVIOUS
    <3>1. n >= Cardinality(rows)
      BY <2>7, <2>8
    <3>2. Cardinality(ids) = Cardinality(rows)
      BY <2>7, <2>8, <2>9, <3>1 DEF AtMost
    <3> QED
      BY <2>7, <2>9, <3>2, FS_Subset
  <2> HIDE DEF e, n
  <2>12. DOMAIN reader'.vectors = ids /\ \A i \in ids : reader'.vectors[i] = e[i]
    BY <1>2
  <2> QED
    BY <1>2, <2>1, <2>6, <2>9, <2>10, <2>11, <2>12 DEF VectorsFound
<1> QED
  BY <1>4, <1>5, <1>6 DEF IInv

\* A call that raises, and an agent that goes on.
LEMMA OtherReadIInv ==
  ASSUME IInv, \/ forget
               \/ \E t \in VectorTables, model \in providers : vector_search_raises(t, model)
  PROVE  IInv'
<1>1. reader'.call \in {"none", "raised"} /\ UNCHANGED <<tables, txn, now, starts, seeded>>
  BY DEF forget, vector_search_raises, NotAsked
<1>2. TypeInv' /\ TransactionsInv' /\ ExclusiveInv' /\ CommittedInv'
  BY <1>1, ReadFrame
<1>3. FreshInv' /\ SearchInv' /\ AnswersAgree' /\ VectorsFound'
  BY <1>1 DEF IInv, FreshInv, SearchInv, AnswersAgree, VectorsFound
<1> QED
  BY <1>2, <1>3 DEF IInv
--------------------------------------------------------------------------------
\* Before the first script.
LEMMA InitIInv == Init => IInv
<1> SUFFICES ASSUME Init PROVE IInv
  OBVIOUS
<1>1. /\ tables = Empty /\ \A p \in Scripts : txn[p] = NoTransaction
      /\ reader.call = "none" /\ starts = 0 /\ seeded = "never"
  BY DEF Init, NotAsked
<1>2. Empty \in Contents
  BY NoTransactionOK DEF NoTransaction, Transactions
<1>3. TypeInv
  BY <1>1, <1>2, NoTransactionOK, BoundsAssumption DEF Init, TypeInv, Loads
<1>4. TransactionsInv /\ ExclusiveInv
  BY <1>1, NoTransactionOK DEF TransactionsInv, ExclusiveInv, Compatible
<1>5. CommittedInv
  BY <1>1 DEF CommittedInv, CommittedOK, Empty, NoRows, Embedded
<1>6. FreshInv
  BY <1>1, NoTransactionOK DEF FreshInv, Empty
<1>7. SearchInv /\ AnswersAgree /\ VectorsFound
  BY <1>1 DEF SearchInv, AnswersAgree, VectorsFound
<1> QED
  BY <1>3, <1>4, <1>5, <1>6, <1>7 DEF IInv

\* Every step keeps the invariant.
LEMMA NextIInv == IInv /\ [Next]_vars => IInv'
<1> SUFFICES ASSUME IInv, [Next]_vars PROVE IInv'
  OBVIOUS
<1>1. ASSUME NEW p \in Scripts, generate_logs(p) \/ seed_runbooks(p)
      PROVE  IInv'
  <2>1. CASE start_load(p)
    BY <2>1, StartLoadIInv
  <2>2. CASE start_seeding(p)
    BY <2>2, StartSeedingIInv
  <2>3. CASE \/ load_logs(p) \/ load_incidents(p) \/ reset(p) \/ update(p) \/ alter_runbooks(p)
             \/ alter_incidents(p) \/ load_runbooks(p) \/ placeholder(p) \/ embed(p)
             \/ count_levels(p)
    <3>1. (\E x : Moves(p, x)) /\ UNCHANGED unread
      BY <2>3, StatementMoves DEF IInv
    <3> QED
      BY <3>1, MovesIInv
  <2>4. CASE count_errors(p)
    BY <2>4, EndsIInv
  <2> QED
    BY <1>1, <2>1, <2>2, <2>3, <2>4 DEF generate_logs, seed_runbooks
<1>2. ASSUME NEW p \in Scripts, commit(p) PROVE IInv'
  BY <1>2, CommitIInv
<1>3. ASSUME NEW p \in Scripts, script_dies(p) PROVE IInv'
  BY <1>3, EndsIInv
<1>4. ASSUME read PROVE IInv'
  BY <1>4, SearchIInv, CountIInv, VectorSearchIInv, OtherReadIInv DEF read
<1>5. CASE UNCHANGED vars
  <2>1. UNCHANGED <<tables, txn, now, starts, seeded>> /\ reader' = reader
    BY <1>5 DEF vars
  <2>2. TypeInv' /\ TransactionsInv' /\ ExclusiveInv' /\ CommittedInv'
    BY <2>1, ReadFrame DEF IInv, TypeInv
  <2>3. FreshInv'
    BY <2>1 DEF IInv, FreshInv
  <2>4. SearchInv' /\ AnswersAgree' /\ VectorsFound'
    BY <2>1, Unread DEF IInv
  <2> QED
    BY <2>2, <2>3, <2>4 DEF IInv
<1> QED
  BY <1>1, <1>2, <1>3, <1>4, <1>5 DEF Next, write

\* The inductive invariant holds of every behaviour.
LEMMA Invariance == Spec => []IInv
  BY InitIInv, NextIInv, PTL DEF Spec

\* The types give what TypeOK says of a table.
LEMMA ContentsType ==
  ASSUME NEW c \in Contents
  PROVE  ContentsOK(c)
<1>1. c.logs \in LogRows /\ c.past_incidents \in VectorRows /\ c.runbooks \in VectorRows
  BY DEF Contents
<1>2. ASSUME NEW r \in VectorRows
      PROVE  /\ r.load \in Loads /\ DOMAIN r.embedding \subseteq Incidents \cup Runbooks
             /\ \A i \in DOMAIN r.embedding : r.embedding[i] \in Vectors
  BY DEF VectorRows, Embeddings
<1>3. \A t \in VectorTables : c[t] \in VectorRows
  BY <1>1 DEF VectorTables
<1> QED
  BY <1>1, <1>2, <1>3 DEF ContentsOK, LogRows

(* Every variable of LogStore keeps its type: however the scripts overlap and *)
(* die, tables, transactions and answers are well-formed.                     *)
THEOREM TypeCorrect == Spec => []TypeOK
<1>1. TypeInv => TypeOK
  <2> SUFFICES ASSUME TypeInv PROVE TypeOK
    OBVIOUS
  <2>1. ContentsOK(tables)
    BY ContentsType DEF TypeInv
  <2>2. ASSUME NEW p \in Scripts
        PROVE  /\ txn[p].pc \in {"idle", "load_logs", "load_incidents", "reset", "update",
                                 "alter_runbooks", "alter_incidents", "load_runbooks",
                                 "placeholder", "embed", "commit", "count_levels", "count_errors"}
               /\ txn[p].held \in [Tables -> {"none", "read", "share", "rows", "table"}]
               /\ ContentsOK(txn[p].own)
               /\ txn[p].load \in Loads /\ txn[p].model \in Models \cup {NoModel}
    <3>1. txn[p] \in Transactions
      BY DEF TypeInv
    <3>2. ContentsOK(txn[p].own)
      BY <3>1, ContentsType DEF Transactions
    <3> QED
      BY <3>1, <3>2 DEF Transactions, Pcs, LoadStatements, SeedStatements, ReportStatements, Modes
  <2> QED
    BY <2>1, <2>2 DEF TypeInv, TypeOK
<1> QED
  BY <1>1, Invariance, PTL DEF IInv

(* WholeLoads of LogStore: the transactions of generate_logs.py and            *)
(* seed_runbooks.py leave the log store with whole loads and whole indexes,    *)
(* for any number of scripts that overlap, die or deadlock.                    *)
THEOREM LoadsAreWhole == Spec => []WholeLoads
<1>1. TypeInv /\ CommittedInv => WholeLoads
  <2> SUFFICES ASSUME TypeInv, CommittedInv PROVE WholeLoads
    OBVIOUS
  <2>1. CommittedOK(tables, seeded)
    BY DEF CommittedInv
  <2>2. embedded("past_incidents") = Embedded(tables.past_incidents.embedding)
    BY DEF embedded, Embedded
  <2>3. \E model \in Models :
           tables.runbooks.embedding = [r \in DOMAIN tables.runbooks.embedding |-> Vector(0, model)]
    <3>1. CASE seeded = "never"
      <4>1. PICK model \in Models : TRUE
        BY NamesAssumption
      <4>2. PICK e \in Embeddings : e = tables.runbooks.embedding /\ DOMAIN e = {}
        BY <2>1, <3>1 DEF CommittedOK, TypeInv, Contents, VectorRows
      <4>3. e = [r \in DOMAIN e |-> Vector(0, model)]
        BY <4>2 DEF Embeddings
      <4> QED
        BY <4>1, <4>2, <4>3
    <3>2. CASE seeded # "never"
      BY <2>1, <3>2 DEF CommittedOK
    <3> QED
      BY <3>1, <3>2
  <2> QED
    BY <2>1, <2>2, <2>3 DEF CommittedOK, Indexed, WholeLoads
<1> QED
  BY <1>1, Invariance, PTL DEF IInv

(* AnswersAgree of LogStore: a search and a count over one load of the logs    *)
(* tell the same of its errors and lines while the limit, a keyword or another *)
(* level hides none, and the search never shows more than was counted,         *)
(* whatever is loaded or seeded in between.                                    *)
THEOREM SearchesAgree == Spec => []AnswersAgree
  BY Invariance, PTL DEF IInv

(* VectorsFound of LogStore: a vector search misses nothing that is indexed,   *)
(* and what it finds is indexed from the rows and by the model of the search.  *)
THEOREM VectorSearchesFind == Spec => []VectorsFound
  BY Invariance, PTL DEF IInv

(* DeadlocksAreSeedings of LogStore: generate_logs.py locks its tables in an   *)
(* order no run of either script can deadlock with.                            *)
THEOREM LoadsDoNotDeadlock == Spec => []DeadlocksAreSeedings
<1>1. TypeInv /\ TransactionsInv => DeadlocksAreSeedings
  <2> SUFFICES ASSUME TypeInv, TransactionsInv, NEW p \in Scripts, NEW q \in Scripts,
                      WaitsFor(p, q), WaitsFor(q, p)
               PROVE  txn[p].model # NoModel
    BY DEF DeadlocksAreSeedings
  <2> SUFFICES ASSUME txn[p].model = NoModel PROVE FALSE
    OBVIOUS
  <2>1. txn[p] \in Transactions /\ ModelOK(txn[p]) /\ LocksOK(txn[p])
    BY DEF TypeInv, TransactionsInv
  <2>2. txn[q] \in Transactions /\ ModelOK(txn[q]) /\ LocksOK(txn[q])
    BY DEF TypeInv, TransactionsInv
  <2> QED
    BY <2>1, <2>2 DEF WaitsFor, wanted, ModelOK, LocksOK, Loading, Seeding, LoadStatements,
                      SeedStatements, ReportStatements, Transactions, Pcs
<1> QED
  BY <1>1, Invariance, PTL DEF IInv

Waits(p) == \E q \in Scripts : WaitsFor(p, q)

\* While a script runs, one that runs has the lock it needs, or two wait for
\* each other and Postgres ends one of them.
WayOut ==
    (\E p \in Scripts : txn[p].pc # "idle") =>
        \/ \E p \in Scripts : txn[p].pc # "idle" /\ ~Waits(p)
        \/ \E p, q \in Scripts : WaitsFor(p, q) /\ WaitsFor(q, p)

\* What each statement waits for.
LEMMA Waiting ==
  ASSUME NEW p, NEW q
  PROVE  /\ txn[p].pc = "load_logs" =>
               (WaitsFor(p, q) <=> p # q /\ txn[q].held["logs"] # "none")
         /\ txn[p].pc \in {"load_incidents", "alter_incidents"} =>
               (WaitsFor(p, q) <=> p # q /\ txn[q].held["past_incidents"] # "none")
         /\ txn[p].pc = "alter_runbooks" =>
               (WaitsFor(p, q) <=> p # q /\ txn[q].held["runbooks"] # "none")
         /\ txn[p].pc = "reset" =>
               (WaitsFor(p, q) <=> p # q /\ txn[q].held["past_incidents"] = "table")
         /\ txn[p].pc = "update" =>
               (WaitsFor(p, q) <=> p # q /\ txn[q].held["past_incidents"] = "rows"
                                        /\ RowsOf(q) # {})
         /\ txn[p].pc \in {"load_runbooks", "placeholder", "embed", "commit", "count_errors"} =>
               ~WaitsFor(p, q)
         /\ txn[p].pc = "count_levels" =>
               (WaitsFor(p, q) <=> p # q /\ txn[q].held["logs"] = "table")
  BY DEF WaitsFor, wanted

(* The safety half of ScriptsEnd: however many runs of the two scripts overlap, *)
(* they never all wait unless two of them wait for each other, which is what   *)
(* deadlock_detected looks for.  Who has past_incidents to itself waits for    *)
(* nothing; of the others, who has most waits at worst for one that waits for  *)
(* it.                                                                         *)
THEOREM SomeoneGoesOn == Spec => []WayOut
<1> DEFINE Indexing == {"load_runbooks", "placeholder", "embed", "commit", "count_errors"}
<1>1. TypeInv /\ TransactionsInv /\ ExclusiveInv => WayOut
  <2> SUFFICES ASSUME TypeInv, TransactionsInv, ExclusiveInv,
                      NEW s \in Scripts, txn[s].pc # "idle",
                      \A p \in Scripts : txn[p].pc = "idle" \/ Waits(p),
                      \A p, q \in Scripts : ~(WaitsFor(p, q) /\ WaitsFor(q, p))
               PROVE  FALSE
    BY DEF WayOut
  <2>1. \A p \in Scripts :
           /\ txn[p] \in Transactions /\ ModelOK(txn[p]) /\ LocksOK(txn[p])
           /\ OwnOK(txn[p], tables.past_incidents)
    BY DEF TypeInv, TransactionsInv
  <2>2. \A p \in Scripts : txn[p].pc \in Pcs
    BY <2>1 DEF Transactions
  <2>3. \A p \in Scripts : txn[p].pc # "idle" => \E q \in Scripts : WaitsFor(p, q)
    BY DEF Waits
  <2>4. \A p, q \in Scripts : ~(WaitsFor(p, q) /\ WaitsFor(q, p))
    OBVIOUS
  \* Nobody indexes, commits or ends its report.
  <2>5. \A p \in Scripts : txn[p].pc \notin Indexing
    BY <2>3, Waiting
  \* So nobody has past_incidents to itself.
  <2>6. \A p \in Scripts : txn[p].held["past_incidents"] # "table"
    BY <2>1, <2>2, <2>5 DEF LocksOK, Pcs, LoadStatements, SeedStatements, ReportStatements
  <2>7. \A p \in Scripts : txn[p].held["runbooks"] # "none" => txn[p].pc = "alter_incidents"
    BY <2>1, <2>2, <2>5 DEF LocksOK, Seeding, Pcs, LoadStatements, SeedStatements,
                               ReportStatements
  <2>8. \A p \in Scripts : txn[p].held["logs"] # "none" => txn[p].pc = "load_incidents"
    BY <2>1, <2>2, <2>5 DEF LocksOK, Loading, Pcs, LoadStatements, SeedStatements,
                               ReportStatements
  <2>9. \A p \in Scripts : txn[p].held["past_incidents"] = "rows" =>
                              txn[p].pc \in {"alter_runbooks", "alter_incidents"}
    BY <2>1, <2>2, <2>5 DEF LocksOK, Pcs, LoadStatements, SeedStatements, ReportStatements
  <2>10. \A p \in Scripts : txn[p].held["past_incidents"] # "none" =>
                              txn[p].pc \in {"update", "alter_runbooks", "alter_incidents"}
    BY <2>1, <2>2, <2>5 DEF LocksOK, Pcs, LoadStatements, SeedStatements, ReportStatements
  <2>11. \A p \in Scripts : txn[p].pc = "alter_incidents" =>
            txn[p].held["runbooks"] = "table" /\ txn[p].held["past_incidents"] = "rows"
    BY <2>1 DEF LocksOK, Seeding, SeedStatements
  \* Seedings that have rows have those of the table, all the same.
  <2>12. \A p, q \in Scripts : txn[p].pc \in {"alter_runbooks", "alter_incidents"}
                               /\ txn[q].pc \in {"alter_runbooks", "alter_incidents"}
                               => RowsOf(p) = RowsOf(q)
    BY <2>1 DEF OwnOK, Seeding, SeedStatements, RowsOf
  \* Who alters past_incidents would wait for one that waits for it.
  <2>13. \A p \in Scripts : txn[p].pc # "alter_incidents"
    <3> SUFFICES ASSUME NEW p \in Scripts, txn[p].pc = "alter_incidents" PROVE FALSE
      OBVIOUS
    <3>1. PICK q \in Scripts : p # q /\ txn[q].held["past_incidents"] # "none" /\ WaitsFor(p, q)
      BY <2>3, Waiting
    <3>2. txn[q].pc # "alter_incidents"
      <4>1. "runbooks" \in Tables
        BY DEF Tables
      <4> QED
        BY <2>11, <3>1, <4>1 DEF ExclusiveInv, Compatible
    <3>3. txn[q].pc # "alter_runbooks"
      BY <2>4, <2>11, <3>1, Waiting
    <3>4. txn[q].pc = "update"
      BY <2>10, <3>1, <3>2, <3>3
    <3>5. PICK r \in Scripts : txn[r].held["past_incidents"] = "rows" /\ RowsOf(r) # {}
      BY <2>3, <3>4, Waiting
    <3>6. RowsOf(p) # {}
      BY <2>9, <2>12, <3>5
    <3>7. WaitsFor(q, p)
      BY <2>11, <3>1, <3>4, <3>6, Waiting
    <3> QED
      BY <2>4, <3>1, <3>7
  \* So nobody has runbooks, then nobody rows, and nobody a table.
  <2>14. \A p \in Scripts : txn[p].pc # "alter_runbooks"
    BY <2>3, <2>7, <2>13, Waiting
  <2>15. \A p \in Scripts : txn[p].pc # "update"
    BY <2>3, <2>9, <2>13, <2>14, Waiting
  <2>16. \A p \in Scripts : txn[p].pc \notin {"reset", "load_incidents"}
    BY <2>3, <2>6, <2>10, <2>13, <2>14, <2>15, Waiting
  \* So nobody has logs: a load has none yet, a report can take its lock.
  <2>17. txn[s].pc \in {"load_logs", "count_levels"}
    BY <2>2, <2>5, <2>13, <2>14, <2>15, <2>16
       DEF Pcs, LoadStatements, SeedStatements, ReportStatements
  <2> QED
    BY <2>3, <2>8, <2>16, <2>17, Waiting
<1> QED
  BY <1>1, Invariance, PTL DEF IInv
================================================================================
