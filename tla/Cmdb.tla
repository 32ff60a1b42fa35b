---------------------------------- MODULE Cmdb ----------------------------------
(* The service topology in GLPI: scripts/seed_cmdb.py writes it, one request  *)
(* at a time, and get_ci_dependencies of src/clients/glpi.py reads it back,   *)
(* possibly while a seeding is under way, after one died half way or after    *)
(* several.  GLPI is external: it numbers what it creates and lists it in     *)
(* that order.  An operator whose name is another's with a suffix is a slip a *)
(* change to the code could make; no action uses it.                          *)
EXTENDS Integers, Sequences, FiniteSets, SequencesExt

CONSTANTS
    SERVICES,        \* the names seed_cmdb.py creates, in order
    DEPENDENCIES,    \* its (source, target) pairs: source depends on target
    list_page_size,  \* glpi_list_page_size
    MaxSeedings,     \* bound: starts of the script
    MaxRefused       \* bound: ImpactRelation requests GLPI refuses

Names == ToSet(SERVICES)

ASSUME TopologyAssumption ==
    SERVICES \in Seq(Names) /\ DEPENDENCIES \in Seq([source : Names, target : Names])
ASSUME DistinctAssumption ==
    /\ Cardinality(Names) = Len(SERVICES)
    /\ Cardinality(ToSet(DEPENDENCIES)) = Len(DEPENDENCIES)
ASSUME BoundsAssumption ==
    list_page_size \in Nat \ {0} /\ MaxSeedings \in Nat /\ MaxRefused \in Nat

VARIABLES
    computers,  \* GLPI: name of each Computer, by id
    relations,  \* GLPI: ImpactRelations, in order
    seeder,     \* main of seed_cmdb.py
    seedings,   \* history: starts of it
    refused,    \* history: relations GLPI refused
    whole,      \* history: the first seeding created everything
    reader      \* one get_ci_dependencies call

cmdbVars == <<computers, relations, seeder, seedings, refused, whole, reader>>

glpi == <<computers, relations>>
history == <<seedings, refused, whole>>

--------------------------------------------------------------------------------
(* scripts/seed_cmdb.py *)

NoIds == [n \in Names |-> 0]

NotSeeding == [pc |-> "idle", ids |-> NoIds, created |-> 0, edges |-> 0, ok |-> 0]

\* The id of what GLPI creates next.
next_id == Len(computers) + 1

start_seeding ==
    /\ seeder.pc = "idle" /\ seedings < MaxSeedings
    /\ seedings' = seedings + 1
    /\ seeder' = [NotSeeding EXCEPT !.pc = "computers"]
    /\ UNCHANGED <<glpi, refused, whole, reader>>

\* It never looks whether a name exists.
create_computer ==
    /\ seeder.pc = "computers" /\ seeder.created < Len(SERVICES)
    /\ LET name == SERVICES[seeder.created + 1] IN
       /\ computers' = Append(computers, name)
       /\ seeder' = [seeder EXCEPT !.created = @ + 1, !.ids[name] = next_id,
                                   !.pc = IF seeder.created + 1 = Len(SERVICES)
                                          THEN "edges" ELSE @]
    /\ UNCHANGED <<relations, history, reader>>

relation_swapped(edge) == [source |-> seeder.ids[edge.source], impacted |-> seeder.ids[edge.target]]

\* The target is the source of the impact.
relation(edge) == [source |-> seeder.ids[edge.target], impacted |-> seeder.ids[edge.source]]

AtEdge == seeder.pc = "edges" /\ seeder.edges < Len(DEPENDENCIES)

after_created == [seeder EXCEPT !.edges = @ + 1, !.ok = @ + 1]

create_dependency ==
    /\ AtEdge
    /\ relations' = Append(relations, relation(DEPENDENCIES[seeder.edges + 1]))
    /\ seeder' = after_created
    /\ UNCHANGED <<computers, history, reader>>

\* A refused relation is printed and passed over.
after_refused == [seeder EXCEPT !.edges = @ + 1]

dependency_refused ==
    /\ AtEdge
    /\ refused < MaxRefused /\ refused' = refused + 1
    /\ seeder' = after_refused
    /\ UNCHANGED <<glpi, seedings, whole, reader>>

\* The script reports its counts and ends.
seeding_done ==
    /\ seeder.pc = "edges" /\ seeder.edges = Len(DEPENDENCIES)
    /\ seeder' = NotSeeding
    /\ whole' = (whole \/ (seedings = 1 /\ seeder.ok = Len(DEPENDENCIES)))
    /\ UNCHANGED <<glpi, seedings, refused, reader>>

\* A request of it raises, before or after GLPI has served it: what was created
\* stays, and nothing remembers the ids.
seeding_dies ==
    /\ seeder.pc # "idle"
    /\ seeder' = NotSeeding
    /\ UNCHANGED <<glpi, history, reader>>

--------------------------------------------------------------------------------
(* src/clients/glpi.py *)

\* The positions of a list that its first page shows.
Page(s) == 1..(IF Len(s) < list_page_size THEN Len(s) ELSE list_page_size)

NotReading == [pc |-> "idle", name |-> "none", ci |-> 0, targets |-> <<>>, answer |-> <<>>,
               whole |-> FALSE]

named(name) == {i \in Page(computers) : computers[i] = name}

ci_by_name_latest(name) == CHOOSE i \in named(name) : \A j \in named(name) : j <= i

\* The first item of the page with the name.
ci_by_name(name) == CHOOSE i \in named(name) : \A j \in named(name) : i <= j

\* get_ci: the caller asks by name, a later step of it by id.  No service is named
\* by a number, which get_ci would take for an id.
get_ci(name) ==
    /\ reader.pc = "idle"
    /\ named(name) # {}
    /\ reader' = [NotReading EXCEPT !.pc = "relations", !.name = name,
                                    !.ci = ci_by_name(name), !.whole = whole]
    /\ UNCHANGED <<glpi, seeder, history>>

relation_matches_impacted_ci(r, ci) == r.impacted = ci

own_relations == {i \in Page(relations) : relation_matches_impacted_ci(relations[i], reader.ci)}

\* One page of relations; those of the item, in order, name the targets to ask for.
list_relations ==
    /\ reader.pc = "relations"
    /\ \E own \in [1..Cardinality(own_relations) -> own_relations] :
          /\ \A i, j \in DOMAIN own : i < j => own[i] < own[j]
          /\ reader' = [reader EXCEPT !.pc = "targets",
                                      !.targets = [i \in DOMAIN own |-> relations[own[i]].source]]
    /\ UNCHANGED <<glpi, seeder, history>>

\* get_ci(target_id), one request per relation.
get_target ==
    /\ reader.pc = "targets" /\ Len(reader.answer) < Len(reader.targets)
    /\ reader' = [reader EXCEPT !.answer = Append(@, computers[reader.targets[Len(@) + 1]])]
    /\ UNCHANGED <<glpi, seeder, history>>

answer ==
    /\ reader.pc = "targets" /\ Len(reader.answer) = Len(reader.targets)
    /\ reader' = [reader EXCEPT !.pc = "answered"]
    /\ UNCHANGED <<glpi, seeder, history>>

\* The tool call has returned or raised, wherever it was.
call_over ==
    /\ reader' = NotReading
    /\ UNCHANGED <<glpi, seeder, history>>

--------------------------------------------------------------------------------
CmdbInit ==
    /\ computers = <<>> /\ relations = <<>>
    /\ seeder = NotSeeding
    /\ seedings = 0 /\ refused = 0 /\ whole = FALSE
    /\ reader = NotReading

seed == \/ start_seeding \/ create_computer \/ create_dependency \/ dependency_refused
        \/ seeding_done \/ seeding_dies

read(name) == get_ci(name) \/ list_relations \/ get_target \/ answer

--------------------------------------------------------------------------------
(* Properties *)

Ids == 0..(MaxSeedings * Len(SERVICES))

\* Every variable of the CMDB and its users keeps its type.
CmdbTypeOK ==
    /\ computers \in Seq(Names)
    /\ \A i \in 1..Len(relations) : relations[i].source \in Ids \ {0} /\ relations[i].impacted \in Ids \ {0}
    /\ seeder.pc \in {"idle", "computers", "edges"} /\ seeder.ids \in [Names -> Ids]
    /\ seeder.created \in 0..Len(SERVICES)
    /\ seeder.ok \in 0..seeder.edges /\ seeder.edges \in 0..Len(DEPENDENCIES)
    /\ seedings \in 0..MaxSeedings /\ refused \in 0..MaxRefused /\ whole \in BOOLEAN
    /\ reader.pc \in {"idle", "relations", "targets", "answered"}
    /\ reader.answer \in Seq(Names)

DirectDependencies(name) == {e.target : e \in {d \in ToSet(DEPENDENCIES) : d.source = name}}

\* However seedings and reads interleave, die and repeat, each dependency the
\* tool answers is a declared one, in the declared direction, and answered once.
AnswersDeclared ==
    /\ ToSet(reader.answer) \subseteq DirectDependencies(reader.name)
    /\ Cardinality(ToSet(reader.answer)) = Len(reader.answer)

================================================================================
