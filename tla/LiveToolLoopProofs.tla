--------------------------- MODULE LiveToolLoopProofs ---------------------------
(* Proofs about LiveToolLoop for every topology, page size, number of steps    *)
(* and calls, and any number of seedings.                                      *)
EXTENDS LiveToolLoop, FiniteSetTheorems, SequenceTheorems, WellFoundedInduction, TLAPS

N == Len(SERVICES)
D == Len(DEPENDENCIES)

ItemIds == 1..Len(computers)

Seeders == [pc : {"idle", "computers", "edges"}, ids : [Names -> Nat],
            created : 0..N, edges : 0..D, ok : 0..D]

Readers == [pc : {"idle", "relations", "targets", "answered"}, name : Names \cup {"none"},
            ci : Nat, targets : Seq(Nat), answer : Seq(Names), whole : BOOLEAN]

TypeInv ==
    /\ computers \in Seq(Names)
    /\ relations \in Seq([source : Nat, impacted : Nat])
    /\ seeder \in Seeders /\ reader \in Readers
    /\ seedings \in 0..MaxSeedings /\ refused \in 0..MaxRefused /\ whole \in BOOLEAN

(* What the seeding under way has created: it knows the id of each computer.  *)
SeederInv ==
    /\ seeder.ok <= seeder.edges
    /\ seeder.pc = "idle" => seeder = NotSeeding
    /\ seeder.pc = "computers" => seeder.edges = 0
    /\ seeder.pc = "edges" => seeder.created = N
    /\ \A i \in 1..seeder.created :
          seeder.ids[SERVICES[i]] \in ItemIds /\ computers[seeder.ids[SERVICES[i]]] = SERVICES[i]
    /\ \A n \in Names : seeder.ids[n] \in {0} \cup ItemIds

(* No more computers than the seedings so far may create. *)
CountInv ==
    /\ Len(computers) <= seedings * N
    /\ seeder.pc = "computers" => Len(computers) + N - seeder.created <= seedings * N

(* A relation joins two computers as some declared dependency does. *)
Declares(items, r) ==
    /\ r.source \in 1..Len(items) /\ r.impacted \in 1..Len(items)
    /\ \E e \in ToSet(DEPENDENCIES) :
          items[r.source] = e.target /\ items[r.impacted] = e.source

RelationsInv ==
    /\ \A i \in DOMAIN relations : Declares(computers, relations[i])
    /\ \A i, j \in DOMAIN relations :
          i # j /\ relations[i].impacted = relations[j].impacted =>
             computers[relations[i].source] # computers[relations[j].source]

(* The relations of its own computers are those the seeding has got to. *)
OwnInv ==
    \A i \in DOMAIN relations, s \in 1..seeder.created :
        relations[i].impacted = seeder.ids[SERVICES[s]] =>
            \E k \in 1..seeder.edges :
                /\ DEPENDENCIES[k].source = SERVICES[s]
                /\ relations[i].source = seeder.ids[DEPENDENCIES[k].target]

(* Relation k is dependency k of the first n, between the first computers. *)
Mirrors(n) ==
    \A k \in 1..n :
        /\ relations[k].source \in 1..N /\ relations[k].impacted \in 1..N
        /\ computers[relations[k].source] = DEPENDENCIES[k].target
        /\ computers[relations[k].impacted] = DEPENDENCIES[k].source

(* What the first seeding leaves. *)
FirstInv ==
    /\ seedings = 0 => computers = <<>> /\ relations = <<>> /\ seeder.pc = "idle"
    /\ seedings = 1 /\ seeder.pc # "idle" =>
          /\ Len(computers) = seeder.created /\ Len(relations) = seeder.ok
          /\ \A i \in 1..seeder.created :
                computers[i] = SERVICES[i] /\ seeder.ids[SERVICES[i]] = i
          /\ seeder.ok = seeder.edges => Mirrors(seeder.edges)
    /\ whole =>
          /\ N <= Len(computers) /\ \A i \in 1..N : computers[i] = SERVICES[i]
          /\ D <= Len(relations) /\ Mirrors(D)

(* What the reader has got is about the item it asked for. *)
ReaderInv ==
    /\ reader.pc = "idle" => reader = NotReading
    /\ reader.pc # "idle" => reader.ci \in ItemIds /\ computers[reader.ci] = reader.name
    /\ reader.pc = "relations" => reader.targets = <<>>
    /\ \A i \in DOMAIN reader.targets :
          /\ reader.targets[i] \in ItemIds
          /\ computers[reader.targets[i]] \in DirectDependencies(reader.name)
    /\ \A i, j \in DOMAIN reader.targets :
          i # j => computers[reader.targets[i]] # computers[reader.targets[j]]
    /\ Len(reader.answer) <= Len(reader.targets)
    /\ reader.pc = "answered" => Len(reader.answer) = Len(reader.targets)
    /\ \A i \in DOMAIN reader.answer : reader.answer[i] = computers[reader.targets[i]]

Fits == N <= list_page_size /\ D <= list_page_size

(* A reader that began when the first seeding was whole sees all of it. *)
WholeReadInv ==
    Fits /\ reader.whole /\ reader.pc # "idle" =>
        /\ whole /\ reader.ci \in 1..N
        /\ reader.pc \in {"targets", "answered"} =>
              \A d \in DirectDependencies(reader.name) :
                 \E i \in DOMAIN reader.targets : computers[reader.targets[i]] = d

(* The guard of the loop knows what was answered and searched. *)
LoopInv ==
    /\ LoopTypeOK
    /\ pc \in {"tools", "answer"} => step <= MAX_TOOL_STEPS
    /\ dependency_targets = answered /\ inspected_log_services = searched
    /\ NoEarlyAnswer

AskedInv ==
    /\ asked \subseteq Services
    /\ Fits => \A s \in asked : DirectDependencies(s) \subseteq answered

CmdbInv ==
    /\ TypeInv /\ SeederInv /\ CountInv /\ RelationsInv /\ OwnInv /\ FirstInv
    /\ ReaderInv /\ WholeReadInv

IInv == CmdbInv /\ LoopInv /\ AskedInv
--------------------------------------------------------------------------------
\* A sequence with as many elements as positions repeats none.
LEMMA NoRepetition ==
  ASSUME NEW S, NEW s \in Seq(S)
  PROVE  Cardinality(ToSet(s)) = Len(s) <=> \A i, j \in 1..Len(s) : s[i] = s[j] => i = j
<1> DEFINE I == 1..Len(s)
           T == ToSet(s)
<1>1. s \in Surjection(I, T)
  BY DEF Surjection, ToSet
<1>2. IsFiniteSet(I) /\ Cardinality(I) = Len(s)
  <2>1. PICK n \in Nat : n = Len(s)
    OBVIOUS
  <2>2. IsFiniteSet(1..n) /\ Cardinality(1..n) = IF 1 > n THEN 0 ELSE n - 1 + 1
    BY FS_Interval
  <2> QED
    BY <2>1, <2>2
<1>3. Cardinality(T) = Cardinality(I) <=> s \in Injection(I, T)
  <2> HIDE DEF I, T
  <2> QED
    BY <1>1, <1>2, FS_Surjection
<1>4. s \in Injection(I, T) <=> \A i, j \in I : s[i] = s[j] => i = j
  <2>1. s \in [I -> T]
    BY <1>1 DEF Surjection
  <2> HIDE DEF I, T
  <2> QED
    BY <2>1 DEF Injection, IsInjective
<1> QED
  BY <1>2, <1>3, <1>4

\* The services, and the dependencies, are distinct.
LEMMA Topology ==
  /\ N \in Nat /\ D \in Nat
  /\ \A i \in 1..N : SERVICES[i] \in Names
  /\ \A n \in Names : \E i \in 1..N : SERVICES[i] = n
  /\ \A i, j \in 1..N : SERVICES[i] = SERVICES[j] => i = j
  /\ \A k \in 1..D : DEPENDENCIES[k].source \in Names /\ DEPENDENCIES[k].target \in Names
  /\ \A k \in 1..D : DEPENDENCIES[k] \in ToSet(DEPENDENCIES)
  /\ \A e \in ToSet(DEPENDENCIES) : \E k \in 1..D : DEPENDENCIES[k] = e
  /\ \A k, l \in 1..D :
        /\ DEPENDENCIES[k].source = DEPENDENCIES[l].source
        /\ DEPENDENCIES[k].target = DEPENDENCIES[l].target
        => k = l
<1>1. N \in Nat /\ D \in Nat
  BY TopologyAssumption DEF N, D
<1>2. /\ \A i \in 1..N : SERVICES[i] \in Names
      /\ \A n \in Names : \E i \in 1..N : SERVICES[i] = n
  BY TopologyAssumption DEF N, Names, ToSet
<1>3. \A i, j \in 1..N : SERVICES[i] = SERVICES[j] => i = j
  BY TopologyAssumption, DistinctAssumption, NoRepetition DEF N, Names
<1>4. \A k \in 1..D : DEPENDENCIES[k] \in [source : Names, target : Names]
  BY TopologyAssumption, ElementOfSeq DEF D
<1>5. /\ \A k \in 1..D : DEPENDENCIES[k] \in ToSet(DEPENDENCIES)
      /\ \A e \in ToSet(DEPENDENCIES) : \E k \in 1..D : DEPENDENCIES[k] = e
  BY TopologyAssumption DEF D, ToSet
<1>6. \A k, l \in 1..D : DEPENDENCIES[k] = DEPENDENCIES[l] => k = l
  BY TopologyAssumption, DistinctAssumption, NoRepetition DEF D
<1>7. \A k, l \in 1..D :
        /\ DEPENDENCIES[k].source = DEPENDENCIES[l].source
        /\ DEPENDENCIES[k].target = DEPENDENCIES[l].target
        => DEPENDENCIES[k] = DEPENDENCIES[l]
  BY <1>4
<1> QED
  BY <1>1, <1>2, <1>3, <1>4, <1>5, <1>6, <1>7

\* A set of numbers has a first one.
LEMMA LessIsWellFounded ==
  \E R : IsWellFoundedOn(R, Nat) /\ \A x, y \in Nat : y < x => <<y, x>> \in R
<1>1. IsWellFoundedOn(OpToRel(<, Nat), Nat)
  BY NatLessThanWellFounded, Zenon
<1>2. \A x, y \in Nat : y < x => <<y, x>> \in OpToRel(<, Nat)
  BY DEF OpToRel
<1> QED
  BY <1>1, <1>2, Zenon

\* It has a least element.
LEMMA First ==
  ASSUME NEW T \in SUBSET Nat, T # {}
  PROVE  \E x \in T : \A y \in T : x <= y
<1>1. PICK R : IsWellFoundedOn(R, Nat) /\ \A x, y \in Nat : y < x => <<y, x>> \in R
  BY LessIsWellFounded, Zenon
<1>2. PICK x \in T : \A y \in T : ~(<<y, x>> \in R)
  BY <1>1, WFMin, Zenon
<1>3. \A y \in T : ~(y < x)
  BY <1>1, <1>2, Zenon
<1> QED
  BY <1>3
--------------------------------------------------------------------------------
(* Computers only come to be: whoever knew an id still does. *)
Grown ==
    /\ computers' \in Seq(Names) /\ Len(computers) <= Len(computers')
    /\ \A i \in ItemIds : computers'[i] = computers[i]

\* A seeding does not disturb a reader.
LEMMA ReaderKept ==
  ASSUME TypeInv, ReaderInv, WholeReadInv, Grown, reader' = reader, whole => whole'
  PROVE  ReaderInv' /\ WholeReadInv'
<1>1. \A i \in ItemIds : i \in ItemIds'
  BY DEF TypeInv, Grown, ItemIds
<1>2. reader.pc # "idle" => reader.ci \in ItemIds' /\ computers'[reader.ci] = reader.name
  BY <1>1 DEF ReaderInv, Grown
<1>3. \A i \in DOMAIN reader.targets :
         /\ reader.targets[i] \in ItemIds'
         /\ computers'[reader.targets[i]] = computers[reader.targets[i]]
  BY <1>1 DEF ReaderInv, Grown
<1>4. DOMAIN reader.answer \subseteq DOMAIN reader.targets
  BY DEF ReaderInv, TypeInv
<1>5. ReaderInv'
  BY <1>2, <1>3, <1>4 DEF ReaderInv, DirectDependencies
<1>6. WholeReadInv'
  BY <1>3 DEF WholeReadInv, Fits, DirectDependencies
<1> QED
  BY <1>5, <1>6

\* Nor the relations there are.
LEMMA RelationsKept ==
  ASSUME TypeInv, RelationsInv, Grown, relations' = relations
  PROVE  RelationsInv'
<1>1. \A i \in ItemIds : i \in ItemIds'
  BY DEF TypeInv, Grown, ItemIds
<1>2. ASSUME NEW i \in DOMAIN relations
      PROVE  /\ Declares(computers', relations[i])
             /\ computers'[relations[i].source] = computers[relations[i].source]
  BY <1>1 DEF RelationsInv, Declares, Grown, ItemIds
<1> QED
  BY <1>2 DEF RelationsInv, Declares

\* A seeder at rest is well-typed and knows nothing.
LEMMA AtRest ==
  /\ NotSeeding \in Seeders /\ NotSeeding.pc = "idle" /\ NotSeeding.created = 0
  /\ NotSeeding.edges = 0 /\ NotSeeding.ok = 0 /\ \A n \in Names : NotSeeding.ids[n] = 0
<1>1. NoIds \in [Names -> Nat] /\ \A n \in Names : NoIds[n] = 0
  BY DEF NoIds
<1> QED
  BY <1>1, Topology DEF NotSeeding, Seeders

\* main of seed_cmdb.py starts.
LEMMA StartSeedingInv ==
  ASSUME CmdbInv, start_seeding
  PROVE  CmdbInv'
<1> USE DEF CmdbInv
<1>1. /\ seeder.pc = "idle" /\ seedings < MaxSeedings /\ seedings' = seedings + 1
      /\ seeder' = [NotSeeding EXCEPT !.pc = "computers"]
      /\ UNCHANGED <<computers, relations, refused, whole, reader>>
  BY DEF start_seeding, glpi
<1>2. /\ seeder' \in Seeders /\ seeder'.pc = "computers" /\ seeder'.created = 0
      /\ seeder'.edges = 0 /\ seeder'.ok = 0 /\ \A n \in Names : seeder'.ids[n] = 0
  BY <1>1, AtRest DEF Seeders
<1>3. seedings \in Nat /\ Len(computers) \in Nat /\ N \in Nat
  BY Topology DEF TypeInv
<1>4. TypeInv'
  BY <1>1, <1>2, BoundsAssumption DEF TypeInv
<1>5. SeederInv'
  BY <1>1, <1>2 DEF SeederInv, ItemIds
<1>6. CountInv'
  <2>1. (seedings + 1) * N = seedings * N + N /\ seedings * N \in Nat
    BY <1>3
  <2> QED
    BY <1>1, <1>2, <1>3, <2>1 DEF CountInv
<1>7. RelationsInv'
  BY <1>1 DEF RelationsInv, Declares, ItemIds
<1>8. OwnInv'
  BY <1>1, <1>2 DEF OwnInv
<1>9. FirstInv'
  <2>1. seedings' # 0 /\ (seedings' = 1 => seedings = 0)
    BY <1>1, <1>3
  <2>2. seedings' = 1 /\ seeder'.pc # "idle" =>
           /\ Len(computers') = seeder'.created /\ Len(relations') = seeder'.ok
           /\ \A i \in 1..seeder'.created :
                 computers'[i] = SERVICES[i] /\ seeder'.ids[SERVICES[i]] = i
           /\ \A k \in 1..seeder'.edges : FALSE
    BY <1>1, <1>2, <2>1 DEF FirstInv
  <2>3. whole => /\ N <= Len(computers) /\ \A i \in 1..N : computers[i] = SERVICES[i]
                 /\ D <= Len(relations) /\ Mirrors(D)
    BY DEF FirstInv
  <2> QED
    BY <1>1, <2>1, <2>2, <2>3 DEF FirstInv, Mirrors
<1>10. ReaderInv' /\ WholeReadInv'
  BY <1>1, ReaderKept DEF Grown, ItemIds, TypeInv
<1> QED
  BY <1>4, <1>5, <1>6, <1>7, <1>8, <1>9, <1>10

\* It ends, or a request of it raises.
LEMMA RestInv ==
  ASSUME CmdbInv, seeder' = NotSeeding, whole' \in BOOLEAN,
         UNCHANGED <<computers, relations, seedings, refused, reader>>,
         whole' => whole \/ (/\ N <= Len(computers) /\ \A i \in 1..N : computers[i] = SERVICES[i]
                             /\ D <= Len(relations) /\ Mirrors(D)),
         whole => whole'
  PROVE  CmdbInv'
<1> USE DEF CmdbInv
<1>1. TypeInv'
  BY AtRest DEF TypeInv
<1>2. SeederInv'
  BY AtRest DEF SeederInv, ItemIds
<1>3. CountInv'
  BY AtRest DEF CountInv
<1>4. RelationsInv'
  BY DEF RelationsInv, Declares, ItemIds
<1>5. OwnInv'
  BY AtRest DEF OwnInv
<1>6. FirstInv'
  BY AtRest DEF FirstInv, Mirrors
<1>7. ReaderInv' /\ WholeReadInv'
  BY ReaderKept DEF Grown, ItemIds, TypeInv
<1> QED
  BY <1>1, <1>2, <1>3, <1>4, <1>5, <1>6, <1>7

\* The script ends; a first seeding that got everything accepted leaves all of it.
LEMMA SeedingDoneInv ==
  ASSUME CmdbInv, seeding_done
  PROVE  CmdbInv'
<1>1. /\ seeder.pc = "edges" /\ seeder.edges = D /\ seeder' = NotSeeding
      /\ UNCHANGED <<computers, relations, seedings, refused, reader>>
      /\ whole' = (whole \/ (seedings = 1 /\ seeder.ok = D))
  BY DEF seeding_done, glpi, D
<1>2. whole' \in BOOLEAN
  BY <1>1 DEF CmdbInv, TypeInv
<1>3. seeder.created = N
  BY <1>1 DEF CmdbInv, SeederInv
<1>4. ASSUME seedings = 1, seeder.ok = D
      PROVE  /\ N <= Len(computers) /\ \A i \in 1..N : computers[i] = SERVICES[i]
             /\ D <= Len(relations) /\ Mirrors(D)
  BY <1>1, <1>3, <1>4, Topology DEF CmdbInv, FirstInv
<1> QED
  BY <1>1, <1>2, <1>4, RestInv

\* A request of the script raises: what was created stays.
LEMMA SeedingDiesInv ==
  ASSUME CmdbInv, seeding_dies
  PROVE  CmdbInv'
<1>1. seeder' = NotSeeding /\ UNCHANGED <<computers, relations, seedings, refused, whole, reader>>
  BY DEF seeding_dies, glpi, history
<1>2. whole' \in BOOLEAN
  BY <1>1 DEF CmdbInv, TypeInv
<1> QED
  BY <1>1, <1>2, RestInv

\* A computer is created: nothing names its id yet.
LEMMA CreateComputerInv ==
  ASSUME CmdbInv, create_computer
  PROVE  CmdbInv'
<1> USE DEF CmdbInv
<1>1. PICK c, id, name :
         /\ c = seeder.created + 1 /\ id = Len(computers) + 1 /\ name = SERVICES[c]
         /\ seeder.pc = "computers" /\ seeder.created < N
         /\ computers' = Append(computers, name)
         /\ seeder' = [seeder EXCEPT !.created = @ + 1, !.ids[name] = id,
                                     !.pc = IF c = N THEN "edges" ELSE @]
         /\ UNCHANGED <<relations, seedings, refused, whole, reader>>
  BY DEF create_computer, next_id, history, N
<1>2. seeder \in Seeders /\ seeder.created \in Nat /\ c \in 1..N /\ name \in Names /\ id \in Nat
  <2>1. seeder \in Seeders /\ id \in Nat
    BY <1>1 DEF TypeInv
  <2>2. seeder.created \in Nat /\ N \in Nat
    BY <2>1, Topology DEF Seeders
  <2>3. c \in 1..N
    BY <1>1, <2>2
  <2> QED
    BY <1>1, <2>1, <2>2, <2>3, Topology
<1>3. /\ seeder'.created = c /\ seeder'.ids = [seeder.ids EXCEPT ![name] = id]
      /\ seeder'.pc = (IF c = N THEN "edges" ELSE "computers")
      /\ seeder'.edges = seeder.edges /\ seeder'.ok = seeder.ok
  BY <1>1, <1>2 DEF Seeders
<1>4. seeder' \in Seeders
  <2>1. [seeder EXCEPT !.created = @ + 1] \in Seeders
    BY <1>1, <1>2 DEF Seeders
  <2>2. PICK s1 : s1 = [seeder EXCEPT !.created = @ + 1]
    OBVIOUS
  <2>3. [s1 EXCEPT !.ids[name] = id] \in Seeders
    BY <1>2, <2>1, <2>2 DEF Seeders
  <2>4. PICK s2 : s2 = [s1 EXCEPT !.ids[name] = id]
    OBVIOUS
  <2>5. [s2 EXCEPT !.pc = IF c = N THEN "edges" ELSE @] \in Seeders
    BY <2>3, <2>4 DEF Seeders
  <2>6. seeder' = [[[seeder EXCEPT !.created = @ + 1] EXCEPT !.ids[name] = id]
                      EXCEPT !.pc = IF c = N THEN "edges" ELSE @]
    BY <1>1
  <2> QED
    BY <2>2, <2>4, <2>5, <2>6
<1>5. Grown /\ id \in ItemIds' /\ computers'[id] = name /\ Len(computers') = id
  BY <1>1, <1>2, AppendProperties DEF Grown, ItemIds, TypeInv
<1>6. TypeInv'
  BY <1>1, <1>4, <1>5 DEF TypeInv, Grown
<1>7. ASSUME NEW s \in 1..c
      PROVE  IF s = c THEN seeder'.ids[SERVICES[s]] = id
             ELSE s \in 1..seeder.created /\ seeder'.ids[SERVICES[s]] = seeder.ids[SERVICES[s]]
  <2>1. SERVICES[s] \in Names /\ (s # c => SERVICES[s] # name)
    BY <1>1, <1>2, Topology
  <2> QED
    BY <1>1, <1>2, <1>3, <2>1 DEF Seeders
<1>8. \A i \in ItemIds : i \in ItemIds' /\ i < id
  BY <1>1, <1>2, <1>5 DEF ItemIds, TypeInv
<1>9. SeederInv'
  <2>1. \A i \in 1..c : /\ seeder'.ids[SERVICES[i]] \in ItemIds'
                         /\ computers'[seeder'.ids[SERVICES[i]]] = SERVICES[i]
    <3> SUFFICES ASSUME NEW i \in 1..c
                 PROVE  /\ seeder'.ids[SERVICES[i]] \in ItemIds'
                        /\ computers'[seeder'.ids[SERVICES[i]]] = SERVICES[i]
      OBVIOUS
    <3>1. CASE i = c
      BY <1>1, <1>5, <1>7, <3>1
    <3>2. CASE i # c
      <4>1. /\ i \in 1..seeder.created
            /\ seeder'.ids[SERVICES[i]] = seeder.ids[SERVICES[i]]
        BY <1>7, <3>2
      <4>2. /\ seeder.ids[SERVICES[i]] \in ItemIds
            /\ computers[seeder.ids[SERVICES[i]]] = SERVICES[i]
        BY <4>1 DEF SeederInv
      <4> QED
        BY <1>5, <1>8, <4>1, <4>2 DEF Grown
    <3> QED
      BY <3>1, <3>2
  <2>2. \A n \in Names : seeder'.ids[n] \in {0} \cup ItemIds'
    BY <1>2, <1>3, <1>5, <1>8 DEF SeederInv, Seeders
  <2>3. seeder'.ok <= seeder'.edges /\ seeder'.pc # "idle" /\ seeder'.edges = 0
    BY <1>1, <1>3 DEF SeederInv
  <2> QED
    BY <1>3, <2>1, <2>2, <2>3 DEF SeederInv
<1>10. CountInv'
  <2>1. seedings * N \in Nat
    BY Topology DEF TypeInv
  <2> QED
    BY <1>1, <1>2, <1>3, <1>5, <2>1, Topology DEF CountInv
<1>11. RelationsInv'
  BY <1>1, <1>5, RelationsKept
<1>12. OwnInv'
  <2> SUFFICES ASSUME NEW i \in DOMAIN relations, NEW s \in 1..c,
                      relations[i].impacted = seeder'.ids[SERVICES[s]]
               PROVE  FALSE
    BY <1>1, <1>3 DEF OwnInv
  <2>1. relations[i].impacted \in ItemIds
    BY DEF RelationsInv, Declares, ItemIds
  <2>2. s # c
    BY <1>7, <1>8, <2>1, <1>2
  <2>3. seeder.edges = 0
    BY <1>1 DEF SeederInv
  <2> QED
    BY <1>7, <2>2, <2>3 DEF OwnInv
<1>13. FirstInv'
  <2>1. seedings # 0
    BY <1>1 DEF FirstInv
  <2>2. ASSUME seedings = 1
        PROVE  /\ Len(computers') = c /\ Len(relations) = seeder.ok
               /\ \A i \in 1..c : computers'[i] = SERVICES[i] /\ seeder'.ids[SERVICES[i]] = i
    <3>1. id = c
      BY <1>1, <2>2 DEF FirstInv
    <3> QED
      BY <1>1, <1>2, <1>5, <1>7, <2>2, <3>1 DEF FirstInv, Grown, ItemIds
  <2>3. seeder'.edges = 0
    BY <1>1, <1>3 DEF SeederInv
  <2>4. whole => /\ N <= Len(computers') /\ \A i \in 1..N : computers'[i] = SERVICES[i]
                 /\ D <= Len(relations) /\ Mirrors(D)'
    <3> SUFFICES ASSUME whole
                 PROVE  /\ N <= Len(computers') /\ \A i \in 1..N : computers'[i] = SERVICES[i]
                        /\ D <= Len(relations) /\ Mirrors(D)'
      OBVIOUS
    <3>1. /\ N <= Len(computers) /\ \A i \in 1..N : computers[i] = SERVICES[i]
          /\ D <= Len(relations) /\ Mirrors(D)
      BY DEF FirstInv
    <3>2. \A i \in 1..N : computers'[i] = computers[i]
      BY <3>1, <1>5, Topology DEF Grown, ItemIds, TypeInv
    <3>3. Mirrors(D)'
      BY <1>1, <3>1, <3>2 DEF Mirrors
    <3> QED
      BY <1>1, <1>2, <1>5, <3>1, <3>2, <3>3, Topology
  <2>5. \A k \in 1..0 : FALSE
    OBVIOUS
  <2> QED
    BY <1>1, <1>3, <2>1, <2>2, <2>3, <2>4, <2>5 DEF FirstInv, Mirrors
<1>14. ReaderInv' /\ WholeReadInv'
  BY <1>1, <1>5, ReaderKept
<1> QED
  BY <1>6, <1>9, <1>10, <1>11, <1>12, <1>13, <1>14

\* Once it creates relations, the seeding knows an item of every name.
LEMMA AllCreated ==
  ASSUME TypeInv, SeederInv, seeder.pc = "edges"
  PROVE  /\ seeder.created = N
         /\ \A n \in Names : seeder.ids[n] \in ItemIds /\ computers[seeder.ids[n]] = n
<1>1. seeder.created = N
  BY DEF SeederInv
<1>2. \A n \in Names : seeder.ids[n] \in ItemIds /\ computers[seeder.ids[n]] = n
  BY <1>1, Topology DEF SeederInv
<1> QED
  BY <1>1, <1>2

\* A relation is created: it declares its dependency, as no other of the item.
LEMMA CreateDependencyInv ==
  ASSUME CmdbInv, create_dependency
  PROVE  CmdbInv'
<1> USE DEF CmdbInv
<1>1. PICK k, source, target, r :
         /\ k = seeder.edges + 1 /\ source = DEPENDENCIES[k].source
         /\ target = DEPENDENCIES[k].target
         /\ r = [source |-> seeder.ids[target], impacted |-> seeder.ids[source]]
         /\ seeder.pc = "edges" /\ seeder.edges < D
         /\ relations' = Append(relations, r)
         /\ seeder' = [seeder EXCEPT !.edges = @ + 1, !.ok = @ + 1]
         /\ UNCHANGED <<computers, seedings, refused, whole, reader>>
  BY DEF create_dependency, AtEdge, relation, after_created, history, D
<1>2. /\ seeder \in Seeders /\ seeder.edges \in Nat /\ seeder.ok \in Nat /\ seeder.ok <= seeder.edges
      /\ k \in 1..D /\ source \in Names /\ target \in Names
  <2>1. seeder \in Seeders
    BY DEF TypeInv
  <2>2. seeder.edges \in Nat /\ seeder.ok \in Nat /\ D \in Nat
    BY <2>1, Topology DEF Seeders
  <2>3. k \in 1..D
    BY <1>1, <2>2
  <2> QED
    BY <1>1, <2>1, <2>2, <2>3, Topology DEF SeederInv
<1>3. /\ seeder' \in Seeders /\ seeder'.edges = k /\ seeder'.ok = seeder.ok + 1
      /\ seeder'.ids = seeder.ids /\ seeder'.created = seeder.created /\ seeder'.pc = seeder.pc
  <2>1. /\ seeder'.edges = k /\ seeder'.ok = seeder.ok + 1
        /\ seeder'.ids = seeder.ids /\ seeder'.created = seeder.created /\ seeder'.pc = seeder.pc
    BY <1>1, <1>2 DEF Seeders
  <2>2. seeder.ok + 1 \in 0..D
    BY <1>1, <1>2, Topology
  <2>3. seeder' = [pc |-> seeder.pc, ids |-> seeder.ids, created |-> seeder.created,
                   edges |-> k, ok |-> seeder.ok + 1]
    BY <1>1, <1>2 DEF Seeders
  <2> QED
    BY <1>2, <2>1, <2>2, <2>3 DEF Seeders
<1>4. /\ seeder.created = N
      /\ \A n \in Names : seeder.ids[n] \in ItemIds /\ computers[seeder.ids[n]] = n
  BY <1>1, AllCreated
<1>5. /\ r \in [source : Nat, impacted : Nat] /\ r.source = seeder.ids[target]
      /\ r.impacted = seeder.ids[source]
  BY <1>1, <1>2 DEF Seeders
<1>6. PICK m \in Nat : m = Len(relations)
  BY DEF TypeInv
<1>7. /\ relations' \in Seq([source : Nat, impacted : Nat]) /\ Len(relations') = m + 1
      /\ \A i \in 1..m : relations'[i] = relations[i]
      /\ relations'[m + 1] = r
      /\ DOMAIN relations = 1..m /\ DOMAIN relations' = 1..(m + 1)
  BY <1>1, <1>5, <1>6, AppendProperties DEF TypeInv
<1>8. TypeInv'
  BY <1>1, <1>3, <1>7 DEF TypeInv
<1>9. SeederInv'
  BY <1>1, <1>2, <1>3 DEF SeederInv, ItemIds
<1>10. CountInv'
  BY <1>1, <1>3 DEF CountInv
<1>11. ASSUME NEW i \in 1..m, relations[i].impacted = r.impacted
       PROVE  \E l \in 1..seeder.edges : /\ DEPENDENCIES[l].source = source
                                         /\ relations[i].source = seeder.ids[DEPENDENCIES[l].target]
  <2>1. PICK s \in 1..N : SERVICES[s] = source
    BY <1>2, Topology
  <2>2. i \in DOMAIN relations /\ s \in 1..seeder.created
    BY <1>4, <1>7
  <2>3. relations[i].impacted = seeder.ids[SERVICES[s]]
    BY <1>5, <1>11, <2>1
  <2>4. \E l \in 1..seeder.edges : /\ DEPENDENCIES[l].source = SERVICES[s]
                                   /\ relations[i].source = seeder.ids[DEPENDENCIES[l].target]
    BY <2>2, <2>3 DEF OwnInv
  <2> QED
    BY <2>1, <2>4
<1>12. RelationsInv'
  <2>1. \A i \in 1..m : Declares(computers, relations[i])
    BY <1>7 DEF RelationsInv
  <2>2. Declares(computers, r)
    BY <1>1, <1>2, <1>4, <1>5, Topology DEF Declares, ItemIds
  <2>3. ASSUME NEW i \in 1..m, relations[i].impacted = r.impacted
        PROVE  computers[relations[i].source] # computers[r.source]
    <3>1. PICK l \in 1..seeder.edges :
             /\ DEPENDENCIES[l].source = source
             /\ relations[i].source = seeder.ids[DEPENDENCIES[l].target]
      BY <1>11, <2>3
    <3>2. l \in 1..D /\ l # k
      BY <1>1, <1>2, Topology
    <3>3. DEPENDENCIES[l].target \in Names /\ DEPENDENCIES[l].target # target
      BY <1>1, <1>2, <3>1, <3>2, Topology
    <3> QED
      BY <1>2, <1>4, <1>5, <3>1, <3>3
  <2>4. \A i \in 1..(m + 1) : Declares(computers, relations'[i])
    <3>1. \A i \in 1..(m + 1) : i \in 1..m \/ i = m + 1
      OBVIOUS
    <3> QED
      BY <1>7, <2>1, <2>2, <3>1
  <2>5. \A i, j \in 1..(m + 1) :
           i # j /\ relations'[i].impacted = relations'[j].impacted =>
              computers[relations'[i].source] # computers[relations'[j].source]
    <3> SUFFICES ASSUME NEW i \in 1..(m + 1), NEW j \in 1..(m + 1), i # j,
                        relations'[i].impacted = relations'[j].impacted
                 PROVE  computers[relations'[i].source] # computers[relations'[j].source]
      OBVIOUS
    <3>1. CASE i \in 1..m /\ j \in 1..m
      BY <1>7, <3>1 DEF RelationsInv
    <3>2. CASE i \in 1..m /\ j = m + 1
      BY <1>7, <2>3, <3>2
    <3>3. CASE i = m + 1 /\ j \in 1..m
      BY <1>7, <2>3, <3>3
    <3> QED
      BY <3>1, <3>2, <3>3
  <2>6. \A i \in DOMAIN relations' : Declares(computers', relations'[i])
    BY <1>1, <1>7, <2>4
  <2>7. \A i, j \in DOMAIN relations' :
           i # j /\ relations'[i].impacted = relations'[j].impacted =>
              computers'[relations'[i].source] # computers'[relations'[j].source]
    <3>1. DOMAIN relations' = 1..(m + 1) /\ computers' = computers
      BY <1>1, <1>7
    <3> QED
      BY <2>5, <3>1, Zenon
  <2> QED
    BY <2>6, <2>7, Zenon DEF RelationsInv
<1>13. OwnInv'
  <2> SUFFICES ASSUME NEW i \in 1..(m + 1), NEW s \in 1..N,
                      relations'[i].impacted = seeder.ids[SERVICES[s]]
               PROVE  \E l \in 1..k : /\ DEPENDENCIES[l].source = SERVICES[s]
                                      /\ relations'[i].source = seeder.ids[DEPENDENCIES[l].target]
    BY <1>3, <1>4, <1>7 DEF OwnInv
  <2>1. CASE i \in 1..m
    <3>1. \E l \in 1..seeder.edges : /\ DEPENDENCIES[l].source = SERVICES[s]
                                     /\ relations[i].source = seeder.ids[DEPENDENCIES[l].target]
      <4>1. /\ i \in DOMAIN relations /\ s \in 1..seeder.created
            /\ relations[i].impacted = seeder.ids[SERVICES[s]]
        BY <1>4, <1>7, <2>1
      <4> QED
        BY <4>1 DEF OwnInv
    <3>2. 1..seeder.edges \subseteq 1..k
      BY <1>1, <1>2
    <3>3. relations'[i] = relations[i]
      BY <1>7, <2>1
    <3> QED
      BY <3>1, <3>2, <3>3
  <2>2. CASE i = m + 1
    <3>1. source = SERVICES[s]
      BY <1>2, <1>4, <1>5, <1>7, <2>2, Topology
    <3>2. k \in 1..k
      BY <1>2
    <3> QED
      BY <1>1, <1>5, <1>7, <2>2, <3>1, <3>2
  <2> QED
    BY <2>1, <2>2
<1>14. FirstInv'
  <2>1. seedings # 0
    BY <1>1 DEF FirstInv
  <2>2. ASSUME seedings = 1
        PROVE  /\ Len(computers) = seeder'.created /\ Len(relations') = seeder'.ok
               /\ \A i \in 1..seeder'.created :
                     computers[i] = SERVICES[i] /\ seeder'.ids[SERVICES[i]] = i
    BY <1>1, <1>3, <1>6, <1>7, <2>2 DEF FirstInv
  <2>3. ASSUME seedings = 1, seeder'.ok = seeder'.edges
        PROVE  Mirrors(k)'
    <3>1. m = seeder.edges /\ Mirrors(seeder.edges) /\ m + 1 = k
      BY <1>1, <1>2, <1>3, <1>6, <2>3 DEF FirstInv
    <3>2. r.source \in 1..N /\ r.impacted \in 1..N
      BY <1>1, <1>2, <1>4, <1>5, <2>3, Topology DEF FirstInv, ItemIds
    <3>3. /\ computers[r.source] = DEPENDENCIES[k].target
          /\ computers[r.impacted] = DEPENDENCIES[k].source
      BY <1>1, <1>2, <1>4, <1>5
    <3>4. \A l \in 1..k : (l \in 1..m /\ l \in 1..seeder.edges) \/ l = m + 1
      BY <3>1
    <3> QED
      BY <1>1, <1>7, <3>1, <3>2, <3>3, <3>4 DEF Mirrors
  <2>4. ASSUME whole
        PROVE  /\ N <= Len(computers) /\ \A i \in 1..N : computers[i] = SERVICES[i]
               /\ D <= Len(relations') /\ Mirrors(D)'
    <3>1. /\ N <= Len(computers) /\ \A i \in 1..N : computers[i] = SERVICES[i]
          /\ D <= m /\ Mirrors(D)
      BY <1>6, <2>4 DEF FirstInv
    <3>2. \A l \in 1..D : relations'[l] = relations[l]
      BY <1>7, <3>1, Topology
    <3>3. Mirrors(D)'
      BY <1>1, <3>1, <3>2 DEF Mirrors
    <3> QED
      BY <1>7, <3>1, <3>3, Topology
  <2> QED
    BY <1>1, <1>3, <2>1, <2>2, <2>3, <2>4 DEF FirstInv
<1>15. ReaderInv' /\ WholeReadInv'
  BY <1>1, ReaderKept DEF Grown, ItemIds, TypeInv
<1> QED
  BY <1>8, <1>9, <1>10, <1>12, <1>13, <1>14, <1>15

\* A relation is refused: the first seeding is not whole any more.
LEMMA DependencyRefusedInv ==
  ASSUME CmdbInv, dependency_refused
  PROVE  CmdbInv'
<1> USE DEF CmdbInv
<1>1. /\ seeder.pc = "edges" /\ seeder.edges < D
      /\ refused < MaxRefused /\ refused' = refused + 1
      /\ seeder' = [seeder EXCEPT !.edges = @ + 1]
      /\ UNCHANGED <<computers, relations, seedings, whole, reader>>
  BY DEF dependency_refused, AtEdge, after_refused, glpi, D
<1>2. /\ seeder \in Seeders /\ seeder.edges \in Nat /\ seeder.ok \in Nat /\ D \in Nat
      /\ seeder.ok <= seeder.edges
  BY Topology DEF TypeInv, Seeders, SeederInv
<1>3. /\ seeder'.edges = seeder.edges + 1 /\ seeder'.ok = seeder.ok
      /\ seeder'.ids = seeder.ids /\ seeder'.created = seeder.created /\ seeder'.pc = seeder.pc
  BY <1>1, <1>2 DEF Seeders
<1>4. seeder' \in Seeders
  BY <1>1, <1>2 DEF Seeders
<1>5. TypeInv'
  BY <1>1, <1>4, BoundsAssumption DEF TypeInv
<1>6. SeederInv'
  BY <1>1, <1>2, <1>3 DEF SeederInv, ItemIds
<1>7. CountInv'
  BY <1>1, <1>3 DEF CountInv
<1>8. RelationsInv'
  BY <1>1 DEF RelationsInv, Declares, ItemIds
<1>9. OwnInv'
  <2>1. 1..seeder.edges \subseteq 1..(seeder.edges + 1)
    BY <1>2
  <2> QED
    BY <1>1, <1>3, <2>1 DEF OwnInv
<1>10. FirstInv'
  <2>1. seeder'.ok # seeder'.edges
    BY <1>2, <1>3
  <2>2. seedings # 0
    BY <1>1 DEF FirstInv
  <2> QED
    BY <1>1, <1>3, <2>1, <2>2 DEF FirstInv, Mirrors
<1>11. ReaderInv' /\ WholeReadInv'
  BY <1>1, ReaderKept DEF Grown, ItemIds, TypeInv
<1> QED
  BY <1>5, <1>6, <1>7, <1>8, <1>9, <1>10, <1>11
--------------------------------------------------------------------------------
\* A read changes the reader only.
LEMMA ReadFrame ==
  ASSUME CmdbInv, UNCHANGED <<glpi, seeder, history>>,
         reader' \in Readers, ReaderInv', WholeReadInv'
  PROVE  CmdbInv'
<1>1. UNCHANGED <<computers, relations, seeder, seedings, refused, whole>>
  BY DEF glpi, history
<1>2. TypeInv' /\ SeederInv' /\ CountInv'
  BY <1>1 DEF CmdbInv, TypeInv, SeederInv, CountInv, ItemIds
<1>3. RelationsInv'
  BY <1>1 DEF CmdbInv, RelationsInv
<1>4. OwnInv'
  BY <1>1 DEF CmdbInv, OwnInv
<1>5. FirstInv'
  BY <1>1 DEF CmdbInv, FirstInv, Mirrors
<1> QED
  BY <1>2, <1>3, <1>4, <1>5 DEF CmdbInv

\* A reader that has not asked.
LEMMA NothingRead ==
  /\ NotReading \in Readers /\ NotReading.pc = "idle" /\ NotReading.targets = <<>>
  /\ NotReading.answer = <<>>
  BY DEF NotReading, Readers

\* The call is over, wherever it was.
LEMMA CallOverInv ==
  ASSUME CmdbInv, call_over
  PROVE  CmdbInv'
<1>1. reader' = NotReading /\ UNCHANGED <<glpi, seeder, history>>
  BY DEF call_over
<1>2. ReaderInv' /\ WholeReadInv'
  BY <1>1, NothingRead DEF ReaderInv, WholeReadInv
<1> QED
  BY <1>1, <1>2, NothingRead, ReadFrame

\* The first item of the page that has the name.
LEMMA FirstOfName ==
  ASSUME TypeInv, NEW name, named(name) # {}
  PROVE  /\ ci_by_name(name) \in ItemIds /\ computers[ci_by_name(name)] = name
         /\ \A j \in named(name) : ci_by_name(name) <= j
<1>1. PICK n \in Nat : n = Len(computers)
  BY DEF TypeInv
<1>2. named(name) \in SUBSET Nat /\ named(name) \subseteq ItemIds
  BY <1>1, BoundsAssumption DEF named, Page, ItemIds
<1>3. \E i \in named(name) : \A j \in named(name) : i <= j
  BY <1>2, First
<1>4. ci_by_name(name) \in named(name) /\ \A j \in named(name) : ci_by_name(name) <= j
  BY <1>3 DEF ci_by_name
<1> QED
  BY <1>2, <1>4 DEF named

\* get_ci by name; among the first computers there is one of each name.
LEMMA GetCiInv ==
  ASSUME CmdbInv, NEW name, get_ci(name)
  PROVE  CmdbInv'
<1>1. PICK ci : ci = ci_by_name(name)
  OBVIOUS
<1>2. /\ ci \in ItemIds /\ ci \in Nat /\ computers[ci] = name /\ name \in Names
      /\ \A j \in named(name) : ci <= j
  <2>1. TypeInv /\ named(name) # {}
    BY DEF CmdbInv, get_ci
  <2>2. /\ ci \in ItemIds /\ computers[ci] = name
        /\ \A j \in named(name) : ci <= j
    BY <1>1, <2>1, FirstOfName, Zenon
  <2>3. ci \in Nat /\ name \in Names
    BY <2>1, <2>2 DEF TypeInv, ItemIds
  <2> QED
    BY <2>2, <2>3
<1>3. /\ reader' = [pc |-> "relations", name |-> name, ci |-> ci, targets |-> <<>>,
                   answer |-> <<>>, whole |-> whole]
      /\ UNCHANGED <<glpi, seeder, history>>
  BY <1>1 DEF get_ci, NotReading
<1>4. reader' \in Readers
  BY <1>2, <1>3 DEF Readers, CmdbInv, TypeInv
<1>5. computers' = computers /\ whole' = whole
  BY <1>3 DEF glpi, history
<1>6. ReaderInv'
  BY <1>2, <1>3, <1>5 DEF ReaderInv, ItemIds
<1>7. WholeReadInv'
  <2>1. ASSUME Fits, whole
        PROVE  ci \in 1..N
    <3>1. PICK i \in 1..N : SERVICES[i] = name
      BY <1>2, Topology
    <3>2. N <= Len(computers) /\ computers[i] = name
      BY <2>1, <3>1 DEF CmdbInv, FirstInv
    <3>3. PICK n \in Nat : n = Len(computers)
      BY DEF CmdbInv, TypeInv
    <3>4. i \in named(name)
      BY <2>1, <3>2, <3>3, BoundsAssumption, Topology DEF named, Page, Fits
    <3> QED
      BY <1>2, <3>3, <3>4, Topology DEF ItemIds
  <2> QED
    BY <1>3, <1>5, <2>1 DEF WholeReadInv, Fits
<1> QED
  BY <1>3, <1>4, <1>6, <1>7, ReadFrame

\* The relations of the item, each once.
LEMMA ListRelationsInv ==
  ASSUME CmdbInv, list_relations
  PROVE  CmdbInv'
<1>1. PICK own \in [1..Cardinality(own_relations) -> own_relations] :
         /\ \A i, j \in DOMAIN own : i < j => own[i] < own[j]
         /\ reader' = [reader EXCEPT !.pc = "targets",
                                     !.targets = [i \in DOMAIN own |-> relations[own[i]].source]]
  BY DEF list_relations
<1>2. PICK m \in Nat : m = Len(relations)
  BY DEF CmdbInv, TypeInv
<1>3. /\ own_relations \subseteq 1..m /\ DOMAIN relations = 1..m
      /\ \A i \in own_relations : relations[i].impacted = reader.ci
  BY <1>2, BoundsAssumption DEF own_relations, Page, relation_matches_impacted_ci, CmdbInv, TypeInv
<1>4. IsFiniteSet(own_relations) /\ Cardinality(own_relations) \in Nat
  <2>1. IsFiniteSet(1..m)
    BY FS_Interval
  <2> QED
    BY <1>3, <2>1, FS_Subset, FS_CardinalityType
<1>5. PICK c \in Nat : c = Cardinality(own_relations)
  BY <1>4
<1>6. DOMAIN own = 1..c /\ \A i \in 1..c : own[i] \in own_relations
  BY <1>1, <1>5
<1>7. \A i, j \in 1..c : i # j => own[i] # own[j]
  <2> SUFFICES ASSUME NEW i \in 1..c, NEW j \in 1..c, i < j PROVE own[i] # own[j]
    OBVIOUS
  <2>1. own[i] < own[j] /\ own[i] \in Nat /\ own[j] \in Nat
    BY <1>1, <1>3, <1>6
  <2> QED
    BY <2>1
<1>8. \A k \in own_relations : \E i \in 1..c : own[i] = k
  <2>1. IsFiniteSet(1..c) /\ Cardinality(1..c) = c
    BY FS_Interval
  <2>2. own \in Injection(1..c, own_relations)
    BY <1>1, <1>5, <1>6, <1>7 DEF Injection, IsInjective
  <2>3. own \in Surjection(1..c, own_relations)
    BY <1>4, <1>5, <2>1, <2>2, FS_Injection
  <2> QED
    BY <2>3 DEF Surjection
<1>9. PICK targets : targets = [i \in 1..c |-> relations[own[i]].source]
  OBVIOUS
<1>10. targets \in Seq(Nat) /\ DOMAIN targets = 1..c /\ Len(targets) = c
  <2>1. \A i \in 1..c : targets[i] \in Nat
    <3>1. \A k \in 1..m : relations[k].source \in Nat
      <4>1. \A k \in 1..m : relations[k] \in [source : Nat, impacted : Nat]
        BY <1>2, ElementOfSeq DEF CmdbInv, TypeInv
      <4> QED
        BY <4>1
    <3> QED
      BY <1>3, <1>6, <1>9, <3>1
  <2> QED
    BY <1>9, <2>1, IsASeq
<1>11. PICK r : r = reader
  OBVIOUS
<1>12. r \in Readers /\ r.pc = "relations"
  BY <1>11 DEF CmdbInv, TypeInv, list_relations
<1>13. reader' = [[r EXCEPT !.pc = "targets"] EXCEPT !.targets = targets]
  BY <1>1, <1>6, <1>9, <1>11
<1>14. reader' \in Readers
  <2>1. [r EXCEPT !.pc = "targets"] \in Readers
    BY <1>12 DEF Readers
  <2> QED
    BY <1>10, <1>13, <2>1 DEF Readers
<1>15. /\ reader'.pc = "targets" /\ reader'.name = r.name /\ reader'.ci = r.ci
       /\ reader'.targets = targets /\ reader'.answer = r.answer /\ reader'.whole = r.whole
  BY <1>12, <1>13 DEF Readers
<1>16. UNCHANGED <<glpi, seeder, history>> /\ computers' = computers /\ whole' = whole
  BY DEF list_relations, glpi, history
<1>17. \A i \in 1..c : Declares(computers, relations[own[i]])
  BY <1>3, <1>6 DEF CmdbInv, RelationsInv
<1>18. r.ci \in ItemIds /\ computers[r.ci] = r.name
  BY <1>11, <1>12 DEF CmdbInv, ReaderInv
<1>19. ReaderInv'
  <2>1. \A i \in 1..c : /\ targets[i] \in ItemIds
                        /\ computers[targets[i]] \in DirectDependencies(r.name)
    BY <1>3, <1>6, <1>9, <1>11, <1>17, <1>18 DEF Declares, DirectDependencies, ItemIds
  <2>2. \A i, j \in 1..c : i # j => computers[targets[i]] # computers[targets[j]]
    <3>1. \A k, l \in own_relations :
             k # l => computers[relations[k].source] # computers[relations[l].source]
      BY <1>3 DEF CmdbInv, RelationsInv
    <3> QED
      BY <1>6, <1>7, <1>9, <3>1
  <2>3. Len(r.answer) = 0 /\ DOMAIN r.answer = {}
    <3>1. r.targets = <<>> /\ Len(r.answer) <= Len(r.targets) /\ r.answer \in Seq(Names)
      BY <1>11, <1>12 DEF CmdbInv, ReaderInv, Readers
    <3> QED
      BY <3>1
  <2>4. ItemIds' = ItemIds
    BY <1>16 DEF ItemIds
  <2>5. DirectDependencies(r.name)' = DirectDependencies(r.name)
    BY <1>11, <1>15 DEF DirectDependencies
  <2> QED
    BY <1>10, <1>15, <1>16, <1>18, <2>1, <2>2, <2>3, <2>4 DEF ReaderInv, DirectDependencies
<1>20. WholeReadInv'
  <2> SUFFICES ASSUME Fits, r.whole
               PROVE  /\ whole /\ r.ci \in 1..N
                      /\ \A d \in DirectDependencies(r.name) :
                            \E i \in 1..c : computers[targets[i]] = d
    <3>1. /\ reader'.ci = r.ci /\ reader'.whole = r.whole /\ reader'.name = r.name
          /\ reader'.targets = targets /\ DOMAIN targets = 1..c
          /\ computers' = computers /\ whole' = whole /\ Fits' = Fits
      BY <1>10, <1>15, <1>16, <1>11 DEF Fits
    <3>2. DirectDependencies(reader.name)' = DirectDependencies(r.name)
      BY <3>1 DEF DirectDependencies
    <3>3. ASSUME Fits', reader'.whole, reader'.pc # "idle"
          PROVE  /\ whole' /\ reader'.ci \in 1..N
                 /\ \A d \in DirectDependencies(reader.name)' :
                       \E i \in DOMAIN reader'.targets : computers'[reader'.targets[i]] = d
      BY <3>1, <3>2, <3>3
    <3> QED
      BY <3>3 DEF WholeReadInv
  <2>1. whole /\ r.ci \in 1..N
    BY <1>11, <1>12 DEF CmdbInv, WholeReadInv
  <2>2. /\ \A i \in 1..N : computers[i] = SERVICES[i]
        /\ D <= m /\ Mirrors(D)
    BY <1>2, <2>1 DEF CmdbInv, FirstInv
  <2>3. ASSUME NEW d \in DirectDependencies(r.name)
        PROVE  \E i \in 1..c : computers[targets[i]] = d
    <3>1. PICK k \in 1..D : DEPENDENCIES[k].source = r.name /\ DEPENDENCIES[k].target = d
      BY Topology DEF DirectDependencies
    <3>2. /\ relations[k].impacted \in 1..N
          /\ computers[relations[k].source] = d /\ computers[relations[k].impacted] = r.name
      BY <2>2, <3>1 DEF Mirrors
    <3>3. relations[k].impacted = r.ci
      <4>1. SERVICES[relations[k].impacted] = SERVICES[r.ci]
        BY <1>18, <2>1, <2>2, <3>2
      <4> QED
        BY <2>1, <3>2, <4>1, Topology
    <3>4. k \in own_relations
      <4>1. k \in Page(relations)
        BY <1>2, <2>2, BoundsAssumption, Topology DEF Fits, Page
      <4> QED
        BY <1>11, <3>3, <4>1 DEF own_relations, relation_matches_impacted_ci
    <3>5. PICK i \in 1..c : own[i] = k
      BY <1>8, <3>4
    <3> QED
      BY <1>9, <3>2, <3>5
  <2> QED
    BY <2>1, <2>3
<1> QED
  BY <1>14, <1>16, <1>19, <1>20, ReadFrame

\* The name of the next target.
LEMMA GetTargetInv ==
  ASSUME CmdbInv, get_target
  PROVE  CmdbInv'
<1>1. PICK n \in Nat : n = Len(reader.answer)
  BY DEF CmdbInv, TypeInv, Readers
<1>2. PICK r, t : r = reader /\ t = computers[reader.targets[n + 1]]
  OBVIOUS
<1>3. /\ r \in Readers /\ r.pc = "targets" /\ n + 1 \in DOMAIN r.targets
      /\ n + 1 <= Len(r.targets) /\ r.answer \in Seq(Names) /\ Len(r.answer) = n
      /\ \A i \in DOMAIN r.answer : r.answer[i] = computers[r.targets[i]]
  BY <1>1, <1>2 DEF CmdbInv, TypeInv, ReaderInv, Readers, get_target
<1>4. t \in Names
  <2>1. r.targets[n + 1] \in ItemIds
    BY <1>2, <1>3 DEF CmdbInv, ReaderInv
  <2> QED
    BY <1>2, <2>1, ElementOfSeq DEF CmdbInv, TypeInv, ItemIds
<1>5. /\ reader' = [r EXCEPT !.answer = Append(r.answer, t)]
      /\ UNCHANGED <<glpi, seeder, history>>
  BY <1>1, <1>2 DEF get_target
<1>6. PICK named_targets : named_targets = Append(r.answer, t)
  OBVIOUS
<1>7. /\ named_targets \in Seq(Names) /\ Len(named_targets) = n + 1
      /\ DOMAIN named_targets = 1..(n + 1) /\ DOMAIN r.answer = 1..n
      /\ \A i \in 1..n : named_targets[i] = r.answer[i]
      /\ named_targets[n + 1] = t
  BY <1>3, <1>4, <1>6, AppendProperties
<1>8. /\ reader' \in Readers
      /\ reader'.pc = r.pc /\ reader'.name = r.name /\ reader'.ci = r.ci
      /\ reader'.targets = r.targets /\ reader'.answer = named_targets
      /\ reader'.whole = r.whole
  BY <1>3, <1>5, <1>6, <1>7 DEF Readers
<1>9. computers' = computers /\ whole' = whole
  BY <1>5 DEF glpi, history
<1>10. \A i \in 1..(n + 1) : named_targets[i] = computers[r.targets[i]]
  <2>1. \A i \in 1..(n + 1) : i \in 1..n \/ i = n + 1
    OBVIOUS
  <2> QED
    BY <1>2, <1>3, <1>7, <2>1
<1>11. ReaderInv'
  BY <1>2, <1>3, <1>7, <1>8, <1>9, <1>10 DEF CmdbInv, ReaderInv, ItemIds, DirectDependencies
<1>12. WholeReadInv'
  BY <1>2, <1>3, <1>8, <1>9 DEF CmdbInv, WholeReadInv, Fits, DirectDependencies
<1> QED
  BY <1>5, <1>8, <1>11, <1>12, ReadFrame

\* All targets have their name.
LEMMA AnswerInv ==
  ASSUME CmdbInv, answer
  PROVE  CmdbInv'
<1>1. PICK r : r = reader
  OBVIOUS
<1>2. /\ r \in Readers /\ r.pc = "targets" /\ Len(r.answer) = Len(r.targets)
      /\ reader' = [r EXCEPT !.pc = "answered"]
      /\ UNCHANGED <<glpi, seeder, history>>
  BY <1>1 DEF CmdbInv, TypeInv, answer
<1>3. /\ reader' \in Readers
      /\ reader'.pc = "answered" /\ reader'.name = r.name /\ reader'.ci = r.ci
      /\ reader'.targets = r.targets /\ reader'.answer = r.answer
      /\ reader'.whole = r.whole
  BY <1>2 DEF Readers
<1>4. computers' = computers /\ whole' = whole
  BY <1>2 DEF glpi, history
<1>5. ReaderInv'
  BY <1>1, <1>2, <1>3, <1>4 DEF CmdbInv, ReaderInv, ItemIds, DirectDependencies
<1>6. WholeReadInv'
  BY <1>1, <1>2, <1>3, <1>4 DEF CmdbInv, WholeReadInv, Fits, DirectDependencies
<1> QED
  BY <1>2, <1>3, <1>5, <1>6, ReadFrame
--------------------------------------------------------------------------------
\* The CMDB in every step of the system.
LEMMA InitCmdbInv ==
  ASSUME CmdbInit
  PROVE  CmdbInv
<1>1. /\ Len(computers) = 0 /\ Len(relations) = 0 /\ DOMAIN computers = {}
      /\ DOMAIN relations = {}
  BY DEF CmdbInit
<1>2. TypeInv
  <2>1. computers = <<>> /\ relations = <<>> /\ seeder \in Seeders /\ reader \in Readers
    BY AtRest, NothingRead DEF CmdbInit
  <2>2. <<>> \in Seq(Names) /\ <<>> \in Seq([source : Nat, impacted : Nat])
    BY EmptySeq
  <2>3. seedings \in 0..MaxSeedings /\ refused \in 0..MaxRefused /\ whole \in BOOLEAN
    <3>1. seedings \in 0..MaxSeedings /\ refused \in 0..MaxRefused
      BY BoundsAssumption DEF CmdbInit
    <3> QED
      BY <3>1, Zenon DEF CmdbInit
  <2> QED
    BY <2>1, <2>2, <2>3, Zenon DEF TypeInv
<1>3. SeederInv
  BY AtRest DEF CmdbInit, SeederInv
<1>4. CountInv
  <2>1. 0 * N = 0
    BY Topology
  <2> QED
    BY <1>1, <2>1, AtRest DEF CmdbInit, CountInv
<1>5. RelationsInv /\ OwnInv
  BY <1>1 DEF RelationsInv, OwnInv
<1>6. FirstInv
  BY AtRest DEF CmdbInit, FirstInv
<1>7. ReaderInv /\ WholeReadInv
  BY NothingRead DEF CmdbInit, ReaderInv, WholeReadInv
<1> QED
  BY <1>2, <1>3, <1>4, <1>5, <1>6, <1>7 DEF CmdbInv

\* Every step of a seeding keeps what is known of the CMDB.
LEMMA SeedInv ==
  ASSUME CmdbInv, seed
  PROVE  CmdbInv'
  BY StartSeedingInv, CreateComputerInv, CreateDependencyInv, DependencyRefusedInv,
     SeedingDoneInv, SeedingDiesInv, Zenon DEF seed

\* So does every request of a read.
LEMMA ReadInv ==
  ASSUME CmdbInv, NEW name, read(name)
  PROVE  CmdbInv'
  BY GetCiInv, ListRelationsInv, GetTargetInv, AnswerInv, Zenon DEF read

\* And every step of the loop that asks GLPI nothing.
LEMMA CmdbKept ==
  ASSUME CmdbInv, UNCHANGED cmdbVars
  PROVE  CmdbInv'
<1>1. UNCHANGED <<glpi, seeder, history>> /\ reader' = reader /\ computers' = computers
      /\ whole' = whole
  BY DEF cmdbVars, glpi, history
<1>2. reader' \in Readers
  BY <1>1 DEF CmdbInv, TypeInv
<1>3. ReaderInv' /\ WholeReadInv'
  BY <1>1, ReaderKept DEF CmdbInv, Grown, ItemIds, TypeInv
<1> QED
  BY <1>1, <1>2, <1>3, ReadFrame
--------------------------------------------------------------------------------
\* A request to the model.
LEMMA ModelTurnInv ==
  ASSUME LoopInv, model_turn
  PROVE  LoopInv' /\ answered' = answered
<1> USE DEF LoopInv, LoopTypeOK, conversation
<1>1. step \in Nat /\ MAX_TOOL_STEPS \in Nat
  BY StepsAssumption
<1>2. CASE tool_calls
  BY <1>2 DEF tool_calls, InLoop, NoEarlyAnswer
<1>7. CASE no_tool_calls
  BY <1>7 DEF no_tool_calls, InLoop, NoEarlyAnswer
<1>3. CASE sent_back
  BY <1>1, <1>3 DEF sent_back, Guarded, NoEarlyAnswer
<1>4. CASE final_answer
  <2>1. step < MAX_TOOL_STEPS => answered \subseteq searched
    BY <1>4 DEF final_answer, Guarded, uninspected_targets
  <2> QED
    BY <1>4, <2>1 DEF final_answer, NoEarlyAnswer
<1>5. CASE completion_raises
  BY <1>5 DEF completion_raises, NoEarlyAnswer
<1>6. CASE force_final_answer
  <2>1. ~(step < MAX_TOOL_STEPS)
    BY <1>1, <1>6 DEF force_final_answer
  <2> QED
    BY <1>6, <2>1 DEF force_final_answer, NoEarlyAnswer
<1> QED
  BY <1>2, <1>3, <1>4, <1>5, <1>6, <1>7 DEF model_turn

\* A tool call is executed.
LEMMA ToolCallInv ==
  ASSUME LoopInv, NEW targets, targets \subseteq Services, tool_call(targets)
  PROVE  LoopInv' /\ answered' = answered \cup targets
<1> USE DEF LoopInv, LoopTypeOK
<1>1. /\ pc = "tools" /\ step \in Nat /\ MAX_TOOL_STEPS \in Nat /\ step <= MAX_TOOL_STEPS
      /\ left \in Nat /\ MaxCalls \in Nat
  BY StepsAssumption DEF tool_call
<1>2. call.name = "search_logs" => call.service \in Services
  BY DEF ToolCalls, NoCall
<1>3. /\ inspected_log_services' = searched' /\ searched' \subseteq Services
      /\ dependency_targets' = answered' /\ answered' = answered \cup targets
  BY <1>2 DEF tool_call, inspected_by_call, targets_with
<1>4. /\ pc' \in {"model", "tools"} /\ (pc' = "tools" => step' <= MAX_TOOL_STEPS)
      /\ step' \in 1..MAX_TOOL_STEPS + 1 /\ call' \in ToolCalls \cup {NoCall}
      /\ left' \in 0..MaxCalls - 1
  <2>1. CASE NextCall
    BY <1>1, <2>1 DEF NextCall
  <2>2. CASE NextStep
    BY <1>1, <2>2 DEF NextStep
  <2> QED
    BY <2>1, <2>2 DEF tool_call
<1> QED
  BY <1>3, <1>4 DEF NoEarlyAnswer

\* It raises.
LEMMA ToolRaisesInv ==
  ASSUME LoopInv, tool_raises
  PROVE  LoopInv' /\ answered' = answered
  BY DEF LoopInv, LoopTypeOK, NoEarlyAnswer, tool_raises, conversation

\* A step of the seeding or of a read leaves the loop where it is.
LEMMA LoopKept ==
  ASSUME LoopInv, UNCHANGED loopVars
  PROVE  LoopInv' /\ answered' = answered
  BY DEF LoopInv, LoopTypeOK, NoEarlyAnswer, loopVars, conversation

\* Nothing new is asked, nothing answered is forgotten.
LEMMA AskedKept ==
  ASSUME AskedInv, asked' = asked, answered \subseteq answered'
  PROVE  AskedInv'
<1>1. /\ \A s \in asked : DirectDependencies(s)' = DirectDependencies(s)
      /\ Fits' = Fits
  BY DEF DirectDependencies, Fits
<1> QED
  BY <1>1 DEF AskedInv, DirectDependencies, Fits

\* The CMDB has answered: of a whole topology, with every dependency.
LEMMA CmdbAnsweredInv ==
  ASSUME IInv, cmdb_answered
  PROVE  IInv'
<1>1. PICK r, got : r = reader /\ got = ToSet(reader.answer)
  OBVIOUS
<1>2. /\ r \in Readers /\ r.pc = "answered" /\ call_over /\ tool_call(got)
      /\ asked' = IF r.whole THEN asked \cup {r.name} ELSE asked
  BY <1>1 DEF IInv, CmdbInv, TypeInv, cmdb_answered
<1>3. r.name \in Names
  <2>1. r.ci \in ItemIds /\ computers[r.ci] = r.name
    BY <1>1, <1>2 DEF IInv, CmdbInv, ReaderInv
  <2> QED
    BY <2>1, ElementOfSeq DEF IInv, CmdbInv, TypeInv, ItemIds
<1>4. got \subseteq Names
  BY <1>1, <1>2, ElementOfSeq DEF Readers, ToSet
<1>5. CmdbInv'
  BY <1>2, CallOverInv DEF IInv
<1>6. LoopInv' /\ answered' = answered \cup got
  BY <1>2, <1>4, ServicesAssumption, ToolCallInv DEF IInv
<1>7. ASSUME Fits, r.whole
      PROVE  DirectDependencies(r.name) \subseteq got
  <2> SUFFICES ASSUME NEW d \in DirectDependencies(r.name) PROVE d \in got
    OBVIOUS
  <2>1. PICK i \in DOMAIN r.targets : computers[r.targets[i]] = d
    BY <1>1, <1>2, <1>7 DEF IInv, CmdbInv, WholeReadInv
  <2>2. Len(r.answer) = Len(r.targets) /\ DOMAIN r.answer = DOMAIN r.targets
    BY <1>1, <1>2 DEF IInv, CmdbInv, ReaderInv, Readers
  <2>3. r.answer[i] = d
    BY <1>1, <2>1, <2>2 DEF IInv, CmdbInv, ReaderInv
  <2> QED
    BY <1>1, <2>2, <2>3 DEF ToSet
<1>8. AskedInv'
  <2>1. asked' \subseteq Services
    BY <1>2, <1>3, ServicesAssumption DEF IInv, AskedInv
  <2>2. ASSUME Fits, NEW s \in asked'
        PROVE  DirectDependencies(s) \subseteq answered'
    BY <1>2, <1>6, <1>7, <2>2 DEF IInv, AskedInv
  <2> QED
    BY <2>1, <2>2 DEF AskedInv, DirectDependencies, Fits
<1> QED
  BY <1>5, <1>6, <1>8 DEF IInv

\* An empty GLPI and a loop before its first step.
LEMMA InitIInv == Init => IInv
<1> SUFFICES ASSUME Init PROVE IInv
  OBVIOUS
<1>1. CmdbInv
  BY InitCmdbInv DEF Init
<1>2. LoopInv
  BY StepsAssumption DEF Init, LoopInit, LoopInv, LoopTypeOK, NoEarlyAnswer
<1>3. AskedInv
  BY DEF Init, AskedInv
<1> QED
  BY <1>1, <1>2, <1>3 DEF IInv

\* Each action of the system keeps the invariant.
LEMMA NextIInv == IInv /\ [Next]_vars => IInv'
<1> SUFFICES ASSUME IInv, [Next]_vars PROVE IInv'
  OBVIOUS
<1> USE DEF IInv
<1>1. CASE seeding
  <2>1. seed /\ UNCHANGED loopVars /\ asked' = asked
    BY <1>1 DEF seeding
  <2> QED
    BY <2>1, SeedInv, LoopKept, AskedKept
<1>2. CASE completion
  <2>1. model_turn /\ UNCHANGED cmdbVars /\ asked' = asked
    BY <1>2 DEF completion
  <2> QED
    BY <2>1, CmdbKept, ModelTurnInv, AskedKept
<1>3. CASE cmdb_request
  <2>1. read(call.service) /\ UNCHANGED loopVars /\ asked' = asked
    BY <1>3 DEF cmdb_request
  <2> QED
    BY <2>1, ReadInv, LoopKept, AskedKept
<1>4. CASE cmdb_answered
  BY <1>4, CmdbAnsweredInv
<1>5. CASE other_tool
  <2>1. tool_call({}) /\ UNCHANGED cmdbVars /\ asked' = asked
    BY <1>5 DEF other_tool
  <2> QED
    BY <2>1, CmdbKept, ToolCallInv, AskedKept
<1>6. CASE raises
  <2>1. tool_raises /\ call_over /\ asked' = asked
    BY <1>6 DEF raises
  <2> QED
    BY <2>1, CallOverInv, ToolRaisesInv, AskedKept
<1>7. CASE UNCHANGED vars
  <2>1. UNCHANGED cmdbVars /\ UNCHANGED loopVars /\ asked' = asked
    BY <1>7 DEF vars
  <2> QED
    BY <2>1, CmdbKept, LoopKept, AskedKept
<1> QED
  BY <1>1, <1>2, <1>3, <1>4, <1>5, <1>6, <1>7 DEF Next, loop

\* So does every behaviour.
LEMMA Invariance == Spec => []IInv
  BY InitIInv, NextIInv, PTL DEF Spec
--------------------------------------------------------------------------------
\* GLPI has at most the computers that all seedings together create.
LEMMA EveryIdCounts ==
  ASSUME IInv
  PROVE  ItemIds \subseteq Ids \ {0}
<1>1. /\ seedings \in Nat /\ seedings <= MaxSeedings /\ MaxSeedings \in Nat /\ N \in Nat
      /\ Len(computers) \in Nat /\ Len(computers) <= seedings * N
  BY Topology, BoundsAssumption DEF IInv, CmdbInv, TypeInv, CountInv
<1>2. \A a, b, n \in Nat : a <= b => a * n <= b * n
  <2>1. \A a, d, n \in Nat : (a + d) * n = a * n + d * n /\ d * n \in Nat /\ a * n \in Nat
    OBVIOUS
  <2> SUFFICES ASSUME NEW a \in Nat, NEW b \in Nat, NEW n \in Nat, a <= b
               PROVE  a * n <= b * n
    OBVIOUS
  <2>2. PICK d \in Nat : b = a + d
    <3>1. b - a \in Nat /\ b = a + (b - a)
      OBVIOUS
    <3> QED
      BY <3>1
  <2>3. b * n = a * n + d * n /\ d * n \in Nat /\ a * n \in Nat
    BY <2>1, <2>2
  <2> QED
    BY <2>3
<1>3. seedings * N <= MaxSeedings * N
  BY <1>1, <1>2
<1>4. seedings * N \in Nat /\ MaxSeedings * N \in Nat
  BY <1>1
<1>5. Len(computers) <= MaxSeedings * N
  BY <1>1, <1>3, <1>4
<1> QED
  BY <1>1, <1>4, <1>5 DEF ItemIds, Ids, N

(* Every variable of the CMDB, its users and the loop keeps its type: no id is *)
(* one GLPI never gave.                                                        *)
THEOREM TypeCorrect == Spec => []TypeOK
<1>1. IInv => TypeOK
  <2> SUFFICES ASSUME IInv PROVE TypeOK
    OBVIOUS
  <2>1. ItemIds \subseteq Ids \ {0} /\ 0 \in Ids
    BY EveryIdCounts, BoundsAssumption, Topology DEF Ids, N
  <2>2. \A i \in 1..Len(relations) :
           relations[i].source \in ItemIds /\ relations[i].impacted \in ItemIds
    BY DEF IInv, CmdbInv, TypeInv, RelationsInv, Declares, ItemIds
  <2>3. seeder.ids \in [Names -> Ids]
    <3>1. seeder.ids \in [Names -> Nat] /\ \A n \in Names : seeder.ids[n] \in Ids
      BY <2>1 DEF IInv, CmdbInv, TypeInv, Seeders, SeederInv
    <3> QED
      BY <3>1
  <2>4. CmdbTypeOK
    <3>1. /\ computers \in Seq(Names)
          /\ seedings \in 0..MaxSeedings /\ refused \in 0..MaxRefused /\ whole \in BOOLEAN
      BY Zenon DEF IInv, CmdbInv, TypeInv
    <3>2. /\ seeder.pc \in {"idle", "computers", "edges"}
          /\ seeder.created \in 0..Len(SERVICES)
          /\ seeder.ok \in 0..seeder.edges /\ seeder.edges \in 0..Len(DEPENDENCIES)
      BY Topology DEF IInv, CmdbInv, TypeInv, Seeders, SeederInv, N, D
    <3>3. /\ reader.pc \in {"idle", "relations", "targets", "answered"}
          /\ reader.answer \in Seq(Names)
      BY DEF IInv, CmdbInv, TypeInv, Readers
    <3> QED
      BY <2>1, <2>2, <2>3, <3>1, <3>2, <3>3, Zenon DEF CmdbTypeOK
  <2> QED
    BY <2>4 DEF IInv, LoopInv, AskedInv, TypeOK
<1> QED
  BY <1>1, Invariance, PTL

(* However seedings and reads interleave, die and repeat, each dependency      *)
(* get_ci_dependencies answers is a declared one, in the declared direction,   *)
(* and is answered once.                                                       *)
THEOREM DependenciesAreDeclared == Spec => []AnswersDeclared
<1>1. IInv => AnswersDeclared
  <2> SUFFICES ASSUME IInv PROVE AnswersDeclared
    OBVIOUS
  <2>1. PICK r : r = reader
    OBVIOUS
  <2>2. /\ r.answer \in Seq(Names) /\ DOMAIN r.answer = 1..Len(r.answer)
        /\ DOMAIN r.answer \subseteq DOMAIN r.targets
        /\ \A i \in DOMAIN r.answer : r.answer[i] = computers[r.targets[i]]
    BY <2>1 DEF IInv, CmdbInv, TypeInv, Readers, ReaderInv
  <2>3. ToSet(r.answer) \subseteq DirectDependencies(r.name)
    BY <2>1, <2>2 DEF ToSet, IInv, CmdbInv, ReaderInv
  <2>4. \A i, j \in 1..Len(r.answer) : r.answer[i] = r.answer[j] => i = j
    BY <2>1, <2>2 DEF IInv, CmdbInv, ReaderInv
  <2>5. Cardinality(ToSet(r.answer)) = Len(r.answer)
    BY <2>2, <2>4, NoRepetition
  <2> QED
    BY <2>1, <2>3, <2>5 DEF AnswersDeclared
<1> QED
  BY <1>1, Invariance, PTL

(* Before its last step the loop returns no answer while a target some         *)
(* executed dependency query named has had no executed log search.             *)
THEOREM LoopInspectsTargets == Spec => []NoEarlyAnswer
<1>1. IInv => NoEarlyAnswer
  BY DEF IInv, LoopInv
<1> QED
  BY <1>1, Invariance, PTL

(* Once the first seeding has created everything and while both lists fit      *)
(* their page, an answer before the last step comes after a log search of      *)
(* every declared dependency of every service asked about, whatever a later    *)
(* seeding adds or leaves half done.                                           *)
THEOREM WholeChainIsInspected == Spec => []ChainInspected
<1>1. IInv => ChainInspected
  <2> SUFFICES ASSUME IInv, pc = "returned", step < MAX_TOOL_STEPS, Fits,
                      NEW s \in asked
               PROVE  DirectDependencies(s) \subseteq searched
    BY DEF ChainInspected, Fits, N, D
  <2>1. DirectDependencies(s) \subseteq answered
    BY DEF IInv, AskedInv
  <2>2. answered \subseteq searched
    BY DEF IInv, LoopInv, NoEarlyAnswer
  <2> QED
    BY <2>1, <2>2
<1> QED
  BY <1>1, Invariance, PTL
--------------------------------------------------------------------------------
(* The work of one get_ci_dependencies call is bounded by a page of relations. *)
ReadFitsPage ==
    Len(reader.answer) <= Len(reader.targets) /\ Len(reader.targets) <= list_page_size

\* A get_ci_dependencies call gets a stage or a target further.
ReadAdvances ==
    \/ reader.pc = "idle" /\ reader'.pc = "relations"
    \/ reader.pc = "relations" /\ reader'.pc = "targets"
    \/ reader.pc = "targets" /\ reader'.pc = "answered"
    \/ /\ reader.pc = "targets" /\ reader'.pc = "targets"
       /\ reader'.targets = reader.targets
       /\ Len(reader'.answer) = Len(reader.answer) + 1

\* So does the loop: it ends, uses one of its steps, turns to what a message
\* asks for, has one of its calls less to execute, or gets on with the one at
\* hand.
Advances ==
    \/ pc \in {"model", "tools", "answer"} /\ pc' \in {"returned", "raised"}
    \/ pc \in {"tools", "answer"} /\ pc' = "model" /\ step' = step + 1
    \/ pc = "model" /\ pc' \in {"tools", "answer"} /\ step' = step
    \/ pc = "tools" /\ pc' = "tools" /\ step' = step /\ left' = left - 1
    \/ pc = "tools" /\ UNCHANGED loopVars /\ ReadAdvances

LoopAdvances == [][Advances \/ (seeding /\ UNCHANGED <<loopVars, reader>>)]_vars

\* A read leaves what it found on one page.
LEMMA ReadFits ==
  ASSUME IInv, ReadFitsPage, [Next]_vars
  PROVE  ReadFitsPage'
<1>1. /\ NotReading.targets = <<>> /\ NotReading.answer = <<>>
      /\ list_page_size \in Nat /\ Len(<<>>) = 0
  BY BoundsAssumption DEF NotReading
<1>2. /\ reader \in Readers /\ Len(reader.targets) \in Nat /\ Len(reader.answer) \in Nat
      /\ reader.answer \in Seq(Names)
  BY DEF IInv, CmdbInv, TypeInv, Readers
<1>3. CASE reader' = NotReading
  BY <1>1, <1>3 DEF ReadFitsPage
<1>4. CASE reader' = reader
  BY <1>4 DEF ReadFitsPage
<1>5. ASSUME NEW name, get_ci(name) PROVE ReadFitsPage'
  <2>1. reader'.targets = <<>> /\ reader'.answer = <<>>
    BY <1>5 DEF get_ci, NotReading
  <2> QED
    BY <1>1, <2>1 DEF ReadFitsPage
<1>6. CASE list_relations
  <2>1. PICK own \in [1..Cardinality(own_relations) -> own_relations] :
           reader' = [reader EXCEPT !.pc = "targets",
                                    !.targets = [i \in DOMAIN own |-> relations[own[i]].source]]
    BY <1>6 DEF list_relations
  <2>2. Len(relations) \in Nat
    BY DEF IInv, CmdbInv, TypeInv
  <2>3. own_relations \subseteq 1..list_page_size
    BY <1>1, <2>2 DEF own_relations, Page
  <2>4. PICK c \in Nat : c = Cardinality(own_relations) /\ c <= list_page_size
    <3>1. PICK n \in Nat : n = list_page_size
      BY <1>1
    <3>2. IsFiniteSet(1..n) /\ Cardinality(1..n) = IF 1 > n THEN 0 ELSE n - 1 + 1
      BY FS_Interval
    <3>3. Cardinality(1..n) = n
      BY <3>2
    <3>4. /\ Cardinality(own_relations) <= Cardinality(1..n)
          /\ Cardinality(own_relations) \in Nat
      BY <2>3, <3>1, <3>2, FS_Subset, FS_CardinalityType
    <3> QED
      BY <3>1, <3>3, <3>4
  <2>5. reader'.targets = [i \in 1..c |-> relations[own[i]].source] /\ reader'.answer = reader.answer
    BY <1>2, <2>1, <2>4 DEF Readers
  <2>6. Len(reader'.targets) = c
    BY <2>4, <2>5
  <2>7. Len(reader.answer) = 0
    BY <1>1, <1>2, <1>6 DEF list_relations, IInv, CmdbInv, ReaderInv
  <2> QED
    BY <2>4, <2>5, <2>6, <2>7 DEF ReadFitsPage
<1>7. CASE get_target
  <2>1. PICK v : reader' = [reader EXCEPT !.answer = Append(@, v)]
    BY <1>7 DEF get_target
  <2>2. reader'.targets = reader.targets /\ reader'.answer = Append(reader.answer, v)
    BY <1>2, <2>1 DEF Readers
  <2>3. Len(Append(reader.answer, v)) = Len(reader.answer) + 1
    BY <1>2
  <2> QED
    BY <1>2, <1>7, <2>2, <2>3 DEF get_target, ReadFitsPage
<1>8. CASE answer
  <2>1. reader'.targets = reader.targets /\ reader'.answer = reader.answer
    BY <1>2, <1>8 DEF answer, Readers
  <2> QED
    BY <2>1 DEF ReadFitsPage
<1>9. CASE seeding
  <2>1. reader' = reader
    BY <1>9 DEF seeding, seed, start_seeding, create_computer, create_dependency,
                dependency_refused, seeding_done, seeding_dies
  <2> QED
    BY <1>4, <2>1
<1>10. CASE cmdb_request
  BY <1>5, <1>6, <1>7, <1>8, <1>10 DEF cmdb_request, read
<1>11. CASE completion \/ other_tool \/ UNCHANGED vars
  BY <1>4, <1>11 DEF completion, other_tool, vars, cmdbVars
<1>12. CASE cmdb_answered \/ raises
  BY <1>3, <1>12 DEF cmdb_answered, raises, call_over
<1> QED
  BY <1>9, <1>10, <1>11, <1>12 DEF Next, loop

\* What becomes of a call's result, the loop gets further.
LEMMA ToolCallAdvances ==
  ASSUME NEW targets, tool_call(targets)
  PROVE  /\ pc = "tools"
         /\ \/ pc' = "model" /\ step' = step + 1
            \/ pc' = "tools" /\ step' = step /\ left' = left - 1
  BY DEF tool_call, NextCall, NextStep

\* A request to the model gets the loop further.
LEMMA ModelTurnAdvances ==
  ASSUME model_turn
  PROVE  Advances
<1>1. CASE tool_calls
  BY <1>1 DEF tool_calls, InLoop, Advances
<1>2. CASE no_tool_calls \/ sent_back
  BY <1>2 DEF no_tool_calls, sent_back, InLoop, Advances
<1>3. CASE final_answer \/ completion_raises \/ force_final_answer
  BY <1>3 DEF final_answer, completion_raises, force_final_answer, InLoop, Advances
<1> QED
  BY <1>1, <1>2, <1>3 DEF model_turn

(* The safety half of LoopEnds: step never exceeds MAX_TOOL_STEPS + 1, left    *)
(* MaxCalls or a read its page (TypeOK and ReadFitsPage), and each step of the *)
(* loop gets it further in that order; the seeding script moves nothing of it. *)
(* So an investigation makes a bounded number of requests, whatever the model  *)
(* answers and however often the CMDB is seeded meanwhile.                     *)
THEOREM LoopIsFinite == Spec => []ReadFitsPage /\ LoopAdvances
<1>1. Init => ReadFitsPage
  BY BoundsAssumption DEF Init, CmdbInit, NotReading, ReadFitsPage
<1>2. IInv /\ Next => Advances \/ (seeding /\ UNCHANGED <<loopVars, reader>>)
  <2> SUFFICES ASSUME IInv, Next
               PROVE  Advances \/ (seeding /\ UNCHANGED <<loopVars, reader>>)
    OBVIOUS
  <2>1. CASE seeding
    BY <2>1 DEF seeding, seed, start_seeding, create_computer, create_dependency,
                dependency_refused, seeding_done, seeding_dies
  <2>2. CASE completion
    BY <2>2, ModelTurnAdvances DEF completion
  <2>3. CASE cmdb_request
    <3>1. reader \in Readers
      BY DEF IInv, CmdbInv, TypeInv
    <3>2. pc = "tools" /\ UNCHANGED loopVars /\ read(call.service)
      BY <2>3 DEF cmdb_request, AsksCmdb
    <3>3. ASSUME get_ci(call.service) PROVE ReadAdvances
      BY <3>3 DEF get_ci, NotReading, ReadAdvances
    <3>4. ASSUME list_relations PROVE ReadAdvances
      BY <3>1, <3>4 DEF list_relations, Readers, ReadAdvances
    <3>5. ASSUME get_target PROVE ReadAdvances
      <4>1. PICK v : reader' = [reader EXCEPT !.answer = Append(@, v)]
        BY <3>5 DEF get_target
      <4>2. Len(Append(reader.answer, v)) = Len(reader.answer) + 1
        BY <3>1 DEF Readers
      <4>3. /\ reader'.pc = reader.pc /\ reader'.targets = reader.targets
            /\ reader'.answer = Append(reader.answer, v)
        BY <3>1, <4>1 DEF Readers
      <4> QED
        BY <3>5, <4>2, <4>3 DEF get_target, ReadAdvances
    <3>6. ASSUME answer PROVE ReadAdvances
      BY <3>1, <3>6 DEF answer, Readers, ReadAdvances
    <3> QED
      BY <3>2, <3>3, <3>4, <3>5, <3>6 DEF read, Advances
  <2>4. CASE cmdb_answered
    BY <2>4, ToolCallAdvances DEF cmdb_answered, Advances
  <2>5. CASE other_tool
    BY <2>5, ToolCallAdvances DEF other_tool, Advances
  <2>6. CASE raises
    BY <2>6 DEF raises, tool_raises, Advances
  <2> QED
    BY <2>1, <2>2, <2>3, <2>4, <2>5, <2>6 DEF Next, loop
<1>3. Spec => []ReadFitsPage
  BY <1>1, ReadFits, Invariance, PTL DEF Spec
<1>4. Spec => LoopAdvances
  BY <1>2, Invariance, PTL DEF Spec, LoopAdvances
<1> QED
  BY <1>3, <1>4
================================================================================
