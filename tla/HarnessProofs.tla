----------------------------- MODULE HarnessProofs -----------------------------
(* Proofs about the two harnesses.  Investigation: for every set of services   *)
(* and every topology, cyclic and infinite ones included.  EvalHarness: for    *)
(* every pair of files, of any length, and every set of trails.                *)
EXTENDS Investigation, EvalHarness, FiniteSetTheorems, SequenceTheorems,
        WellFoundedInduction, TLAPS

--------------------------------------------------------------------------------
(* The walk *)

TypeInv ==
    /\ dependencies \in Topologies /\ healthy \subseteq Services
    /\ alerted_service \in Services /\ current \in Services
    /\ inspected \in Seq(Services) /\ pc \in {"walking", "returned"}

(* The dependencies of s a walk may go on to. *)
Unhealthy(deps, ok, s) == Elements(deps[s]) \ ok

(* The walk is a path from the alert that meets nothing twice; only the        *)
(* alerted service may be healthy, and then it is the only one.                *)
PathInv ==
    /\ inspected = <<>> => current = alerted_service /\ pc = "walking"
    /\ inspected # <<>> => inspected[1] = alerted_service
    /\ \A i, j \in 1..Len(inspected) : inspected[i] = inspected[j] => i = j
    /\ \A i \in 1..Len(inspected) - 1 :
          inspected[i + 1] \in Unhealthy(dependencies, healthy, inspected[i])
    /\ root # NoRoot => inspected # <<>> /\ alerted_service \notin healthy

(* The root is where it is.  While it walks, it is about to go on to a          *)
(* dependency of that; once it returned a root, it had none to go on to, or    *)
(* one it had been to.                                                         *)
AheadInv ==
    inspected # <<>> =>
        LET last == inspected[Len(inspected)] IN
        /\ IF root = NoRoot THEN alerted_service \in healthy ELSE root = last
        /\ pc = "walking" =>
              root # NoRoot /\ current \in Unhealthy(dependencies, healthy, last)
        /\ pc = "returned" /\ root # NoRoot =>
              \/ Unhealthy(dependencies, healthy, last) = {}
              \/ /\ current \in Unhealthy(dependencies, healthy, last)
                 /\ current \in Elements(inspected)

IInv == TypeInv /\ PathInv /\ AheadInv
--------------------------------------------------------------------------------
\* A sequence with as many elements as positions repeats none.
LEMMA NoRepetition ==
  ASSUME NEW S, NEW s \in Seq(S)
  PROVE  /\ IsFiniteSet(Elements(s))
         /\ Cardinality(Elements(s)) = Len(s) <=>
               \A i, j \in 1..Len(s) : s[i] = s[j] => i = j
<1> DEFINE I == 1..Len(s)
           T == Elements(s)
<1>1. s \in Surjection(I, T)
  BY DEF Surjection, Elements
<1>2. IsFiniteSet(I) /\ Cardinality(I) = Len(s)
  <2>1. PICK n \in Nat : n = Len(s)
    OBVIOUS
  <2>2. IsFiniteSet(1..n) /\ Cardinality(1..n) = IF 1 > n THEN 0 ELSE n - 1 + 1
    BY FS_Interval
  <2> QED
    BY <2>1, <2>2
<1>3. IsFiniteSet(T) /\ (Cardinality(T) = Cardinality(I) <=> s \in Injection(I, T))
  <2> HIDE DEF I, T
  <2> QED
    BY <1>1, <1>2, FS_Surjection
<1>4. s \in Injection(I, T) <=> \A i, j \in I : s[i] = s[j] => i = j
  <2>1. s \in [I -> T]
    BY <1>1 DEF Surjection
  <2> HIDE DEF I, T
  <2> QED
    BY <2>1 DEF Injection, IsInjective
<1> QED
  BY <1>2, <1>3, <1>4

\* A set of numbers has a first one.
LEMMA LessIsWellFounded ==
  \E R : IsWellFoundedOn(R, Nat) /\ \A x, y \in Nat : y < x => <<y, x>> \in R
<1>1. IsWellFoundedOn(OpToRel(<, Nat), Nat)
  BY NatLessThanWellFounded, Zenon
<1>2. \A x, y \in Nat : y < x => <<y, x>> \in OpToRel(<, Nat)
  BY DEF OpToRel
<1> QED
  BY <1>1, <1>2, Zenon

\* It has a least element.
LEMMA First ==
  ASSUME NEW T \in SUBSET Nat, T # {}
  PROVE  \E x \in T : \A y \in T : x <= y
<1>1. PICK R : IsWellFoundedOn(R, Nat) /\ \A x, y \in Nat : y < x => <<y, x>> \in R
  BY LessIsWellFounded, Zenon
<1>2. PICK x \in T : \A y \in T : ~(<<y, x>> \in R)
  BY <1>1, WFMin, Zenon
<1>3. \A y \in T : ~(y < x)
  BY <1>1, <1>2, Zenon
<1> QED
  BY <1>3

\* A service has a dependency to go on to when one of its positions has.
LEMMA NextOnes ==
  ASSUME TypeInv, NEW s \in Services
  PROVE  /\ \A i \in unhealthy_dependencies(s) :
               dependencies[s][i] \in Unhealthy(dependencies, healthy, s)
         /\ unhealthy_dependencies(s) = {} => Unhealthy(dependencies, healthy, s) = {}
         /\ Unhealthy(dependencies, healthy, s) \subseteq Services
<1>1. PICK deps : deps = dependencies[s]
  OBVIOUS
<1>2. deps \in Seq(Services)
  BY <1>1, TopologyAssumption DEF TypeInv
<1>3. \A i \in 1..Len(deps) : deps[i] \in Services
  BY <1>2
<1> QED
  BY <1>1, <1>3 DEF unhealthy_dependencies, unhealthy, Unhealthy, Elements

\* Every scenario starts with nothing inspected.
LEMMA InitIInv == Init => IInv
<1> SUFFICES ASSUME Init PROVE IInv
  OBVIOUS
<1>1. TypeInv
  BY DEF Init, TypeInv
<1>2. PathInv /\ AheadInv
  BY DEF Init, PathInv, AheadInv
<1> QED
  BY <1>1, <1>2 DEF IInv

\* The walk has come back to a service.
LEMMA LoopClosedInv ==
  ASSUME IInv, loop_closed
  PROVE  IInv'
<1>1. /\ pc = "walking" /\ current \in Elements(inspected) /\ root' = root
      /\ pc' = "returned" /\ current' = current /\ inspected' = inspected
      /\ UNCHANGED <<dependencies, healthy, alerted_service>>
  BY DEF loop_closed, seen, Return, scenario
<1>2. inspected # <<>>
  BY <1>1 DEF Elements
<1>3. TypeInv'
  BY <1>1 DEF IInv, TypeInv
<1>4. PathInv'
  BY <1>1, <1>2 DEF IInv, PathInv, Unhealthy
<1>5. AheadInv'
  BY <1>1, <1>2 DEF IInv, AheadInv, Unhealthy, Elements
<1> QED
  BY <1>3, <1>4, <1>5 DEF IInv

\* A service is inspected: the walk is a path again.
LEMMA Inspected ==
  ASSUME TypeInv, PathInv, AheadInv, pc = "walking", ~seen(current),
         inspected' = Append(inspected, current),
         UNCHANGED <<dependencies, healthy, alerted_service>>
  PROVE  /\ inspected' \in Seq(Services) /\ inspected' # <<>>
         /\ inspected'[1] = alerted_service
         /\ inspected'[Len(inspected')] = current
         /\ \A i, j \in 1..Len(inspected') : inspected'[i] = inspected'[j] => i = j
         /\ \A i \in 1..Len(inspected') - 1 :
               inspected'[i + 1] \in Unhealthy(dependencies, healthy, inspected'[i])
         /\ inspected # <<>> => root # NoRoot /\ current \notin healthy
<1>1. PICK n \in Nat : n = Len(inspected)
  BY DEF TypeInv
<1>2. PICK after : after = Append(inspected, current)
  OBVIOUS
<1>3. /\ after \in Seq(Services) /\ Len(after) = n + 1
      /\ \A i \in 1..n : after[i] = inspected[i]
      /\ after[n + 1] = current
  BY <1>1, <1>2, AppendProperties DEF TypeInv
<1>4. \A i \in 1..n : inspected[i] # current
  BY <1>1 DEF seen, Elements
<1>5. \A i \in 1..n + 1 : i \in 1..n \/ i = n + 1
  OBVIOUS
<1>6. n # 0 <=> inspected # <<>>
  BY <1>1 DEF TypeInv
<1>7. after[1] = alerted_service
  BY <1>3, <1>6 DEF PathInv
<1>8. \A i, j \in 1..n + 1 : after[i] = after[j] => i = j
  <2> SUFFICES ASSUME NEW i \in 1..n + 1, NEW j \in 1..n + 1, after[i] = after[j]
               PROVE  i = j
    OBVIOUS
  <2>1. CASE i \in 1..n /\ j \in 1..n
    BY <1>1, <1>3, <2>1 DEF PathInv
  <2> QED
    BY <1>3, <1>4, <1>5, <2>1
<1>9. ASSUME NEW i \in 1..n
      PROVE  after[i + 1] \in Unhealthy(dependencies, healthy, after[i])
  <2>1. CASE i = n
    BY <1>1, <1>3, <1>6, <2>1 DEF AheadInv
  <2>2. CASE i # n
    <3>1. i \in 1..n - 1 /\ i + 1 \in 1..n
      BY <2>2
    <3> QED
      BY <1>1, <1>3, <3>1 DEF PathInv
  <2> QED
    BY <2>1, <2>2
<1>10. inspected # <<>> => root # NoRoot /\ current \notin healthy
  BY DEF AheadInv, Unhealthy
<1> QED
  BY <1>2, <1>3, <1>7, <1>8, <1>9, <1>10

\* A healthy service ends the walk: it is the alerted one.
LEMMA InspectHealthyInv ==
  ASSUME IInv, inspect_healthy
  PROVE  IInv'
<1>1. /\ pc = "walking" /\ ~seen(current) /\ ~unhealthy(current) /\ root' = root
      /\ pc' = "returned" /\ current' = current /\ inspected' = Append(inspected, current)
      /\ UNCHANGED <<dependencies, healthy, alerted_service>>
  BY DEF inspect_healthy, Return, scenario
<1>2. current \in healthy
  BY <1>1 DEF IInv, TypeInv, unhealthy
<1>3. /\ inspected' \in Seq(Services) /\ inspected' # <<>>
      /\ inspected'[1] = alerted_service
      /\ \A i, j \in 1..Len(inspected') : inspected'[i] = inspected'[j] => i = j
      /\ \A i \in 1..Len(inspected') - 1 :
            inspected'[i + 1] \in Unhealthy(dependencies, healthy, inspected'[i])
      /\ inspected = <<>>
  BY <1>1, <1>2, Inspected DEF IInv
<1>4. root = NoRoot
  BY <1>3 DEF IInv, PathInv
<1>5. TypeInv'
  BY <1>1, <1>3 DEF IInv, TypeInv
<1>6. PathInv'
  BY <1>1, <1>3, <1>4 DEF PathInv
<1>7. AheadInv'
  <2>1. alerted_service \in healthy
    BY <1>2, <1>3 DEF IInv, PathInv
  <2> QED
    BY <1>1, <1>4, <2>1 DEF AheadInv
<1> QED
  BY <1>5, <1>6, <1>7 DEF IInv

\* An unhealthy one is the root unless the walk goes on.
LEMMA InspectUnhealthyInv ==
  ASSUME IInv, inspect_unhealthy
  PROVE  IInv'
<1>1. /\ pc = "walking" /\ ~seen(current) /\ unhealthy(current)
      /\ inspected' = Append(inspected, current)
      /\ UNCHANGED <<dependencies, healthy, alerted_service>>
  BY DEF inspect_unhealthy, scenario
<1>2. /\ inspected' \in Seq(Services) /\ inspected' # <<>>
      /\ inspected'[1] = alerted_service
      /\ inspected'[Len(inspected')] = current
      /\ \A i, j \in 1..Len(inspected') : inspected'[i] = inspected'[j] => i = j
      /\ \A i \in 1..Len(inspected') - 1 :
            inspected'[i + 1] \in Unhealthy(dependencies, healthy, inspected'[i])
      /\ inspected # <<>> => root # NoRoot
  BY <1>1, Inspected DEF IInv
<1>3. alerted_service \notin healthy
  <2>1. CASE inspected = <<>>
    BY <1>1, <2>1 DEF IInv, PathInv, unhealthy
  <2>2. CASE inspected # <<>>
    BY <1>2, <2>2 DEF IInv, PathInv
  <2> QED
    BY <2>1, <2>2
<1>4. current \in Services /\ current # NoRoot
  BY NoRootAssumption DEF IInv, TypeInv
<1>5. /\ root' = current /\ current' \in Services /\ pc' \in {"walking", "returned"}
      /\ \/ pc' = "returned" /\ Unhealthy(dependencies, healthy, current) = {}
         \/ pc' = "walking" /\ current' \in Unhealthy(dependencies, healthy, current)
  <2>1. CASE unhealthy_dependencies(current) = {} /\ Return(current)
    BY <1>4, <2>1, NextOnes DEF Return, IInv
  <2>2. CASE \E i \in unhealthy_dependencies(current) :
                root' = current /\ current' = dependencies[current][i] /\ UNCHANGED pc
    BY <1>1, <1>4, <2>2, NextOnes DEF IInv
  <2> QED
    BY <2>1, <2>2 DEF inspect_unhealthy
<1>6. TypeInv'
  BY <1>1, <1>2, <1>5 DEF IInv, TypeInv
<1>7. PathInv'
  BY <1>1, <1>2, <1>3 DEF PathInv
<1>8. AheadInv'
  BY <1>1, <1>2, <1>4, <1>5 DEF AheadInv
<1> QED
  BY <1>6, <1>7, <1>8 DEF IInv

\* Each of the three ways a pass of the loop goes keeps the invariant.
LEMMA NextIInv == IInv /\ [Next]_vars => IInv'
<1> SUFFICES ASSUME IInv, [Next]_vars PROVE IInv'
  OBVIOUS
<1>1. CASE UNCHANGED vars
  BY <1>1 DEF vars, scenario, IInv, TypeInv, PathInv, AheadInv, Elements
<1> QED
  BY <1>1, LoopClosedInv, InspectHealthyInv, InspectUnhealthyInv DEF Next

\* So does every walk.
LEMMA Invariance == Spec => []IInv
  BY InitIInv, NextIInv, PTL DEF Spec
--------------------------------------------------------------------------------
(* The investigation obeys the rule agent runs are graded by, and never looks  *)
(* at a service twice.                                                         *)
THEOREM WalkIsCausal == Spec => []TrailIsCausal
<1>1. IInv => TrailIsCausal
  <2> SUFFICES ASSUME IInv PROVE TrailIsCausal
    OBVIOUS
  <2>1. PICK n, trail : n \in Nat /\ n = Len(inspected) /\ trail = Trail
    BY DEF IInv, TypeInv
  <2>2. /\ Len(trail) = n
        /\ \A i \in 1..n : /\ trail[i].queried = inspected[i]
                           /\ trail[i].discovered = Elements(dependencies[inspected[i]])
    BY <2>1 DEF Trail
  <2>3. ASSUME NEW i \in 1..n
        PROVE  trail[i].queried \in {alerted_service} \cup
                                    UNION {trail[j].discovered : j \in 1..i - 1}
    <3>1. CASE i = 1
      BY <2>1, <2>2, <3>1 DEF IInv, PathInv
    <3>2. CASE i # 1
      <4>1. i - 1 \in 1..n - 1 /\ i - 1 \in 1..n /\ (i - 1) + 1 = i /\ i - 1 \in 1..i - 1
        BY <2>1, <3>2
      <4>2. inspected[i] \in Elements(dependencies[inspected[i - 1]])
        BY <2>1, <4>1 DEF IInv, PathInv, Unhealthy
      <4>3. inspected[i] \in trail[i - 1].discovered
        BY <2>2, <4>1, <4>2
      <4> QED
        BY <2>2, <4>1, <4>3
    <3> QED
      BY <3>1, <3>2
  <2>4. causal_trail_is_valid(alerted_service, trail)
    BY <2>2, <2>3 DEF causal_trail_is_valid
  <2>5. Cardinality(Elements(inspected)) = Len(inspected)
    BY NoRepetition DEF IInv, TypeInv, PathInv
  <2> QED
    BY <2>1, <2>4, <2>5 DEF TrailIsCausal
<1> QED
  BY <1>1, Invariance, PTL

\* A set of at most one element.
LEMMA AtMostOne ==
  ASSUME NEW S, IsFiniteSet(S), Cardinality(S) <= 1, NEW x \in S, NEW y \in S
  PROVE  x = y
<1> SUFFICES ASSUME x # y PROVE FALSE
  OBVIOUS
<1>1. IsFiniteSet(S \ {x}) /\ Cardinality(S \ {x}) = Cardinality(S) - 1
  BY FS_RemoveElement
<1>2. Cardinality(S) \in Nat /\ Cardinality(S \ {x}) \in Nat
  BY <1>1, FS_CardinalityType
<1>3. Cardinality(S \ {x}) = 0
  BY <1>1, <1>2
<1>4. S \ {x} = {}
  BY <1>1, <1>3, FS_EmptySet
<1> QED
  BY <1>4

\* A walk of unhealthy services that each have one such dependency at most.
Chain ==
    /\ pc = "returned" /\ root # NoRoot
    /\ \A s \in Elements(inspected) : Cardinality(Elements(dependencies[s]) \ healthy) <= 1

\* From a service of it there is one way to go on.
LEMMA OneWay ==
  ASSUME IInv, Chain, NEW i \in 1..Len(inspected),
         NEW x \in Unhealthy(dependencies, healthy, inspected[i]),
         NEW y \in Unhealthy(dependencies, healthy, inspected[i])
  PROVE  x = y
<1>1. PICK s : s = inspected[i]
  OBVIOUS
<1>2. s \in Elements(inspected) /\ dependencies[s] \in Seq(Services)
  BY <1>1, TopologyAssumption DEF Elements, IInv, TypeInv
<1>3. IsFiniteSet(Elements(dependencies[s]))
  BY <1>2, NoRepetition
<1>4. IsFiniteSet(Elements(dependencies[s]) \ healthy)
  BY <1>3, FS_Difference
<1>5. Cardinality(Elements(dependencies[s]) \ healthy) <= 1
  BY <1>2 DEF Chain
<1> QED
  BY <1>1, <1>4, <1>5, AtMostOne DEF Unhealthy

\* So every other path goes where the walk went, as far as both reach.
LEMMA SamePath ==
  ASSUME IInv, Chain, NEW k \in Nat, NEW p \in [1..k -> Services \ healthy],
         p[1] = alerted_service,
         \A i \in 1..k - 1 : p[i + 1] \in Elements(dependencies[p[i]]),
         NEW i \in 1..k, i <= Len(inspected)
  PROVE  p[i] = inspected[i]
<1> DEFINE Off == {j \in 1..k : j <= Len(inspected) /\ p[j] # inspected[j]}
<1> SUFFICES ASSUME Off # {} PROVE FALSE
  OBVIOUS
<1>1. PICK m \in Nat : m = Len(inspected)
  BY DEF IInv, TypeInv
<1>2. PICK b \in Off : \A j \in Off : b <= j
  <2>1. Off \in SUBSET Nat
    OBVIOUS
  <2> HIDE DEF Off
  <2> QED
    BY <2>1, First
<1>3. b \in 1..k /\ b \in 1..m /\ p[b] # inspected[b]
  BY <1>1, <1>2
<1>4. b # 1
  BY <1>1, <1>3 DEF IInv, PathInv, Chain
<1>5. PICK a : a = b - 1
  OBVIOUS
<1>6. a \in 1..k - 1 /\ a \in 1..m - 1 /\ a \in 1..k /\ a \in 1..m /\ a + 1 = b /\ ~(b <= a)
  BY <1>3, <1>4, <1>5
<1>7. p[a] = inspected[a]
  BY <1>1, <1>2, <1>6
<1>8. p[b] \in Unhealthy(dependencies, healthy, inspected[a])
  BY <1>3, <1>6, <1>7 DEF Unhealthy
<1>9. inspected[b] \in Unhealthy(dependencies, healthy, inspected[a])
  BY <1>1, <1>6 DEF IInv, PathInv
<1> QED
  BY <1>1, <1>3, <1>6, <1>8, <1>9, OneWay

(* "Return the deepest unhealthy dependency reachable from the alert" is met   *)
(* where the first unhealthy dependency is the only one: the root returned     *)
(* ends a path of distinct unhealthy services, and there is no longer one.     *)
THEOREM WalkIsDeepest == Spec => []DeepestOnChains
<1>1. ASSUME IInv, pc = "returned"
      PROVE  root = NoRoot <=> UnhealthyPaths(1) = {}
  <2>1. inspected # <<>>
    BY <1>1 DEF IInv, PathInv
  <2>2. root = NoRoot <=> alerted_service \in healthy
    BY <1>1, <2>1 DEF IInv, PathInv, AheadInv
  <2>3. CASE alerted_service \in healthy
    BY <2>2, <2>3 DEF UnhealthyPaths
  <2>4. CASE alerted_service \notin healthy
    <3>1. PICK p : p = [i \in 1..1 |-> alerted_service]
      OBVIOUS
    <3>2. p \in [1..1 -> Services \ healthy] /\ p[1] = alerted_service
      BY <2>4, <3>1, <1>1 DEF IInv, TypeInv
    <3>3. p \in UnhealthyPaths(1)
      BY <3>2 DEF UnhealthyPaths
    <3> QED
      BY <2>2, <2>4, <3>3
  <2> QED
    BY <2>3, <2>4
<1>2. ASSUME IInv, Chain, NEW m \in Nat, m = Len(inspected)
      PROVE  \E p \in UnhealthyPaths(m) : p[m] = root
  <2>1. /\ inspected # <<>> /\ inspected[1] = alerted_service /\ alerted_service \notin healthy
        /\ root = inspected[m]
    BY <1>2 DEF IInv, PathInv, AheadInv, Chain
  <2>2. PICK p : p = [i \in 1..m |-> inspected[i]]
    OBVIOUS
  <2>3. \A i \in 1..m : p[i] = inspected[i]
    BY <2>2
  <2>4. m \in 1..m /\ 1 \in 1..m
    BY <1>2, <2>1 DEF IInv, TypeInv
  <2>5. ASSUME NEW i \in 1..m PROVE inspected[i] \in Services \ healthy
    <3>1. inspected[i] \in Services
      BY <1>2, <2>5 DEF IInv, TypeInv
    <3>2. CASE i = 1
      BY <2>1, <3>1, <3>2
    <3>3. CASE i # 1
      <4>1. PICK j : j = i - 1
        OBVIOUS
      <4>2. j \in 1..m - 1 /\ j + 1 = i
        BY <3>3, <4>1
      <4> QED
        BY <1>2, <3>1, <4>2 DEF IInv, PathInv, Unhealthy
    <3> QED
      BY <3>2, <3>3
  <2>6. p \in [1..m -> Services \ healthy]
    BY <2>2, <2>5
  <2>7. \A i, j \in 1..m : p[i] = p[j] => i = j
    BY <1>2, <2>3 DEF IInv, PathInv
  <2>8. ASSUME NEW i \in 1..m - 1 PROVE p[i + 1] \in Elements(dependencies[p[i]])
    <3>1. i \in 1..m /\ i + 1 \in 1..m
      OBVIOUS
    <3> QED
      BY <1>2, <2>3, <3>1 DEF IInv, PathInv, Unhealthy
  <2>9. p \in UnhealthyPaths(m)
    BY <2>1, <2>3, <2>4, <2>6, <2>7, <2>8 DEF UnhealthyPaths
  <2> QED
    BY <2>1, <2>3, <2>4, <2>9
<1>3. ASSUME IInv, Chain, NEW m \in Nat, m = Len(inspected), NEW p \in UnhealthyPaths(m + 1)
      PROVE  FALSE
  <2>1. PICK k \in Nat : k = m + 1
    BY <1>3
  <2>2. /\ p \in [1..k -> Services \ healthy] /\ p[1] = alerted_service
        /\ \A i, j \in 1..k : p[i] = p[j] => i = j
        /\ \A i \in 1..k - 1 : p[i + 1] \in Elements(dependencies[p[i]])
    BY <2>1 DEF UnhealthyPaths
  <2>3. inspected # <<>> /\ m \in 1..k - 1 /\ m \in 1..m /\ m \in 1..k /\ m + 1 \in 1..k
    BY <1>3, <2>1 DEF IInv, TypeInv, PathInv, Chain
  <2>4. \A i \in 1..m : p[i] = inspected[i]
    <3> SUFFICES ASSUME NEW i \in 1..m PROVE p[i] = inspected[i]
      OBVIOUS
    <3>1. i \in 1..k /\ i <= Len(inspected)
      BY <1>3, <2>1
    <3> QED
      BY <1>3, <2>2, <3>1, SamePath
  <2>5. p[m + 1] \in Unhealthy(dependencies, healthy, inspected[m])
    BY <2>2, <2>3, <2>4 DEF Unhealthy
  <2>6. current = p[m + 1] /\ current \in Elements(inspected)
    BY <1>3, <2>3, <2>5, OneWay DEF IInv, AheadInv, Chain
  <2>7. PICK i \in 1..m : inspected[i] = current
    BY <1>3, <2>6 DEF Elements
  <2>8. p[i] = p[m + 1] /\ i \in 1..k /\ i # m + 1
    BY <2>1, <2>4, <2>6, <2>7
  <2> QED
    BY <2>2, <2>3, <2>8
<1>4. IInv => DeepestOnChains
  <2> SUFFICES ASSUME IInv, pc = "returned" PROVE DeepestOnChains
    BY DEF DeepestOnChains
  <2>1. PICK m \in Nat : m = Len(inspected)
    BY DEF IInv, TypeInv
  <2>2. ASSUME Chain
        PROVE  (\E p \in UnhealthyPaths(m) : p[m] = root) /\ UnhealthyPaths(m + 1) = {}
    BY <1>2, <1>3, <2>1, <2>2
  <2> QED
    BY <1>1, <2>1, <2>2 DEF DeepestOnChains, Chain
<1> QED
  BY <1>4, Invariance, PTL

(* The safety half of WalkEnds: a pass of the loop inspects one more service   *)
(* or returns, and there are no more passes than services.                     *)
WalkIsShort == IsFiniteSet(Services) => Len(inspected) <= Cardinality(Services)

WalkAdvances ==
    [][/\ pc = "walking"
       /\ pc' = "returned" \/ Len(inspected') = Len(inspected) + 1]_vars

THEOREM WalkIsFinite == Spec => []WalkIsShort /\ WalkAdvances
<1>1. IInv => WalkIsShort
  <2> SUFFICES ASSUME IInv, IsFiniteSet(Services)
               PROVE  Len(inspected) <= Cardinality(Services)
    BY DEF WalkIsShort
  <2>1. Cardinality(Elements(inspected)) = Len(inspected)
    BY NoRepetition DEF IInv, TypeInv, PathInv
  <2>2. Elements(inspected) \subseteq Services
    BY DEF IInv, TypeInv, Elements
  <2> QED
    BY <2>1, <2>2, FS_Subset
<1>2. IInv /\ [Next]_vars =>
        [/\ pc = "walking" /\ (pc' = "returned" \/ Len(inspected') = Len(inspected) + 1)]_vars
  <2> SUFFICES ASSUME IInv, Next
               PROVE  pc = "walking" /\ (pc' = "returned" \/ Len(inspected') = Len(inspected) + 1)
    BY DEF vars
  <2>1. CASE loop_closed
    BY <2>1 DEF loop_closed, Return
  <2>2. CASE inspect_healthy
    BY <2>2 DEF inspect_healthy, Return
  <2>3. CASE inspect_unhealthy
    <3>1. pc = "walking" /\ inspected' = Append(inspected, current)
      BY <2>3 DEF inspect_unhealthy
    <3>2. inspected \in Seq(Services) /\ current \in Services
      BY DEF IInv, TypeInv
    <3> QED
      BY <3>1, <3>2, AppendProperties
  <2> QED
    BY <2>1, <2>2, <2>3 DEF Next
<1> QED
  BY <1>1, <1>2, Invariance, PTL DEF Spec, WalkAdvances
--------------------------------------------------------------------------------
(* The report *)

Tallies ==
    [tp : Nat, fn : Nat, fp : Nat, tn : Nat, diagnosable_cases : Nat,
     root_correct : Nat, causal_violations : Nat,
     judge_tp : Nat, judge_fn : Nat, judge_fp : Nat, judge_tn : Nat]

(* A baseline run has a trail of its own, which need not be among Trails.      *)
ReportTypeInv ==
    /\ goldens \in Seq(Goldens) /\ recorded \in Seq(Runs)
    /\ runs = IF metrics = <<>> THEN recorded ELSE alerted_service_baseline
    /\ scored \in 0..Len(goldens) /\ tally \in Tallies /\ metrics \in Seq(Tallies)
    /\ stage \in {"start", "scoring", "written", "raised"}

(* Whatever evaluate has returned is of files that cover each other.           *)
CoverInv ==
    /\ Len(metrics) \in 0..2
    /\ stage = "written" <=> Len(metrics) = 2
    /\ stage = "raised" => metrics = <<>>
    /\ stage = "scoring" \/ metrics # <<>> => ids(goldens) = ids(recorded)
    /\ metrics # <<>> => goldens # <<>>

(* The counters of evaluate are right for the cases it has passed, those it    *)
(* returned for all of them.                                                   *)
TallyInv ==
    /\ AddUp(tally, scored)
    /\ \A k \in 1..Len(metrics) : AddUp(metrics[k], Len(goldens))

GateInv ==
    IF metrics = <<>> THEN GateSpeaks(tally, scored)
                      ELSE GateSpeaks(metrics[1], Len(goldens))

BaselineInv ==
    /\ Len(metrics) = 1 => AsItIs(tally, scored)
    /\ Len(metrics) = 2 => AsItIs(metrics[2], Len(goldens))

ReportInv == ReportTypeInv /\ CoverInv /\ TallyInv /\ GateInv /\ BaselineInv
--------------------------------------------------------------------------------
\* One more number in an interval.
LEMMA CountNext ==
  ASSUME NEW n \in Nat, NEW S
  PROVE  /\ Cardinality((1..n + 1) \cap S) =
               Cardinality((1..n) \cap S) + (IF n + 1 \in S THEN 1 ELSE 0)
         /\ Cardinality((1..n) \cap S) \in Nat
         /\ Cardinality((1..0) \cap S) = 0
<1> DEFINE A == (1..n) \cap S
           B == (1..n + 1) \cap S
<1>1. IsFiniteSet(A) /\ Cardinality(A) \in Nat
  <2>1. IsFiniteSet(1..n)
    BY FS_Interval
  <2>2. IsFiniteSet(A)
    BY <2>1, FS_Intersection
  <2> QED
    BY <2>2, FS_CardinalityType
<1>2. Cardinality(B) = Cardinality(A) + (IF n + 1 \in S THEN 1 ELSE 0)
  <2>1. CASE n + 1 \in S
    <3>1. B = A \cup {n + 1} /\ n + 1 \notin A
      BY <2>1
    <3> HIDE DEF A, B
    <3> QED
      BY <1>1, <2>1, <3>1, FS_AddElement
  <2>2. CASE n + 1 \notin S
    <3>1. B = A
      BY <2>2
    <3> HIDE DEF A, B
    <3> QED
      BY <1>1, <2>2, <3>1
  <2> QED
    BY <2>1, <2>2
<1>3. (1..0) \cap S = {}
  OBVIOUS
<1> QED
  BY <1>1, <1>2, <1>3, FS_EmptySet

\* The counters are numbers, and a pass of the loop leaves them numbers.
LEMMA ScoreIsTally ==
  ASSUME NEW t \in Tallies, NEW golden, NEW run
  PROVE  score(t, golden, run) \in Tallies
<1>1. \A x \in Nat : \A b : x + One(b) \in Nat
  BY DEF One
<1> QED
  BY <1>1 DEF score, Tallies

\* Before the first case they agree with everything.
LEMMA ZeroIsRight ==
  /\ Zero \in Tallies
  /\ AddUp(Zero, 0) /\ GateSpeaks(Zero, 0) /\ AsItIs(Zero, 0)
<1>1. Zero \in Tallies
  BY DEF Zero, Tallies
<1>2. Cardinality(Incidents(0)) = 0 /\ Cardinality(AlertNames(0)) = 0
  <2>1. Incidents(0) = {} /\ AlertNames(0) = {}
    BY DEF Incidents, AlertNames
  <2> QED
    BY <2>1, FS_EmptySet
<1>3. AddUp(Zero, 0)
  BY <1>2 DEF AddUp, Zero
<1>4. GateSpeaks(Zero, 0)
  BY DEF GateSpeaks
<1>5. AsItIs(Zero, 0)
  BY <1>2 DEF AsItIs, Zero
<1> QED
  BY <1>1, <1>3, <1>4, <1>5

\* The runs under evaluation carry labels, and one of a case is found by its id.
LEMMA RunOfCase ==
  ASSUME ReportTypeInv, NEW id \in ids(runs)
  PROVE  \E i \in 1..Len(runs) :
            /\ run_by_id(id) = runs[i] /\ runs[i].case_id = id
            /\ runs[i].quality_label \in BOOLEAN /\ runs[i].judge_prediction \in BOOLEAN
<1>1. PICK n \in Nat : n = Len(runs)
  BY DEF ReportTypeInv, alerted_service_baseline
<1>2. \A i \in 1..n : runs[i].quality_label \in BOOLEAN /\ runs[i].judge_prediction \in BOOLEAN
  <2>1. \A run \in Runs : run.quality_label \in BOOLEAN /\ run.judge_prediction \in BOOLEAN
    BY DEF Runs
  <2>2. \A golden : LET run == baseline_run(golden) IN
                   run.quality_label \in BOOLEAN /\ run.judge_prediction \in BOOLEAN
    BY DEF baseline_run
  <2>3. \A i \in 1..n : runs[i] \in Runs \/ runs[i] = baseline_run(goldens[i])
    BY <1>1 DEF ReportTypeInv, alerted_service_baseline
  <2> QED
    BY <2>1, <2>2, <2>3
<1> DEFINE Behind == {k \in Nat : n - k \in 1..n /\ runs[n - k].case_id = id}
<1>3. Behind # {}
  <2>1. PICK i \in 1..n : runs[i].case_id = id
    BY <1>1 DEF ids
  <2>2. n - i \in Nat /\ n - (n - i) = i
    BY <2>1
  <2>3. n - i \in Behind
    BY <2>1, <2>2
  <2> QED
    BY <2>3
<1>4. PICK k \in Behind : \A m \in Behind : k <= m
  <2>1. Behind \in SUBSET Nat
    OBVIOUS
  <2> HIDE DEF Behind
  <2> QED
    BY <1>3, <2>1, First
<1>5. PICK i : i = n - k
  OBVIOUS
<1>6. i \in 1..n /\ runs[i].case_id = id
  BY <1>4, <1>5
<1>7. \A j \in i + 1..n : runs[j].case_id # id
  <2> SUFFICES ASSUME NEW j \in i + 1..n, runs[j].case_id = id PROVE FALSE
    OBVIOUS
  <2>1. n - j \in Nat /\ n - (n - j) = j /\ j \in 1..n /\ ~(k <= n - j)
    BY <1>4, <1>5, <1>6
  <2>2. n - j \in Behind
    BY <2>1
  <2> QED
    BY <1>4, <2>1, <2>2
<1>8. \A j \in 1..n : runs[j].case_id = id /\ (\A l \in j + 1..n : runs[l].case_id # id) => j = i
  <2> SUFFICES ASSUME NEW j \in 1..n, runs[j].case_id = id,
                      \A l \in j + 1..n : runs[l].case_id # id, j # i
               PROVE  FALSE
    OBVIOUS
  <2>1. j \in i + 1..n \/ i \in j + 1..n
    BY <1>6
  <2> QED
    BY <1>6, <1>7, <2>1
<1>9. run_by_id(id) = runs[i]
  BY <1>1, <1>6, <1>7, <1>8 DEF run_by_id
<1> QED
  BY <1>1, <1>2, <1>6, <1>9

\* A pass of the loop counts its case once in every way cases are divided.
LEMMA ScoreAddsUp ==
  ASSUME NEW t \in Tallies, NEW n \in Nat, NEW run,
         run.quality_label \in BOOLEAN, run.judge_prediction \in BOOLEAN,
         AddUp(t, n)
  PROVE  AddUp(score(t, goldens[n + 1], run), n + 1)
<1> DEFINE golden == goldens[n + 1]
<1>1. PICK s : s = score(t, golden, run)
  OBVIOUS
<1>2. /\ Cardinality(Incidents(n + 1)) =
             Cardinality(Incidents(n)) + (IF is_incident(golden) THEN 1 ELSE 0)
      /\ Cardinality(Incidents(n)) \in Nat
  <2> DEFINE S == {i \in 1..n + 1 : is_incident(goldens[i])}
  <2>1. /\ Incidents(n) = (1..n) \cap S /\ Incidents(n + 1) = (1..n + 1) \cap S
        /\ n + 1 \in S <=> is_incident(golden)
    BY DEF Incidents
  <2> HIDE DEF S
  <2> QED
    BY <2>1, CountNext
<1>5. /\ t.diagnosable_cases = Cardinality(Incidents(n))
      /\ t.tp + t.fn = t.diagnosable_cases
      /\ t.tp + t.fn + t.fp + t.tn = n
      /\ t.judge_tp + t.judge_fn + t.judge_fp + t.judge_tn = n
      /\ t.root_correct <= t.tp
  BY DEF AddUp
<1>6. PICK incident \in BOOLEAN, predicted \in BOOLEAN, right \in BOOLEAN :
         /\ incident = is_incident(golden) /\ predicted = predicted_incident(run)
         /\ right = root_matches(golden, run)
         /\ right => incident /\ predicted
  BY DEF is_incident, predicted_incident, root_matches
<1>7. /\ s.diagnosable_cases = t.diagnosable_cases + One(incident)
      /\ s.tp = t.tp + One(incident /\ predicted)
      /\ s.fn = t.fn + One(incident /\ ~predicted)
      /\ s.fp = t.fp + One(~incident /\ predicted)
      /\ s.tn = t.tn + One(~incident /\ ~predicted)
      /\ s.root_correct = t.root_correct + One(right)
      /\ s.judge_tp = t.judge_tp + One(run.quality_label /\ run.judge_prediction)
      /\ s.judge_fn = t.judge_fn + One(run.quality_label /\ ~run.judge_prediction)
      /\ s.judge_fp = t.judge_fp + One(~run.quality_label /\ run.judge_prediction)
      /\ s.judge_tn = t.judge_tn + One(~run.quality_label /\ ~run.judge_prediction)
  BY <1>1, <1>6 DEF score
<1>8. /\ t.tp \in Nat /\ t.fn \in Nat /\ t.fp \in Nat /\ t.tn \in Nat
      /\ t.judge_tp \in Nat /\ t.judge_fn \in Nat /\ t.judge_fp \in Nat /\ t.judge_tn \in Nat
      /\ t.root_correct \in Nat /\ t.diagnosable_cases \in Nat
  BY DEF Tallies
<1>9. s.diagnosable_cases = Cardinality(Incidents(n + 1))
  BY <1>2, <1>5, <1>6, <1>7 DEF One
<1>10. s.tp + s.fn = s.diagnosable_cases /\ s.tp + s.fn + s.fp + s.tn = n + 1
  BY <1>5, <1>6, <1>7, <1>8 DEF One
<1>11. s.root_correct <= s.tp
  BY <1>5, <1>6, <1>7, <1>8 DEF One
<1>12. s.judge_tp + s.judge_fn + s.judge_fp + s.judge_tn = n + 1
  BY <1>5, <1>7, <1>8 DEF One
<1> QED
  BY <1>1, <1>9, <1>10, <1>11, <1>12 DEF AddUp

\* While recorded runs are scored, a pass without a violation was over a trail
\* that obeys the rule, the only one recorded for the case if each has one.
LEMMA ScoreSpeaks ==
  ASSUME ReportTypeInv, metrics = <<>>,
         ids(goldens) = ids(recorded),
         NEW n \in Nat, n + 1 \in 1..Len(goldens), GateSpeaks(tally, n),
         NEW run, run = run_by_id(goldens[n + 1].case_id)
  PROVE  GateSpeaks(score(tally, goldens[n + 1], run), n + 1)
<1> DEFINE golden == goldens[n + 1]
           causal == causal_trail_is_valid(golden.alerted_service, run.trail)
<1>1. PICK s : s = score(tally, golden, run)
  OBVIOUS
<1>2. s.causal_violations = tally.causal_violations + One(~causal)
  BY <1>1 DEF score
<1>3. tally.causal_violations \in Nat
  BY DEF ReportTypeInv, Tallies
<1>4. s.causal_violations = 0 => tally.causal_violations = 0 /\ causal
  BY <1>2, <1>3 DEF One
<1>5. runs = recorded
  BY DEF ReportTypeInv
<1>6. golden.case_id \in ids(runs)
  BY <1>5 DEF ids
<1>7. PICK k \in 1..Len(recorded) : run = recorded[k] /\ recorded[k].case_id = golden.case_id
  BY <1>5, <1>6, RunOfCase
<1> SUFFICES ASSUME Distinct(recorded), s.causal_violations = 0,
                    NEW i \in 1..n + 1, NEW j \in 1..Len(recorded),
                    goldens[i].case_id = recorded[j].case_id
             PROVE  causal_trail_is_valid(goldens[i].alerted_service, recorded[j].trail)
  BY <1>1 DEF GateSpeaks
<1>8. CASE i \in 1..n
  BY <1>4, <1>8 DEF GateSpeaks
<1>9. CASE i = n + 1
  <2>1. j = k
    BY <1>7, <1>9 DEF Distinct
  <2> QED
    BY <1>4, <1>7, <1>9, <2>1
<1> QED
  BY <1>8, <1>9

\* A baseline run of a case breaks no rule, finds an incident, and is labelled
\* and judged alike.
LEMMA BaselineRun ==
  ASSUME NEW golden \in Goldens, NEW run, run = baseline_run(golden)
  PROVE  /\ causal_trail_is_valid(golden.alerted_service, run.trail)
         /\ predicted_incident(run)
         /\ root_matches(golden, run) <=> golden.expected_root = golden.alerted_service
         /\ run.quality_label = run.judge_prediction
<1>1. golden.alerted_service \in Services /\ golden.alerted_service # NoRoot
  BY NoRootAssumption DEF Goldens
<1>2. /\ run.concluded_root = golden.alerted_service
      /\ run.trail = <<[queried |-> golden.alerted_service, discovered |-> {}]>>
      /\ run.quality_label = run.judge_prediction
  BY DEF baseline_run, baseline_trail
<1>3. causal_trail_is_valid(golden.alerted_service, run.trail)
  BY <1>2 DEF causal_trail_is_valid
<1>4. predicted_incident(run)
  BY <1>1, <1>2 DEF predicted_incident
<1>5. root_matches(golden, run) <=> golden.expected_root = golden.alerted_service
  BY <1>1, <1>2 DEF root_matches, is_incident
<1> QED
  BY <1>2, <1>3, <1>4, <1>5

\* While the baseline is scored, a case meets its own run if no other has its id.
LEMMA ScoreIsAsItIs ==
  ASSUME ReportTypeInv, metrics # <<>>,
         NEW n \in Nat, n + 1 \in 1..Len(goldens), AsItIs(tally, n),
         NEW run, run = run_by_id(goldens[n + 1].case_id)
  PROVE  AsItIs(score(tally, goldens[n + 1], run), n + 1)
<1> SUFFICES ASSUME Distinct(goldens)
             PROVE  AsItIs(score(tally, goldens[n + 1], run), n + 1)
  BY DEF AsItIs
<1> DEFINE golden == goldens[n + 1]
           named == golden.expected_root = golden.alerted_service
<1>1. PICK s : s = score(tally, golden, run)
  OBVIOUS
<1>2. golden \in Goldens
  BY DEF ReportTypeInv
<1>3. /\ Len(runs) = Len(goldens)
      /\ \A i \in 1..Len(goldens) : /\ runs[i] = baseline_run(goldens[i])
                                    /\ runs[i].case_id = goldens[i].case_id
  BY DEF ReportTypeInv, alerted_service_baseline, baseline_run
<1>4. golden.case_id \in ids(runs)
  BY <1>3 DEF ids
<1>5. run = baseline_run(golden)
  <2>1. PICK j \in 1..Len(runs) : run = runs[j] /\ runs[j].case_id = golden.case_id
    BY <1>4, RunOfCase
  <2>2. j = n + 1
    BY <1>3, <2>1 DEF Distinct
  <2> QED
    BY <1>3, <2>1, <2>2
<1>6. /\ causal_trail_is_valid(golden.alerted_service, run.trail)
      /\ predicted_incident(run)
      /\ root_matches(golden, run) <=> named
      /\ run.quality_label = run.judge_prediction
  BY <1>2, <1>5, BaselineRun
<1>7. /\ s.causal_violations = tally.causal_violations + 0
      /\ s.judge_fp = tally.judge_fp + 0 /\ s.judge_fn = tally.judge_fn + 0
      /\ s.fn = tally.fn + 0 /\ s.tn = tally.tn + 0
      /\ s.root_correct = tally.root_correct + (IF named THEN 1 ELSE 0)
  BY <1>1, <1>6 DEF score, One
<1>8. /\ Cardinality(AlertNames(n + 1)) =
             Cardinality(AlertNames(n)) + (IF named THEN 1 ELSE 0)
  <2> DEFINE S == {i \in 1..n + 1 : goldens[i].expected_root = goldens[i].alerted_service}
  <2>1. /\ AlertNames(n) = (1..n) \cap S /\ AlertNames(n + 1) = (1..n + 1) \cap S
        /\ n + 1 \in S <=> named
    BY DEF AlertNames
  <2> HIDE DEF S
  <2> QED
    BY <2>1, CountNext
<1>9. /\ tally.causal_violations = 0 /\ tally.judge_fp = 0 /\ tally.judge_fn = 0
      /\ tally.fn = 0 /\ tally.tn = 0
      /\ tally.root_correct = Cardinality(AlertNames(n))
  BY DEF AsItIs
<1>10. /\ s.causal_violations = 0 /\ s.judge_fp = 0 /\ s.judge_fn = 0
       /\ s.fn = 0 /\ s.tn = 0
       /\ s.root_correct = Cardinality(AlertNames(n + 1))
  BY <1>7, <1>8, <1>9
<1> QED
  BY <1>1, <1>10 DEF AsItIs

\* What the files and the counters are said to be depends on nothing else.
LEMMA SameFiles ==
  ASSUME goldens' = goldens, recorded' = recorded
  PROVE  /\ \A m, n : AddUp(m, n)' <=> AddUp(m, n)
         /\ \A m, n : GateSpeaks(m, n)' <=> GateSpeaks(m, n)
         /\ \A m, n : AsItIs(m, n)' <=> AsItIs(m, n)
<1>1. \A n : Incidents(n)' = Incidents(n) /\ AlertNames(n)' = AlertNames(n)
  BY DEF Incidents, AlertNames, is_incident
<1> QED
  BY <1>1 DEF AddUp, GateSpeaks, AsItIs, Distinct

\* A report begins with the files, and nothing counted.
LEMMA InitReportInv == EvalInit => ReportInv
<1> SUFFICES ASSUME EvalInit PROVE ReportInv
  OBVIOUS
<1>1. \A S, n : SeqsUpTo(S, n) \subseteq Seq(S)
  BY DEF SeqsUpTo
<1>2. /\ goldens \in Seq(Goldens) /\ recorded \in Seq(Runs) /\ runs = recorded
      /\ scored = 0 /\ tally = Zero /\ metrics = <<>> /\ stage = "start"
  BY <1>1 DEF EvalInit
<1>3. ReportTypeInv
  BY <1>2, ZeroIsRight DEF ReportTypeInv
<1>4. CoverInv /\ TallyInv /\ GateInv /\ BaselineInv
  BY <1>2, ZeroIsRight DEF CoverInv, TallyInv, GateInv, BaselineInv
<1> QED
  BY <1>3, <1>4 DEF ReportInv

\* Files whose ids differ end it before anything is counted; the baseline's
\* runs are made from the cases, so theirs do not.
LEMMA CheckIdsInv ==
  ASSUME ReportInv, check_ids
  PROVE  ReportInv'
<1>1. /\ stage = "start"
      /\ stage' = IF ids(goldens) = ids(runs) THEN "scoring" ELSE "raised"
      /\ UNCHANGED <<goldens, recorded, runs, scored, tally, metrics>>
  BY DEF check_ids, require_same_case_ids
<1>2. metrics # <<>> => ids(goldens) = ids(runs)
  <2> SUFFICES ASSUME metrics # <<>> PROVE ids(goldens) = ids(runs)
    OBVIOUS
  <2>1. /\ Len(runs) = Len(goldens)
        /\ \A i \in 1..Len(goldens) : runs[i].case_id = goldens[i].case_id
    BY DEF ReportInv, ReportTypeInv, alerted_service_baseline, baseline_run
  <2> QED
    BY <2>1 DEF ids
<1>3. metrics = <<>> => runs = recorded
  BY DEF ReportInv, ReportTypeInv
<1>4. ReportTypeInv'
  BY <1>1 DEF ReportInv, ReportTypeInv, alerted_service_baseline, baseline_run,
              baseline_trail, Goldens, Runs, Roots
<1>5. CoverInv'
  <2>1. ids(goldens)' = ids(goldens) /\ ids(recorded)' = ids(recorded)
    BY <1>1 DEF ids
  <2>2. Len(metrics) \in 0..1 /\ (metrics # <<>> => ids(goldens) = ids(recorded) /\ goldens # <<>>)
    BY <1>1 DEF ReportInv, CoverInv
  <2>3. stage' \in {"scoring", "raised"} /\ metrics' = metrics /\ goldens' = goldens
    BY <1>1
  <2>4. stage' = "scoring" => ids(goldens) = ids(recorded)
    BY <1>1, <1>3, <2>2
  <2>5. stage' = "raised" => metrics = <<>>
    BY <1>1, <1>2
  <2> QED
    BY <2>1, <2>2, <2>3, <2>4, <2>5 DEF CoverInv
<1>6. TallyInv' /\ GateInv' /\ BaselineInv'
  BY <1>1, SameFiles DEF ReportInv, TallyInv, GateInv, BaselineInv
<1> QED
  BY <1>4, <1>5, <1>6 DEF ReportInv

\* A case is scored.
LEMMA ScoreNextInv ==
  ASSUME ReportInv, score_next
  PROVE  ReportInv'
<1>1. PICK n, run, s :
         /\ n \in Nat /\ n = scored /\ n < Len(goldens)
         /\ run = run_by_id(goldens[n + 1].case_id)
         /\ s = score(tally, goldens[n + 1], run)
         /\ scored' = n + 1 /\ tally' = s
         /\ stage = "scoring"
         /\ UNCHANGED <<goldens, recorded, runs, metrics, stage>>
  BY DEF score_next, ReportInv, ReportTypeInv
<1>2. PICK l \in Nat : l = Len(goldens)
  BY DEF ReportInv, ReportTypeInv
<1>3. n + 1 \in 1..l /\ n + 1 \in 0..l
  BY <1>1, <1>2
<1>4. /\ ids(goldens) = ids(recorded) /\ Len(metrics) \in 0..1
      /\ tally \in Tallies /\ AddUp(tally, n)
  BY <1>1 DEF ReportInv, CoverInv, ReportTypeInv, TallyInv
<1>5. goldens[n + 1].case_id \in ids(runs)
  <2>1. ids(runs) = ids(goldens)
    <3>1. CASE metrics = <<>>
      BY <1>4, <3>1 DEF ReportInv, ReportTypeInv
    <3>2. CASE metrics # <<>>
      <4>1. /\ Len(runs) = Len(goldens)
            /\ \A i \in 1..Len(goldens) : runs[i].case_id = goldens[i].case_id
        BY <3>2 DEF ReportInv, ReportTypeInv, alerted_service_baseline, baseline_run
      <4> QED
        BY <4>1 DEF ids
    <3> QED
      BY <3>1, <3>2
  <2> QED
    BY <1>2, <1>3, <2>1 DEF ids
<1>6. run.quality_label \in BOOLEAN /\ run.judge_prediction \in BOOLEAN
  BY <1>1, <1>5, RunOfCase DEF ReportInv
<1>7. s \in Tallies /\ AddUp(s, n + 1)
  BY <1>1, <1>4, <1>6, ScoreIsTally, ScoreAddsUp
<1>8. metrics = <<>> => GateSpeaks(s, n + 1)
  BY <1>1, <1>2, <1>3, <1>4, ScoreSpeaks DEF ReportInv, GateInv
<1>9. Len(metrics) = 1 => AsItIs(s, n + 1)
  <2> SUFFICES ASSUME Len(metrics) = 1 PROVE AsItIs(s, n + 1)
    OBVIOUS
  <2>1. metrics # <<>>
    OBVIOUS
  <2>2. ReportTypeInv /\ AsItIs(tally, n)
    BY <1>1 DEF ReportInv, BaselineInv
  <2>3. n + 1 \in 1..Len(goldens)
    BY <1>2, <1>3
  <2> QED
    BY <1>1, <2>1, <2>2, <2>3, ScoreIsAsItIs
<1>10. ReportTypeInv'
  BY <1>1, <1>2, <1>3, <1>7 DEF ReportInv, ReportTypeInv, alerted_service_baseline,
              baseline_run, baseline_trail, Goldens, Runs, Roots
<1>11. CoverInv'
  BY <1>1 DEF ReportInv, CoverInv, ids
<1>12. TallyInv'
  BY <1>1, <1>7, SameFiles DEF ReportInv, TallyInv
<1>13. GateInv'
  BY <1>1, <1>8, SameFiles DEF ReportInv, GateInv
<1>14. BaselineInv'
  BY <1>1, <1>4, <1>9, SameFiles DEF ReportInv, BaselineInv
<1> QED
  BY <1>10, <1>11, <1>12, <1>13, <1>14 DEF ReportInv

\* No case at all: the mean has nothing to divide by, and nothing was returned.
LEMMA FinishRaisesInv ==
  ASSUME ReportInv, finish_raises
  PROVE  ReportInv'
<1>1. /\ stage = "scoring" /\ stage' = "raised" /\ goldens = <<>>
      /\ UNCHANGED <<goldens, recorded, runs, scored, tally, metrics>>
  BY DEF finish_raises
<1>2. metrics = <<>>
  BY <1>1 DEF ReportInv, CoverInv
<1>3. ReportTypeInv'
  BY <1>1, <1>2 DEF ReportInv, ReportTypeInv, Goldens, Runs, Roots
<1>4. CoverInv'
  BY <1>1, <1>2 DEF CoverInv
<1>5. TallyInv' /\ GateInv' /\ BaselineInv'
  BY <1>1, SameFiles DEF ReportInv, TallyInv, GateInv, BaselineInv
<1> QED
  BY <1>3, <1>4, <1>5 DEF ReportInv

\* The candidate's counters are returned, and the baseline's begin.
LEMMA CandidateScoredInv ==
  ASSUME ReportInv, candidate_scored
  PROVE  ReportInv'
<1>1. /\ stage = "scoring" /\ stage' = "start" /\ goldens # <<>> /\ metrics = <<>>
      /\ scored = Len(goldens) /\ metrics' = <<tally>> /\ scored' = 0 /\ tally' = Zero
      /\ runs' = alerted_service_baseline
      /\ UNCHANGED <<goldens, recorded>>
  BY DEF candidate_scored, all_scored
<1>2. PICK t \in Tallies, l \in Nat :
         /\ t = tally /\ l = Len(goldens) /\ metrics' = <<t>>
         /\ AddUp(t, l) /\ GateSpeaks(t, l)
         /\ ids(goldens) = ids(recorded)
  BY <1>1 DEF ReportInv, ReportTypeInv, TallyInv, GateInv, CoverInv
<1>3. metrics' \in Seq(Tallies) /\ Len(metrics') = 1 /\ metrics'[1] = t /\ metrics' # <<>>
  BY <1>2
<1>4. alerted_service_baseline' = alerted_service_baseline
  BY <1>1 DEF alerted_service_baseline, baseline_run, baseline_trail
<1>5. ReportTypeInv'
  BY <1>1, <1>2, <1>3, <1>4, ZeroIsRight DEF ReportInv, ReportTypeInv, Goldens, Runs, Roots
<1>6. CoverInv'
  <2>1. ids(goldens)' = ids(goldens) /\ ids(recorded)' = ids(recorded)
    BY <1>1 DEF ids
  <2> QED
    BY <1>1, <1>2, <1>3, <2>1 DEF CoverInv
<1>7. TallyInv' /\ GateInv' /\ BaselineInv'
  BY <1>1, <1>2, <1>3, SameFiles, ZeroIsRight DEF TallyInv, GateInv, BaselineInv
<1> QED
  BY <1>5, <1>6, <1>7 DEF ReportInv

\* What is appended to one comes second.
LEMMA TwoReturned ==
  ASSUME NEW T, NEW s \in Seq(T), Len(s) = 1, NEW x \in T
  PROVE  /\ Append(s, x) \in Seq(T) /\ Len(Append(s, x)) = 2
         /\ Append(s, x)[1] = s[1] /\ Append(s, x)[2] = x
<1>1. Append(s, x) \in Seq(T) /\ Append(s, x)[1] = s[1] /\ Append(s, x)[2] = x
  BY AppendProperties
<1>2. Len(s) + 1 = 2
  OBVIOUS
<1>3. Len(Append(s, x)) = Len(s) + 1
  BY AppendProperties
<1>4. Len(Append(s, x)) = 2
  BY <1>2, <1>3, Zenon
<1> QED
  BY <1>1, <1>4

\* The baseline's counters are returned: the report is written.
LEMMA BaselineScoredInv ==
  ASSUME ReportInv, baseline_scored
  PROVE  ReportInv'
<1>1. /\ stage = "scoring" /\ stage' = "written" /\ goldens # <<>> /\ metrics # <<>>
      /\ scored = Len(goldens) /\ metrics' = Append(metrics, tally)
      /\ UNCHANGED <<goldens, recorded, runs, scored, tally>>
  BY DEF baseline_scored, all_scored
<1>2. PICK t \in Tallies, l \in Nat, m \in Tallies :
         /\ t = tally /\ l = Len(goldens) /\ m = metrics[1] /\ Len(metrics) = 1
         /\ AddUp(m, l) /\ GateSpeaks(m, l)
         /\ AddUp(t, l) /\ AsItIs(t, l)
         /\ ids(goldens) = ids(recorded)
  <2>1. Len(metrics) = 1 /\ metrics \in Seq(Tallies) /\ metrics[1] \in Tallies /\ 1 \in 1..Len(metrics)
    BY <1>1 DEF ReportInv, ReportTypeInv, CoverInv
  <2> QED
    BY <1>1, <2>1 DEF ReportInv, ReportTypeInv, TallyInv, GateInv, CoverInv, BaselineInv
<1>3. /\ metrics' \in Seq(Tallies) /\ Len(metrics') = 2 /\ metrics'[1] = m /\ metrics'[2] = t
      /\ metrics' # <<>>
  <2>1. PICK returned \in Seq(Tallies) : returned = metrics /\ Len(returned) = 1
    <3>1. Len(metrics) = 1 /\ metrics \in Seq(Tallies)
      BY <1>2 DEF ReportInv, ReportTypeInv
    <3> QED
      BY <3>1
  <2>2. /\ Append(returned, t) \in Seq(Tallies) /\ Len(Append(returned, t)) = 2
        /\ Append(returned, t)[1] = returned[1] /\ Append(returned, t)[2] = t
    BY <2>1, TwoReturned
  <2>3. metrics' = Append(returned, t) /\ metrics' # <<>>
    BY <1>1, <1>2, <2>1, <2>2
  <2> QED
    BY <1>2, <2>1, <2>2, <2>3
<1>4. alerted_service_baseline' = alerted_service_baseline
  BY <1>1 DEF alerted_service_baseline, baseline_run, baseline_trail
<1>5. ReportTypeInv'
  BY <1>1, <1>3, <1>4 DEF ReportInv, ReportTypeInv, Goldens, Runs, Roots
<1>6. CoverInv'
  <2>1. ids(goldens)' = ids(goldens) /\ ids(recorded)' = ids(recorded)
    BY <1>1 DEF ids
  <2> QED
    BY <1>1, <1>2, <1>3, <2>1 DEF CoverInv
<1>7. TallyInv'
  BY <1>1, <1>2, <1>3, SameFiles DEF TallyInv
<1>8. GateInv' /\ BaselineInv'
  BY <1>1, <1>2, <1>3, SameFiles DEF GateInv, BaselineInv
<1> QED
  BY <1>5, <1>6, <1>7, <1>8 DEF ReportInv

\* Every step of write_report keeps the invariant.
LEMMA NextReportInv == ReportInv /\ [EvalNext]_evalVars => ReportInv'
<1> SUFFICES ASSUME ReportInv, [EvalNext]_evalVars PROVE ReportInv'
  OBVIOUS
<1>1. CASE UNCHANGED evalVars
  <2>1. UNCHANGED <<goldens, recorded, runs, scored, tally, metrics, stage>>
    BY <1>1 DEF evalVars
  <2>2. ReportTypeInv'
    BY <2>1 DEF ReportInv, ReportTypeInv, alerted_service_baseline,
                baseline_run, baseline_trail, Goldens, Runs, Roots
  <2>3. CoverInv'
    BY <2>1 DEF ReportInv, CoverInv, ids
  <2>4. TallyInv' /\ GateInv' /\ BaselineInv'
    BY <2>1, SameFiles DEF ReportInv, TallyInv, GateInv, BaselineInv
  <2> QED
    BY <2>2, <2>3, <2>4 DEF ReportInv
<1> QED
  BY <1>1, CheckIdsInv, ScoreNextInv, FinishRaisesInv, CandidateScoredInv, BaselineScoredInv
     DEF EvalNext

\* So does every report.
LEMMA ReportInvariance == EvalSpec => []ReportInv
  BY InitReportInv, NextReportInv, PTL DEF EvalSpec
--------------------------------------------------------------------------------
(* A report is written only for runs and cases that cover each other, its      *)
(* counters are over the same cases, and a hard gate E3 that passes speaks for *)
(* every recorded trail.                                                       *)
THEOREM ReportsCoverCases == EvalSpec => []ReportCoversCases
<1>1. ReportInv => ReportCoversCases
  <2> SUFFICES ASSUME ReportInv, stage = "written" PROVE
               /\ ids(goldens) = ids(recorded) /\ goldens # <<>> /\ Len(metrics) = 2
               /\ \A k \in 1..2 : AddUp(metrics[k], Len(goldens))
               /\ GateSpeaks(metrics[1], Len(goldens))
    BY DEF ReportCoversCases
  <2>1. Len(metrics) = 2 /\ metrics # <<>>
    BY DEF ReportInv, CoverInv
  <2> QED
    BY <2>1 DEF ReportInv, CoverInv, TallyInv, GateInv
<1> QED
  BY <1>1, ReportInvariance, PTL

(* The baseline agents are compared with never stops a report, and is scored   *)
(* as what it is, for any number of cases with ids of their own.               *)
THEOREM BaselineIsScored == EvalSpec => []BaselineScored
<1>1. ReportInv => BaselineScored
  BY DEF ReportInv, CoverInv, BaselineInv, BaselineScored
<1> QED
  BY <1>1, ReportInvariance, PTL
================================================================================
