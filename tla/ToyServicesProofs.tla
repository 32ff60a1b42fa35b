--------------------------- MODULE ToyServicesProofs ---------------------------
(* Proofs about ToyServices for every number of charges and fault switches.   *)
EXTENDS ToyServices, FiniteSetTheorems, TLAPS

Counts == [ok : Nat, failed : Nat]

Requests == [payment : {"none", "verifying", "answered"},
             verify : {"none", "sent", "read", "answered", "lost"}, failed : BOOLEAN]

TypeInv ==
    /\ auth \in Counts /\ payment \in Counts /\ timeouts \in Nat
    /\ charge \in [Charges -> Requests]
    /\ traffic \in [pc : {"new", "loop", "posting", "waiting", "pausing", "ended"},
                    charge : Charges \cup {NoCharge}]
    /\ stop_event \in BOOLEAN /\ fault_enabled \in BOOLEAN

(* Charges whose verification auth-service has counted as failed, or as a     *)
(* success, and payment-api still waits for.                                  *)
FailedWaiting ==
    {c \in Charges : /\ charge[c].verify = "answered" /\ charge[c].failed
                     /\ charge[c].payment = "verifying"}
OkWaiting ==
    {c \in Charges : /\ charge[c].verify = "answered" /\ ~charge[c].failed
                     /\ charge[c].payment = "verifying"}

(* What the two services have counted, and what payment-api is about to.      *)
CountInv ==
    /\ payment.failed + Cardinality(FailedWaiting) <= auth.failed + timeouts
    /\ payment.ok + Cardinality(OkWaiting) <= auth.ok

(* The late charge is the one the thread had decided on before stop.          *)
LateInv == late \in {0, 1} /\ (late = 1 => stop_event /\ traffic.pc # "posting")

IInv == TypeInv /\ CountInv /\ LateInv
--------------------------------------------------------------------------------
\* There are finitely many charges.
LEMMA FinitelyMany ==
  ASSUME NEW S \in SUBSET Charges
  PROVE  IsFiniteSet(S) /\ Cardinality(S) \in Nat
<1>1. IsFiniteSet(Charges)
  BY FS_Interval, BoundsAssumption DEF Charges
<1> QED
  BY <1>1, FS_Subset, FS_CardinalityType

\* So the charges that wait can be counted.
LEMMA WaitingCounts ==
  /\ IsFiniteSet(FailedWaiting) /\ Cardinality(FailedWaiting) \in Nat
  /\ IsFiniteSet(OkWaiting) /\ Cardinality(OkWaiting) \in Nat
  BY FinitelyMany DEF FailedWaiting, OkWaiting

\* No more verifications wait, one less, or one more.
LEMMA Fewer ==
  ASSUME NEW S, IsFiniteSet(S), NEW T, T \subseteq S
  PROVE  Cardinality(T) \in Nat /\ Cardinality(T) <= Cardinality(S)
  BY FS_Subset, FS_CardinalityType

\* A counted charge is counted no more.
LEMMA OneLess ==
  ASSUME NEW S, IsFiniteSet(S), NEW c \in S, NEW T, T \subseteq S \ {c}
  PROVE  Cardinality(T) \in Nat /\ Cardinality(T) <= Cardinality(S) - 1
<1>1. IsFiniteSet(S \ {c}) /\ Cardinality(S \ {c}) = Cardinality(S) - 1
  BY FS_RemoveElement
<1> QED
  BY <1>1, Fewer

\* A charge begins to be counted.
LEMMA OneMore ==
  ASSUME NEW S, IsFiniteSet(S), NEW c, NEW T, T \subseteq S \cup {c}
  PROVE  Cardinality(T) \in Nat /\ Cardinality(T) <= Cardinality(S) + 1
<1>1. IsFiniteSet(S \cup {c}) /\ Cardinality(S) \in Nat /\ Cardinality(S \cup {c}) \in Nat
  BY FS_AddElement, FS_CardinalityType
<1>2. Cardinality(S \cup {c}) <= Cardinality(S) + 1
  BY <1>1, FS_AddElement
<1>3. Cardinality(T) \in Nat /\ Cardinality(T) <= Cardinality(S \cup {c})
  BY <1>1, Fewer
<1> QED
  BY <1>1, <1>2, <1>3

\* Before the first charge.
LEMMA InitIInv == Init => IInv
<1> SUFFICES ASSUME Init PROVE IInv
  OBVIOUS
<1>1. TypeInv
  <2>1. auth \in Counts /\ payment \in Counts /\ timeouts \in Nat
    BY DEF Init, Counts
  <2>2. charge \in [Charges -> Requests]
    BY DEF Init, Requests
  <2>3. stop_event \in BOOLEAN /\ fault_enabled \in BOOLEAN
    BY Zenon DEF Init
  <2> QED
    BY <2>1, <2>2, <2>3 DEF Init, TypeInv
<1>2. FailedWaiting = {} /\ OkWaiting = {}
  BY DEF Init, FailedWaiting, OkWaiting
<1>3. CountInv
  <2>1. Cardinality(FailedWaiting) = 0 /\ Cardinality(OkWaiting) = 0
    BY <1>2, FS_EmptySet
  <2> QED
    BY <2>1 DEF Init, CountInv
<1>4. LateInv
  BY DEF Init, LateInv
<1> QED
  BY <1>1, <1>3, <1>4 DEF IInv

\* Every variable keeps its type; a post finds room for its charge.
LEMMA StepTypes == TypeInv /\ [Next]_vars => TypeInv'
<1> SUFFICES ASSUME TypeInv, [Next]_vars PROVE TypeInv'
  OBVIOUS
<1> USE DEF TypeInv, services, generator, counters
<1>1. ASSUME NEW enabled \in BOOLEAN, set_fault(enabled) PROVE TypeInv'
  BY <1>1 DEF set_fault
<1>2. ASSUME NEW c \in Charges, read_fault(c) PROVE TypeInv'
  <2>1. [charge[c] EXCEPT !.verify = "read", !.failed = fault_enabled] \in Requests
    BY DEF Requests
  <2> QED
    BY <1>2, <2>1 DEF read_fault
<1>3. ASSUME NEW counts \in Counts, NEW b \in BOOLEAN PROVE record(counts, b) \in Counts
  BY DEF record, Counts
<1>4. ASSUME NEW c \in Charges, record_verify(c) PROVE TypeInv'
  <2>1. [charge[c] EXCEPT !.verify = "answered"] \in Requests /\ (~charge[c].failed) \in BOOLEAN
    BY DEF Requests
  <2> QED
    <3>1. charge' \in [Charges -> Requests]
      BY <1>4, <2>1 DEF record_verify
    <3>2. auth' \in Counts
      BY <1>3, <1>4, <2>1 DEF record_verify
    <3> QED
      BY <1>4, <3>1, <3>2 DEF record_verify
<1>5. ASSUME NEW c \in Charges, charge_verified(c) PROVE TypeInv'
  <2>1. [charge[c] EXCEPT !.payment = "answered"] \in Requests /\ (~charge[c].failed) \in BOOLEAN
    BY DEF Requests
  <2> QED
    <3>1. charge' \in [Charges -> Requests]
      BY <1>5, <2>1 DEF charge_verified
    <3>2. payment' \in Counts
      BY <1>3, <1>5, <2>1 DEF charge_verified
    <3> QED
      BY <1>5, <3>1, <3>2 DEF charge_verified
<1>6. ASSUME NEW c \in Charges, charge_times_out(c) PROVE TypeInv'
  <2>1. PICK reached \in BOOLEAN :
           charge' = [charge EXCEPT ![c].payment = "answered",
                                    ![c].verify = IF @ = "sent" /\ ~reached THEN "lost" ELSE @]
    BY <1>6 DEF charge_times_out
  <2>2. charge' \in [Charges -> Requests]
    BY <2>1 DEF Requests
  <2>3. payment' \in Counts
    BY <1>3, <1>6 DEF charge_times_out, gave_up
  <2> QED
    BY <1>6, <2>2, <2>3 DEF charge_times_out
<1>7. CASE post
  <2>1. begun + 1 \in Charges
    BY <1>7, FinitelyMany, BoundsAssumption DEF post, begun, Charges
  <2>2. traffic' \in [pc : {"new", "loop", "posting", "waiting", "pausing", "ended"},
                      charge : Charges \cup {NoCharge}]
    BY <1>7, <2>1 DEF post
  <2>3. charge' \in [Charges -> Requests]
    BY <1>7, <2>1 DEF post, Requests
  <2> QED
    BY <1>7, <2>2, <2>3 DEF post
<1>8. CASE start \/ loop \/ post_fails \/ post_ends \/ pause_ends \/ stop \/ join_returns
  <2>1. traffic' \in [pc : {"new", "loop", "posting", "waiting", "pausing", "ended"},
                      charge : Charges \cup {NoCharge}]
    BY <1>8 DEF start, loop, post_fails, post_ends, pause_ends, stop, join_returns
  <2>2. stop_event' \in BOOLEAN
    BY <1>8 DEF start, loop, post_fails, post_ends, pause_ends, stop, join_returns
  <2> QED
    BY <1>8, <2>1, <2>2 DEF start, loop, post_fails, post_ends, pause_ends, stop, join_returns
<1>9. CASE UNCHANGED vars
  BY <1>9 DEF vars
<1> QED
  BY <1>1, <1>2, <1>3, <1>4, <1>5, <1>6, <1>7, <1>8, <1>9
  DEF Next, auth_service, payment_api, traffic_thread

\* Each outcome payment-api counts was counted by auth-service, or timed out.
LEMMA StepCounts == TypeInv /\ CountInv /\ [Next]_vars => CountInv'
<1> SUFFICES ASSUME TypeInv, CountInv, [Next]_vars PROVE CountInv'
  OBVIOUS
<1> USE DEF services, generator, counters
<1>1. /\ auth.ok \in Nat /\ auth.failed \in Nat /\ payment.ok \in Nat /\ payment.failed \in Nat
      /\ timeouts \in Nat
      /\ IsFiniteSet(FailedWaiting) /\ Cardinality(FailedWaiting) \in Nat
      /\ IsFiniteSet(OkWaiting) /\ Cardinality(OkWaiting) \in Nat
  BY WaitingCounts DEF TypeInv, Counts
<1>2. ASSUME FailedWaiting' \subseteq FailedWaiting, OkWaiting' \subseteq OkWaiting,
             UNCHANGED <<auth, payment, timeouts>>
      PROVE  CountInv'
  <2>1. /\ Cardinality(FailedWaiting') \in Nat /\ Cardinality(OkWaiting') \in Nat
        /\ Cardinality(FailedWaiting') <= Cardinality(FailedWaiting)
        /\ Cardinality(OkWaiting') <= Cardinality(OkWaiting)
    BY <1>1, <1>2, Fewer
  <2> QED
    BY <1>1, <1>2, <2>1 DEF CountInv
<1>3. ASSUME UNCHANGED <<charge, auth, payment, timeouts>> PROVE CountInv'
  BY <1>2, <1>3 DEF FailedWaiting, OkWaiting
<1>4. ASSUME NEW c \in Charges, read_fault(c) PROVE CountInv'
  <2>1. /\ \A d \in Charges \ {c} : charge'[d] = charge[d]
        /\ charge'[c].verify = "read" /\ UNCHANGED <<auth, payment, timeouts>>
    BY <1>4 DEF read_fault, TypeInv, Requests
  <2> QED
    BY <1>2, <2>1 DEF FailedWaiting, OkWaiting
<1>5. ASSUME NEW c \in Charges, record_verify(c) PROVE CountInv'
  <2>1. /\ \A d \in Charges \ {c} : charge'[d] = charge[d]
        /\ charge'[c].failed = charge[c].failed /\ UNCHANGED <<payment, timeouts>>
    BY <1>5 DEF record_verify, TypeInv, Requests
  <2>2. CASE charge[c].failed
    <3>1. auth'.failed = auth.failed + 1 /\ auth'.ok = auth.ok
      BY <1>5, <2>2 DEF record_verify, record, TypeInv, Counts
    <3>2. FailedWaiting' \subseteq FailedWaiting \cup {c} /\ OkWaiting' \subseteq OkWaiting
      BY <2>1, <2>2 DEF FailedWaiting, OkWaiting
    <3>3. /\ Cardinality(FailedWaiting') \in Nat /\ Cardinality(OkWaiting') \in Nat
          /\ Cardinality(FailedWaiting') <= Cardinality(FailedWaiting) + 1
          /\ Cardinality(OkWaiting') <= Cardinality(OkWaiting)
      BY <1>1, <3>2, OneMore, Fewer
    <3> QED
      BY <1>1, <2>1, <3>1, <3>3 DEF CountInv
  <2>3. CASE ~charge[c].failed
    <3>1. auth'.ok = auth.ok + 1 /\ auth'.failed = auth.failed
      BY <1>5, <2>3 DEF record_verify, record, TypeInv, Counts
    <3>2. FailedWaiting' \subseteq FailedWaiting /\ OkWaiting' \subseteq OkWaiting \cup {c}
      BY <2>1, <2>3 DEF FailedWaiting, OkWaiting
    <3>3. /\ Cardinality(FailedWaiting') \in Nat /\ Cardinality(OkWaiting') \in Nat
          /\ Cardinality(FailedWaiting') <= Cardinality(FailedWaiting)
          /\ Cardinality(OkWaiting') <= Cardinality(OkWaiting) + 1
      BY <1>1, <3>2, OneMore, Fewer
    <3> QED
      BY <1>1, <2>1, <3>1, <3>3 DEF CountInv
  <2> QED
    BY <2>2, <2>3
<1>6. ASSUME NEW c \in Charges, charge_verified(c) PROVE CountInv'
  <2>1. /\ \A d \in Charges \ {c} : charge'[d] = charge[d]
        /\ charge'[c].payment = "answered" /\ UNCHANGED <<auth, timeouts>>
    BY <1>6 DEF charge_verified, TypeInv, Requests
  <2>2. charge[c].payment = "verifying" /\ charge[c].verify = "answered"
    BY <1>6 DEF charge_verified, verified
  <2>3. FailedWaiting' \subseteq FailedWaiting \ {c} /\ OkWaiting' \subseteq OkWaiting \ {c}
    BY <2>1 DEF FailedWaiting, OkWaiting
  <2>4. CASE charge[c].failed
    <3>1. payment'.failed = payment.failed + 1 /\ payment'.ok = payment.ok
      BY <1>6, <2>4 DEF charge_verified, record, TypeInv, Counts
    <3>2. c \in FailedWaiting
      BY <2>2, <2>4 DEF FailedWaiting
    <3>3. /\ Cardinality(FailedWaiting') \in Nat /\ Cardinality(OkWaiting') \in Nat
          /\ Cardinality(FailedWaiting') <= Cardinality(FailedWaiting) - 1
          /\ Cardinality(OkWaiting') <= Cardinality(OkWaiting)
      BY <1>1, <2>3, <3>2, OneLess, Fewer
    <3> QED
      BY <1>1, <2>1, <3>1, <3>3 DEF CountInv
  <2>5. CASE ~charge[c].failed
    <3>1. payment'.ok = payment.ok + 1 /\ payment'.failed = payment.failed
      BY <1>6, <2>5 DEF charge_verified, record, TypeInv, Counts
    <3>2. c \in OkWaiting
      BY <2>2, <2>5 DEF OkWaiting
    <3>3. /\ Cardinality(FailedWaiting') \in Nat /\ Cardinality(OkWaiting') \in Nat
          /\ Cardinality(FailedWaiting') <= Cardinality(FailedWaiting)
          /\ Cardinality(OkWaiting') <= Cardinality(OkWaiting) - 1
      BY <1>1, <2>3, <3>2, OneLess, Fewer
    <3> QED
      BY <1>1, <2>1, <3>1, <3>3 DEF CountInv
  <2> QED
    BY <2>4, <2>5
<1>7. ASSUME NEW c \in Charges, charge_times_out(c) PROVE CountInv'
  <2>1. /\ \A d \in Charges \ {c} : charge'[d] = charge[d]
        /\ charge'[c].payment = "answered"
        /\ timeouts' = timeouts + 1 /\ UNCHANGED auth
    BY <1>7 DEF charge_times_out, TypeInv, Requests
  <2>2. payment'.failed = payment.failed + 1 /\ payment'.ok = payment.ok
    BY <1>7 DEF charge_times_out, gave_up, record, TypeInv, Counts
  <2>3. FailedWaiting' \subseteq FailedWaiting /\ OkWaiting' \subseteq OkWaiting
    BY <2>1 DEF FailedWaiting, OkWaiting
  <2>4. /\ Cardinality(FailedWaiting') \in Nat /\ Cardinality(OkWaiting') \in Nat
        /\ Cardinality(FailedWaiting') <= Cardinality(FailedWaiting)
        /\ Cardinality(OkWaiting') <= Cardinality(OkWaiting)
    BY <1>1, <2>3, Fewer
  <2> QED
    BY <1>1, <2>1, <2>2, <2>4 DEF CountInv
<1>8. CASE post
  <2>1. PICK c : c = begun + 1
    OBVIOUS
  <2>2. /\ charge' = [charge EXCEPT ![c].payment = "verifying", ![c].verify = "sent"]
        /\ UNCHANGED <<auth, payment, timeouts>>
    BY <1>8, <2>1 DEF post
  <2>3. \A d \in Charges : charge'[d] = charge[d] \/ charge'[d].verify = "sent"
    BY <2>2 DEF TypeInv, Requests
  <2> QED
    BY <1>2, <2>2, <2>3 DEF FailedWaiting, OkWaiting
<1> QED
  BY <1>3, <1>4, <1>5, <1>6, <1>7, <1>8
  DEF Next, auth_service, payment_api, traffic_thread, set_fault, start, loop, post_fails,
      post_ends, pause_ends, stop, join_returns, vars

\* Once stop is called the thread leaves its loop the next time it looks.
LEMMA StepLate == TypeInv /\ LateInv /\ [Next]_vars => LateInv'
<1> SUFFICES ASSUME TypeInv, LateInv, [Next]_vars PROVE LateInv'
  OBVIOUS
<1> USE DEF TypeInv, LateInv, services, generator, counters
<1>1. CASE loop
  BY <1>1 DEF loop
<1>2. CASE post
  BY <1>2 DEF post
<1>3. CASE start \/ post_fails \/ post_ends \/ pause_ends
  BY <1>3 DEF start, post_fails, post_ends, pause_ends
<1>4. CASE stop \/ join_returns
  BY <1>4 DEF stop, join_returns
<1>5. CASE UNCHANGED <<late, stop_event, traffic>>
  BY <1>5
<1> QED
  BY <1>1, <1>2, <1>3, <1>4, <1>5
  DEF Next, auth_service, payment_api, traffic_thread, set_fault, read_fault, record_verify,
      charge_verified, charge_times_out, vars

\* Each conjunct is kept with the help of the others.
LEMMA Inductive == Spec => []IInv
<1>1. IInv /\ [Next]_vars => IInv'
  BY StepTypes, StepCounts, StepLate DEF IInv
<1> QED
  BY InitIInv, <1>1, PTL DEF Spec

--------------------------------------------------------------------------------
\* Every payment outcome a scrape sees is explained by one of auth-service, or
\* by a timeout.
THEOREM FailuresAreExplained == Spec => []FailuresExplained
<1>1. IInv => FailuresExplained
  <2> SUFFICES ASSUME IInv PROVE FailuresExplained
    OBVIOUS
  <2>1. /\ auth.ok \in Nat /\ auth.failed \in Nat /\ payment.ok \in Nat /\ payment.failed \in Nat
        /\ timeouts \in Nat
    BY DEF IInv, TypeInv, Counts
  <2> QED
    BY <2>1, WaitingCounts DEF IInv, CountInv, FailuresExplained
<1> QED
  BY <1>1, Inductive, PTL

\* At most one charge is posted after stop.
THEOREM AtMostOneLateCharge == Spec => []OneLateCharge
<1>1. IInv => OneLateCharge
  BY DEF IInv, LateInv, OneLateCharge
<1> QED
  BY <1>1, Inductive, PTL

\* Steps of the traffic thread that are left once stop was called.
StepsLeft ==
    [pc \in {"posting", "waiting", "pausing", "loop", "ended"} |->
        CASE pc = "posting" -> 4 [] pc = "waiting" -> 3 [] pc = "pausing" -> 2
          [] pc = "loop" -> 1 [] pc = "ended" -> 0]

StopAdvances ==
    [][stop_event =>
          /\ traffic.pc \in DOMAIN StepsLeft /\ traffic'.pc \in DOMAIN StepsLeft /\ stop_event'
          /\ traffic' # traffic => StepsLeft[traffic'.pc] < StepsLeft[traffic.pc]
          /\ traffic' = traffic => ~traffic_thread]_vars

\* Where the traffic thread goes from where it is.
LEMMA ThreadMoves ==
  ASSUME TypeInv, traffic_thread
  PROVE  /\ stop_event' = stop_event
         /\ \/ traffic.pc = "new" /\ traffic'.pc = "loop"
            \/ traffic.pc = "loop" /\ traffic'.pc = IF stop_event THEN "ended" ELSE "posting"
            \/ traffic.pc = "posting" /\ traffic'.pc \in {"waiting", "pausing"}
            \/ traffic.pc = "waiting" /\ traffic'.pc = "pausing"
            \/ traffic.pc = "pausing" /\ traffic'.pc = "loop"
<1>1. /\ traffic \in [pc : {"new", "loop", "posting", "waiting", "pausing", "ended"},
                       charge : Charges \cup {NoCharge}]
      /\ stop_event \in BOOLEAN
  BY DEF TypeInv
<1>2. CASE start
  BY <1>1, <1>2 DEF start
<1>3. CASE loop
  <2>1. CASE stop_event
    BY <1>1, <1>3, <2>1 DEF loop
  <2>2. CASE ~stop_event
    BY <1>1, <1>3, <2>2 DEF loop
  <2> QED
    BY <2>1, <2>2
<1>4. CASE post
  <2>1. PICK c : traffic' = [pc |-> "waiting", charge |-> c]
    BY <1>4 DEF post
  <2> QED
    BY <1>4, <2>1 DEF post
<1>5. CASE post_fails
  BY <1>1, <1>5 DEF post_fails
<1>6. CASE post_ends
  BY <1>6 DEF post_ends
<1>7. CASE pause_ends
  BY <1>1, <1>7 DEF pause_ends
<1> QED
  BY <1>2, <1>3, <1>4, <1>5, <1>6, <1>7 DEF traffic_thread

(* The safety half of TrafficEnds: wherever stop catches the thread, it has at *)
(* most four steps left, and nothing the services or an operator do gives it   *)
(* another.                                                                    *)
THEOREM StopIsFinite == Spec => StopAdvances
<1> DEFINE Started == stop_event => traffic.pc # "new"
<1>1. Init => Started
  BY Zenon DEF Init
<1>2. TypeInv /\ Started /\ [Next]_vars => Started'
  <2> SUFFICES ASSUME TypeInv, Started, [Next]_vars PROVE Started'
    OBVIOUS
  <2>1. CASE UNCHANGED generator
    BY <2>1 DEF generator
  <2>2. CASE traffic_thread
    BY <2>2, ThreadMoves
  <2>3. CASE stop \/ join_returns
    BY <2>3 DEF stop, join_returns
  <2>4. ASSUME NEW enabled, set_fault(enabled) PROVE UNCHANGED generator
    BY <2>4 DEF set_fault
  <2>5. ASSUME NEW c, auth_service(c) \/ payment_api(c) PROVE UNCHANGED generator
    BY <2>5 DEF auth_service, read_fault, record_verify, payment_api, charge_verified,
                charge_times_out
  <2>6. CASE Next
    BY <2>1, <2>2, <2>3, <2>4, <2>5, <2>6 DEF Next
  <2>7. CASE UNCHANGED vars
    BY <2>1, <2>7 DEF vars
  <2> QED
    BY <2>6, <2>7
<1>3. TypeInv /\ Started /\ Next /\ stop_event =>
        /\ traffic.pc \in DOMAIN StepsLeft /\ traffic'.pc \in DOMAIN StepsLeft /\ stop_event'
        /\ traffic' # traffic => StepsLeft[traffic'.pc] < StepsLeft[traffic.pc]
        /\ traffic' = traffic => ~traffic_thread
  <2> SUFFICES ASSUME TypeInv, Started, Next, stop_event
               PROVE  /\ traffic.pc \in DOMAIN StepsLeft /\ traffic'.pc \in DOMAIN StepsLeft
                      /\ stop_event'
                      /\ traffic' # traffic => StepsLeft[traffic'.pc] < StepsLeft[traffic.pc]
                      /\ traffic' = traffic => ~traffic_thread
    OBVIOUS
  <2>1. traffic.pc \in DOMAIN StepsLeft
    BY DEF TypeInv, StepsLeft
  <2>2. CASE traffic_thread
    <3>1. /\ StepsLeft["posting"] = 4 /\ StepsLeft["waiting"] = 3 /\ StepsLeft["pausing"] = 2
          /\ StepsLeft["loop"] = 1 /\ StepsLeft["ended"] = 0
          /\ DOMAIN StepsLeft = {"posting", "waiting", "pausing", "loop", "ended"}
      BY DEF StepsLeft
    <3>2. /\ stop_event' = stop_event
          /\ \/ traffic.pc = "loop" /\ traffic'.pc = "ended"
             \/ traffic.pc = "posting" /\ traffic'.pc \in {"waiting", "pausing"}
             \/ traffic.pc = "waiting" /\ traffic'.pc = "pausing"
             \/ traffic.pc = "pausing" /\ traffic'.pc = "loop"
      BY <2>1, <2>2, ThreadMoves DEF StepsLeft
    <3> QED
      BY <3>1, <3>2
  <2>3. ASSUME traffic' = traffic PROVE ~traffic_thread
    <3>1. traffic.pc # "new" /\ stop_event
      OBVIOUS
    <3>2. traffic'.pc = traffic.pc
      BY <2>3
    <3>3. traffic_thread => traffic'.pc # traffic.pc
      BY <3>1, ThreadMoves
    <3> QED
      BY <3>2, <3>3
  <2>4. CASE UNCHANGED generator
    BY <2>1, <2>3, <2>4 DEF generator
  <2>5. CASE stop \/ join_returns
    <3>1. traffic' = traffic /\ stop_event'
      BY <2>5 DEF stop, join_returns
    <3> QED
      BY <2>1, <2>3, <3>1
  <2>6. ASSUME NEW enabled, set_fault(enabled) PROVE UNCHANGED generator
    BY <2>6 DEF set_fault
  <2>7. ASSUME NEW c, auth_service(c) \/ payment_api(c) PROVE UNCHANGED generator
    BY <2>7 DEF auth_service, read_fault, record_verify, payment_api, charge_verified,
                charge_times_out
  <2> QED
    BY <2>2, <2>4, <2>5, <2>6, <2>7 DEF Next
<1>4. Spec => []Started
  BY <1>1, <1>2, Inductive, PTL DEF Spec, IInv
<1> QED
  BY <1>3, <1>4, Inductive, PTL DEF Spec, StopAdvances, IInv
================================================================================
