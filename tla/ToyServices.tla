------------------------------ MODULE ToyServices ------------------------------
(* The breakable demo under services/: the traffic generator's thread charges *)
(* payment-api, which verifies each charge with auth-service, whose fault an  *)
(* operator switches; both count outcomes for Prometheus.  Requests are       *)
(* served on threads and outlive a client that has timed out.  An operator    *)
(* whose name is another's with a suffix is a slip a change to the code could *)
(* make; no action uses it.                                                   *)
EXTENDS Integers, FiniteSets

CONSTANTS
    MaxCharges,  \* bound: charges posted
    MaxSwitches  \* bound: uses of the fault switch

ASSUME BoundsAssumption == MaxCharges \in Nat /\ MaxSwitches \in Nat

VARIABLES
    fault_enabled,  \* auth-service: ServiceRuntime._fault_enabled
    auth, payment,  \* the two ServiceRuntimes' counters, _ok and _failed
    traffic,        \* the generator's thread, and the charge it waits for
    stop_event,     \* TrafficGenerator._stop
    stopping,       \* TrafficGenerator.stop: "no", "joining" or "returned"
    charge,         \* per charge: payment-api's request and auth-service's
    switches,       \* history: uses of the fault switch
    timeouts,       \* history: verifications payment-api gave up on
    late            \* history: charges posted after stop_event was set

counters == <<auth, payment>>
services == <<fault_enabled, counters, charge, switches, timeouts>>
generator == <<traffic, stop_event, stopping, late>>
vars == <<services, generator>>

--------------------------------------------------------------------------------
Charges == 1..MaxCharges

NoCharge == 0

begun == Cardinality({c \in Charges : charge[c].payment # "none"})

Init ==
    /\ fault_enabled = FALSE
    /\ auth = [ok |-> 0, failed |-> 0] /\ payment = [ok |-> 0, failed |-> 0]
    /\ traffic = [pc |-> "new", charge |-> NoCharge]
    /\ stop_event = FALSE /\ stopping = "no"
    /\ charge = [c \in Charges |-> [payment |-> "none", verify |-> "none", failed |-> FALSE]]
    /\ switches = 0 /\ timeouts = 0 /\ late = 0

\* ServiceRuntime.record, under its lock.
record(counts, successful) ==
    IF successful THEN [counts EXCEPT !.ok = @ + 1] ELSE [counts EXCEPT !.failed = @ + 1]

--------------------------------------------------------------------------------
(* auth-service *)

\* POST /fault and POST /recover
set_fault(enabled) ==
    /\ switches < MaxSwitches /\ switches' = switches + 1
    /\ fault_enabled' = enabled
    /\ UNCHANGED <<counters, generator, charge, timeouts>>

\* VerifyEndpoint reads the switch in one critical section ...
read_fault(c) ==
    /\ charge[c].verify = "sent"
    /\ charge' = [charge EXCEPT ![c].verify = "read", ![c].failed = fault_enabled]
    /\ UNCHANGED <<fault_enabled, counters, generator, switches, timeouts>>

\* ... and counts the outcome in another, whoever still waits for it.
record_verify(c) ==
    /\ charge[c].verify = "read"
    /\ auth' = record(auth, ~charge[c].failed)
    /\ charge' = [charge EXCEPT ![c].verify = "answered"]
    /\ UNCHANGED <<fault_enabled, payment, generator, switches, timeouts>>

--------------------------------------------------------------------------------
(* payment-api *)

verified_early(c) == charge[c].verify \in {"read", "answered"}

verified(c) == charge[c].verify = "answered"

\* HttpAuthVerifier.verify gets the response; ChargeEndpoint counts it.
charge_verified(c) ==
    /\ charge[c].payment = "verifying"
    /\ verified(c)
    /\ payment' = record(payment, ~charge[c].failed)
    /\ charge' = [charge EXCEPT ![c].payment = "answered"]
    /\ UNCHANGED <<fault_enabled, auth, generator, switches, timeouts>>

\* An httpx error counts as a failed authentication.
gave_up(c) == payment' = record(payment, FALSE)

\* verify times out after a second; auth-service may serve it all the same, or
\* never have been reached.
charge_times_out(c) ==
    /\ charge[c].payment = "verifying"
    /\ gave_up(c)
    /\ timeouts' = timeouts + 1
    /\ \E reached \in BOOLEAN :
          charge' = [charge EXCEPT ![c].payment = "answered",
                                   ![c].verify = IF @ = "sent" /\ ~reached THEN "lost" ELSE @]
    /\ UNCHANGED <<fault_enabled, auth, generator, switches>>

--------------------------------------------------------------------------------
(* TrafficGenerator *)

start ==
    /\ traffic.pc = "new"
    /\ traffic' = [traffic EXCEPT !.pc = "loop"]
    /\ UNCHANGED <<services, stop_event, stopping, late>>

loop_unchecked ==
    /\ traffic.pc = "loop"
    /\ traffic' = [traffic EXCEPT !.pc = "posting"]
    /\ UNCHANGED <<services, stop_event, stopping, late>>

\* while not self._stop.is_set()
loop ==
    /\ traffic.pc = "loop"
    /\ traffic' = [traffic EXCEPT !.pc = IF stop_event THEN "ended" ELSE "posting"]
    /\ UNCHANGED <<services, stop_event, stopping, late>>

\* The charge reaches payment-api, which sends its verification.
post ==
    /\ traffic.pc = "posting"
    /\ begun < MaxCharges
    /\ LET c == begun + 1 IN
       /\ charge' = [charge EXCEPT ![c].payment = "verifying", ![c].verify = "sent"]
       /\ traffic' = [pc |-> "waiting", charge |-> c]
    /\ late' = IF stop_event THEN late + 1 ELSE late
    /\ UNCHANGED <<fault_enabled, counters, stop_event, stopping, switches, timeouts>>

\* httpx.HTTPError is passed over: payment-api cannot be reached.
post_fails ==
    /\ traffic.pc = "posting"
    /\ traffic' = [traffic EXCEPT !.pc = "pausing"]
    /\ UNCHANGED <<services, stop_event, stopping, late>>

\* The post returns, or times out while payment-api still works on it.
post_ends ==
    /\ traffic.pc = "waiting"
    /\ traffic' = [pc |-> "pausing", charge |-> NoCharge]
    /\ UNCHANGED <<services, stop_event, stopping, late>>

pause_ends_posting ==
    /\ traffic.pc = "pausing"
    /\ traffic' = [traffic EXCEPT !.pc = "posting"]
    /\ UNCHANGED <<services, stop_event, stopping, late>>

\* self._stop.wait(interval): elapsed, or cut short by stop.
pause_ends ==
    /\ traffic.pc = "pausing"
    /\ traffic' = [traffic EXCEPT !.pc = "loop"]
    /\ UNCHANGED <<services, stop_event, stopping, late>>

stop ==
    /\ stopping = "no" /\ traffic.pc # "new"
    /\ stop_event' = TRUE
    /\ stopping' = "joining"
    /\ UNCHANGED <<services, traffic, late>>

\* The thread has ended, or a second has passed.
join_returns ==
    /\ stopping = "joining"
    /\ stopping' = "returned"
    /\ UNCHANGED <<services, traffic, stop_event, late>>

--------------------------------------------------------------------------------
auth_service(c) == read_fault(c) \/ record_verify(c)

payment_api(c) == charge_verified(c) \/ charge_times_out(c)

traffic_thread == start \/ loop \/ post \/ post_fails \/ post_ends \/ pause_ends

Next ==
    \/ \E enabled \in BOOLEAN : set_fault(enabled)
    \/ \E c \in Charges : auth_service(c) \/ payment_api(c)
    \/ traffic_thread \/ stop \/ join_returns

\* The generator's thread runs, and its posts return or time out.  Nobody has to
\* break, mend or stop anything.
Spec == Init /\ [][Next]_vars /\ WF_vars(traffic_thread)

--------------------------------------------------------------------------------
(* Properties *)

\* What the victim's alert is computed from is explained by its dependency, at
\* every moment a scrape may see the two services: a payment fails only for an
\* authentication auth-service has itself counted as failed or one that timed
\* out, and succeeds only for one counted as a success.
FailuresExplained ==
    /\ payment.failed <= auth.failed + timeouts
    /\ payment.ok <= auth.ok

\* After stop is called the thread posts one charge at most, the one it had
\* already decided on.
OneLateCharge == late <= 1

\* The traffic thread ends after stop, even if the join has given up on it.
TrafficEnds == stop_event ~> traffic.pc = "ended"

================================================================================
