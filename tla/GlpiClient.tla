------------------------------- MODULE GlpiClient -------------------------------
(* The REST client of src/clients/glpi.py: a session opened lazily and shared *)
(* by every thread that calls the client (the tool node and the MCP server run *)
(* tools on threads), and the ticket writes.  GLPI itself and the network are  *)
(* external.  An operator whose name is another's with a suffix is a slip a    *)
(* change to the code could make; no action uses it.                           *)
EXTENDS Naturals, FiniteSets

CONSTANTS
    Threads,
    MaxCalls       \* bound: client calls in a behaviour

ASSUME MaxCallsAssumption == MaxCalls \in Nat

VARIABLES
    session_token,  \* GLPIClient.session_token
    call,           \* per thread: the method call it is in
    live,           \* GLPI: sessions it accepts
    opened,         \* GLPI: number of sessions it ever opened
    followups,      \* GLPI: followups created on the ticket
    solved,         \* GLPI: the ticket is solved
    calls,          \* history: method calls begun
    updates,        \* history: update_ticket calls begun
    acked,          \* history: update_ticket calls that returned
    mishaps         \* history: what has gone wrong around the client

server == <<live, opened, followups, solved>>
history == <<calls, updates, acked, mishaps>>
vars == <<session_token, call, server, history>>

--------------------------------------------------------------------------------
\* GLPI's tokens are numbered as it opens them; each call opens one at most.
Sessions == 1..MaxCalls

NoSession == 0

\* Two threads inside the client at once, a request or response lost, a session
\* GLPI ended on its own.
Mishaps == {"overlap", "loss", "expiry"}

\* Reads stand for get_ticket, get_ci and each request of get_ci_dependencies.
Methods == {"read", "update", "close", "kill"}

Idle == [pc |-> "idle", method |-> "read", token |-> NoSession, served |-> FALSE]

Init ==
    /\ session_token = NoSession
    /\ call = [t \in Threads |-> Idle]
    /\ live = {} /\ opened = 0
    /\ followups = 0 /\ solved = FALSE
    /\ calls = 0 /\ updates = 0 /\ acked = 0 /\ mishaps = {}

At(t, pc) == call[t].pc = pc

Goto(t, pc) == call' = [call EXCEPT ![t].pc = pc]

Return(t) == call' = [call EXCEPT ![t] = Idle]

needs_session_always == TRUE

\* _headers opens a session only for a client that holds none.
needs_session == session_token = NoSession

(* A method is called.  Writes come with a non-empty approval token:           *)
(* require_approval_token raises before anything else otherwise.  kill_session *)
(* returns at once without a session.                                          *)
begin(t, m) ==
    /\ At(t, "idle")
    /\ calls < MaxCalls /\ calls' = calls + 1
    /\ ~(m = "kill" /\ session_token = NoSession)
    /\ updates' = IF m = "update" THEN updates + 1 ELSE updates
    /\ call' = [call EXCEPT ![t] = [Idle EXCEPT !.method = m, !.pc = "called"]]
    /\ mishaps' = mishaps \cup {x \in {"overlap"} : \E u \in Threads \ {t} : ~At(u, "idle")}
    /\ UNCHANGED <<session_token, server, acked>>

\* _headers looks at the shared attribute, a second time for kill_session.
check_session(t) ==
    /\ At(t, "called")
    /\ Goto(t, IF needs_session THEN "init" ELSE "headers")
    /\ UNCHANGED <<session_token, server, history>>

open_session == opened' = opened + 1 /\ live' = live \cup {opened + 1}

\* initSession answers with a new token, which replaces whatever is there.
init_session(t) ==
    /\ At(t, "init")
    /\ open_session
    /\ session_token' = opened + 1
    /\ Goto(t, "headers")
    /\ UNCHANGED <<followups, solved, history>>

\* require_session_token reads the shared attribute again, and raises if
\* another thread's kill_session has cleared it in between.
headers(t) ==
    /\ At(t, "headers")
    /\ IF session_token = NoSession THEN Return(t)
       ELSE call' = [call EXCEPT ![t].pc = "sent", ![t].token = session_token]
    /\ UNCHANGED <<session_token, server, history>>

accepted(t) == call[t].token \in live

\* GLPI serves the request ...
serve(t) ==
    /\ At(t, "sent") /\ ~call[t].served
    /\ accepted(t)
    /\ call' = [call EXCEPT ![t].served = TRUE]
    /\ followups' = IF call[t].method = "update" THEN followups + 1 ELSE followups
    /\ solved' = (solved \/ call[t].method = "close")
    /\ live' = IF call[t].method = "kill" THEN live \ {call[t].token} ELSE live
    /\ UNCHANGED <<session_token, opened, history>>

\* Without raise_for_status a refused update is reported as done.
refused_unchecked(t) ==
    /\ At(t, "sent") /\ ~call[t].served
    /\ ~accepted(t)
    /\ acked' = acked + (IF call[t].method = "update" THEN 1 ELSE 0)
    /\ Return(t)
    /\ UNCHANGED <<session_token, server, calls, updates, mishaps>>

\* ... or refuses its session; raise_for_status raises and nothing is changed:
\* the stale token stays.  Other error statuses end the call as timeout does.
refused(t) ==
    /\ At(t, "sent") /\ ~call[t].served
    /\ ~accepted(t)
    /\ Return(t)
    /\ UNCHANGED <<session_token, server, history>>

answered(t) == At(t, "sent") /\ call[t].served

token_after(m) == IF m = "kill" THEN NoSession ELSE session_token

reported_never(m) == 0

reported_always(m) == 1

\* What a successful response adds to the updates reported as written.
reported(m) == IF m = "update" THEN 1 ELSE 0

\* A successful response arrives; only kill_session changes the client.
response(t) ==
    /\ answered(t)
    /\ session_token' = token_after(call[t].method)
    /\ acked' = acked + reported(call[t].method)
    /\ Return(t)
    /\ UNCHANGED <<server, calls, updates, mishaps>>

\* httpx raises a timeout, or raise_for_status an error GLPI answered with,
\* whether or not it has served the request; of initSession likewise.
timeout(t) ==
    /\ At(t, "init") \/ At(t, "sent")
    /\ Return(t)
    /\ mishaps' = mishaps \cup {"loss"}
    /\ UNCHANGED <<session_token, server, calls, updates, acked>>

\* The initSession response is lost after GLPI has opened the session.
init_lost(t) ==
    /\ At(t, "init")
    /\ open_session
    /\ Return(t)
    /\ mishaps' = mishaps \cup {"loss"}
    /\ UNCHANGED <<session_token, followups, solved, calls, updates, acked>>

\* GLPI ends an idle session.
expire ==
    /\ \E s \in live : live' = live \ {s}
    /\ mishaps' = mishaps \cup {"expiry"}
    /\ UNCHANGED <<session_token, call, opened, followups, solved, calls, updates, acked>>

work(t) == \/ check_session(t) \/ init_session(t) \/ headers(t) \/ serve(t)
           \/ refused(t) \/ response(t) \/ timeout(t) \/ init_lost(t)

Next ==
    \/ \E t \in Threads : (\E m \in Methods : begin(t, m)) \/ work(t)
    \/ expire

Spec == Init /\ [][Next]_vars

--------------------------------------------------------------------------------
(* Properties *)

\* Every variable keeps its type.
TypeOK ==
    /\ session_token \in Sessions \cup {NoSession}
    /\ call \in [Threads -> [pc : {"idle", "called", "init", "headers", "sent"}, method : Methods,
                             token : Sessions \cup {NoSession}, served : BOOLEAN]]
    /\ opened \in 0..calls /\ live \subseteq 1..opened
    /\ followups \in 0..MaxCalls /\ solved \in BOOLEAN
    /\ calls \in 0..MaxCalls /\ updates \in 0..calls /\ acked \in 0..updates
    /\ mishaps \subseteq Mishaps

\* Calls of update_ticket whose followup exists though they have not returned.
Unanswered ==
    Cardinality({t \in Threads : At(t, "sent") /\ call[t].method = "update" /\ call[t].served})

\* A write the client reports as done is in GLPI, and GLPI never holds more
\* followups than there were calls: the client itself never repeats a write.
AckedWritesApplied == acked + Unanswered <= followups /\ followups <= updates

\* Without lost responses GLPI holds exactly the followups reported or about
\* to be: a call that raised has written nothing.
FailedWritesWroteNothing == "loss" \notin mishaps => followups = acked + Unanswered

\* Used by one thread at a time and without losses, the client holds at most
\* one session, and it is the one it will kill: lazy opening leaks none, even
\* when GLPI ends sessions.
NoLeakedSession == mishaps \subseteq {"expiry"} => live \subseteq {session_token}

================================================================================
