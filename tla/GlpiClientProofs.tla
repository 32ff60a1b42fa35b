--------------------------- MODULE GlpiClientProofs ---------------------------
(* Proofs about GlpiClient for every set of threads, finite or not, and every *)
(* bound on the calls.                                                        *)
EXTENDS GlpiClient, FiniteSetTheorems, TLAPS

Calls == [pc : {"idle", "called", "init", "headers", "sent"}, method : Methods,
          token : Sessions \cup {NoSession}, served : BOOLEAN]

(* What a method call may still do: open a session, write its followup, or    *)
(* report the followup GLPI has written.                                      *)
May_open(c) == c.pc \in {"called", "init"}
May_write(c) == c.pc # "idle" /\ c.method = "update" /\ ~c.served
May_report(c) == c.pc = "sent" /\ c.method = "update" /\ c.served

Active == {t \in Threads : ~At(t, "idle")}
Opening == {t \in Threads : May_open(call[t])}
Writing == {t \in Threads : May_write(call[t])}
Reporting == {t \in Threads : May_report(call[t])}

Indicator(b) == IF b THEN 1 ELSE 0

(* Every session and followup was paid for by the begin of one call.          *)
CountInv ==
    /\ call \in [Threads -> Calls]
    /\ session_token \in Nat /\ opened \in Nat /\ followups \in Nat /\ calls \in 0..MaxCalls
    /\ updates \in Nat /\ acked \in Nat
    /\ IsFiniteSet(Active)
    /\ opened + Cardinality(Opening) <= calls
    /\ updates <= calls
    /\ followups + Cardinality(Writing) <= updates
    /\ acked + Cardinality(Reporting) <= followups
    /\ "loss" \notin mishaps => followups = acked + Cardinality(Reporting)

ServedInv == \A t \in Threads : call[t].served => At(t, "sent")

SessionsInv ==
    /\ session_token <= opened
    /\ live \subseteq 1..opened
    /\ solved \in BOOLEAN /\ mishaps \subseteq Mishaps

(* One thread at a time: the session it uses is the client's, and when it     *)
(* opens one, or GLPI has closed it, there is no other.                       *)
AloneInv ==
    /\ "overlap" \notin mishaps => \A t, u \in Active : t = u
    /\ mishaps \subseteq {"expiry"} =>
          /\ live \subseteq {session_token}
          /\ \A t \in Threads :
                /\ At(t, "init") => session_token = NoSession
                /\ At(t, "sent") => call[t].token = session_token
                /\ At(t, "sent") /\ call[t].served /\ call[t].method = "kill" => live = {}

IInv == CountInv /\ ServedInv /\ SessionsInv /\ AloneInv
--------------------------------------------------------------------------------
\* Adding an element to a finite set, or removing it, changes the size by one at most.
LEMMA CountChange ==
  ASSUME NEW S, IsFiniteSet(S), NEW T, NEW t, S \ {t} = T \ {t}
  PROVE  /\ IsFiniteSet(T)
         /\ Cardinality(S) \in Nat /\ Cardinality(T) \in Nat
         /\ Cardinality(T) = Cardinality(S) + Indicator(t \in T) - Indicator(t \in S)
<1> DEFINE R == S \ {t}
<1>1. IsFiniteSet(R) /\ Cardinality(R) = Cardinality(S) - Indicator(t \in S)
  <2>1. Cardinality(S) \in Nat
    BY FS_CardinalityType
  <2>2. IsFiniteSet(R) /\ Cardinality(R) = IF t \in S THEN Cardinality(S) - 1 ELSE Cardinality(S)
    BY FS_RemoveElement
  <2> QED
    BY <2>1, <2>2 DEF Indicator
<1>2. Cardinality(S) \in Nat /\ Cardinality(R) \in Nat
  BY <1>1, FS_CardinalityType
<1>3. CASE t \in T
  <2>1. T = R \cup {t} /\ t \notin R
    BY <1>3
  <2>2. IsFiniteSet(T) /\ Cardinality(T) = Cardinality(R) + 1
    BY <1>1, <2>1, FS_AddElement
  <2> QED
    BY <1>1, <1>2, <1>3, <2>2 DEF Indicator
<1>4. CASE t \notin T
  <2>1. T = R
    BY <1>4
  <2> QED
    BY <1>1, <1>2, <1>4, <2>1 DEF Indicator
<1> QED
  BY <1>3, <1>4

\* The thread's call becomes c, and the counts change as its two calls differ.
Changes(t, c) ==
    /\ call' \in [Threads -> Calls]
    /\ IsFiniteSet(Active)'
    /\ Cardinality(Opening)' = Cardinality(Opening)
          + Indicator(May_open(c)) - Indicator(May_open(call[t]))
    /\ Cardinality(Writing)' = Cardinality(Writing)
          + Indicator(May_write(c)) - Indicator(May_write(call[t]))
    /\ Cardinality(Reporting)' = Cardinality(Reporting)
          + Indicator(May_report(c)) - Indicator(May_report(call[t]))

\* What a step of one thread does to the counts depends on its call alone.
LEMMA ThreadStep ==
  ASSUME CountInv, NEW t \in Threads, NEW c \in Calls, call' = [call EXCEPT ![t] = c]
  PROVE  Changes(t, c)
<1> USE DEF CountInv
<1>1. call' \in [Threads -> Calls] /\ call'[t] = c /\ \A u \in Threads \ {t} : call'[u] = call[u]
  OBVIOUS
<1>2. IsFiniteSet(Opening) /\ IsFiniteSet(Writing) /\ IsFiniteSet(Reporting)
  <2>1. Opening \subseteq Active /\ Writing \subseteq Active /\ Reporting \subseteq Active
    BY DEF Opening, Writing, Reporting, Active, May_open, May_write, May_report, At
  <2> QED
    BY <2>1, FS_Subset
<1>3. /\ Active \ {t} = Active' \ {t} /\ Opening \ {t} = Opening' \ {t}
      /\ Writing \ {t} = Writing' \ {t} /\ Reporting \ {t} = Reporting' \ {t}
  BY <1>1 DEF Active, At, Opening, Writing, Reporting
<1>4. /\ t \in Opening <=> May_open(call[t])
      /\ t \in Opening' <=> May_open(c)
      /\ t \in Writing <=> May_write(call[t])
      /\ t \in Writing' <=> May_write(c)
      /\ t \in Reporting <=> May_report(call[t])
      /\ t \in Reporting' <=> May_report(c)
  BY <1>1 DEF Opening, Writing, Reporting
<1>5. IsFiniteSet(Active')
  BY <1>3, CountChange
<1>6. /\ Cardinality(Opening) \in Nat
      /\ Cardinality(Opening') = Cardinality(Opening)
            + Indicator(t \in Opening') - Indicator(t \in Opening)
  BY <1>2, <1>3, CountChange
<1>7. /\ Cardinality(Writing) \in Nat
      /\ Cardinality(Writing') = Cardinality(Writing)
            + Indicator(t \in Writing') - Indicator(t \in Writing)
  BY <1>2, <1>3, CountChange
<1>8. /\ Cardinality(Reporting) \in Nat
      /\ Cardinality(Reporting') = Cardinality(Reporting)
            + Indicator(t \in Reporting') - Indicator(t \in Reporting)
  BY <1>2, <1>3, CountChange
<1> QED
  BY <1>1, <1>4, <1>5, <1>6, <1>7, <1>8 DEF Changes, Indicator

\* A client that has just been made.
LEMMA InitIInv == Init => IInv
<1> SUFFICES ASSUME Init PROVE IInv
  OBVIOUS
<1> USE DEF Init, Idle, At
<1>1. Active = {} /\ Opening = {} /\ Writing = {} /\ Reporting = {}
  BY DEF Active, Opening, Writing, Reporting, May_open, May_write, May_report
<1>2. IsFiniteSet({}) /\ Cardinality({}) = 0
  BY FS_EmptySet
<1>3. CountInv
  <2>1. call \in [Threads -> Calls]
    BY DEF Calls, Methods, NoSession
  <2> QED
    BY <1>1, <1>2, <2>1, MaxCallsAssumption DEF CountInv, NoSession
<1>4. ServedInv
  BY DEF ServedInv
<1>5. SessionsInv
  <2>1. solved \in BOOLEAN
    BY Zenon
  <2>2. session_token <= opened /\ live \subseteq 1..opened /\ mishaps \subseteq Mishaps
    BY DEF NoSession
  <2> QED
    BY <2>1, <2>2 DEF SessionsInv
<1>6. AloneInv
  BY <1>1 DEF AloneInv
<1> QED
  BY <1>3, <1>4, <1>5, <1>6 DEF IInv

\* Each write is paid for: begun before it is served, served before it is reported.
LEMMA StepCounts == CountInv /\ ServedInv /\ SessionsInv /\ [Next]_vars => CountInv'
<1> SUFFICES ASSUME CountInv, ServedInv, SessionsInv, [Next]_vars PROVE CountInv'
  OBVIOUS
<1> USE DEF At, server, history
<1>1. /\ session_token \in 0..opened /\ opened \in Nat /\ opened <= calls /\ calls \in 0..MaxCalls
      /\ followups \in Nat /\ updates \in Nat /\ acked \in Nat
      /\ Cardinality(Opening) \in Nat /\ Cardinality(Writing) \in Nat
      /\ Cardinality(Reporting) \in Nat
  <2>1. IsFiniteSet(Opening) /\ IsFiniteSet(Writing) /\ IsFiniteSet(Reporting)
    <3>1. Opening \subseteq Active /\ Writing \subseteq Active /\ Reporting \subseteq Active
      BY DEF Opening, Writing, Reporting, Active, May_open, May_write, May_report
    <3> QED
      BY <3>1, FS_Subset DEF CountInv
  <2>2. Cardinality(Opening) \in Nat /\ Cardinality(Writing) \in Nat /\ Cardinality(Reporting) \in Nat
    BY <2>1, FS_CardinalityType
  <2> QED
    BY <2>2, MaxCallsAssumption DEF CountInv, SessionsInv
<1>2. ASSUME NEW t \in Threads, NEW m \in Methods, begin(t, m) PROVE CountInv'
  <2> DEFINE c == [Idle EXCEPT !.method = m, !.pc = "called"]
  <2>1. c \in Calls /\ c.pc = "called" /\ c.method = m /\ c.served = FALSE
    BY DEF Idle, Calls, Methods
  <2>2. call' = [call EXCEPT ![t] = c] /\ call[t].pc = "idle"
    BY <1>2 DEF begin
  <2> HIDE DEF c
  <2>3. /\ call' \in [Threads -> Calls] /\ IsFiniteSet(Active)'
        /\ Cardinality(Opening)' = Cardinality(Opening) + 1
        /\ Cardinality(Writing)' = Cardinality(Writing) + (IF m = "update" THEN 1 ELSE 0)
        /\ Cardinality(Reporting)' = Cardinality(Reporting)
    <3>1. Changes(t, c)
      BY <2>1, <2>2, ThreadStep
    <3> QED
      BY <1>1, <2>1, <2>2, <3>1 DEF Changes, May_open, May_write, May_report, Indicator
  <2>4. /\ calls' = calls + 1 /\ calls < MaxCalls
        /\ updates' = IF m = "update" THEN updates + 1 ELSE updates
        /\ "loss" \in mishaps' <=> "loss" \in mishaps
        /\ UNCHANGED <<session_token, opened, followups, acked>>
    BY <1>2 DEF begin
  <2> QED
    BY <1>1, <2>3, <2>4, MaxCallsAssumption DEF CountInv
<1>3. ASSUME NEW t \in Threads, check_session(t) PROVE CountInv'
  <2>1. PICK c \in Calls : /\ call' = [call EXCEPT ![t] = c] /\ call[t].pc = "called"
                           /\ c.pc \in {"init", "headers"} /\ c.method = call[t].method
                           /\ c.served = call[t].served /\ ~call[t].served
    <3> DEFINE c == [call[t] EXCEPT !.pc = IF needs_session THEN "init" ELSE "headers"]
    <3>1. call[t] \in Calls
      BY DEF CountInv
    <3>2. /\ c \in Calls /\ c.pc \in {"init", "headers"} /\ c.method = call[t].method
          /\ c.served = call[t].served
      BY <3>1 DEF Calls
    <3> QED
      BY <1>3, <3>2 DEF check_session, Goto, ServedInv
  <2>2. /\ call' \in [Threads -> Calls] /\ IsFiniteSet(Active)'
        /\ Cardinality(Opening)' <= Cardinality(Opening)
        /\ Cardinality(Writing)' = Cardinality(Writing)
        /\ Cardinality(Reporting)' = Cardinality(Reporting)
        /\ Cardinality(Opening)' \in Int
    <3>1. Changes(t, c)
      BY <2>1, ThreadStep
    <3> QED
      BY <1>1, <2>1, <3>1 DEF Changes, May_open, May_write, May_report, Indicator
  <2> QED
    BY <1>1, <1>3, <2>2 DEF check_session, CountInv
<1>4. Idle \in Calls /\ ~May_open(Idle) /\ ~May_write(Idle) /\ ~May_report(Idle)
  BY DEF Idle, Calls, Methods, May_open, May_write, May_report
<1>5. ASSUME NEW t \in Threads, init_session(t) PROVE CountInv'
  <2>1. PICK c \in Calls : /\ call' = [call EXCEPT ![t] = c] /\ call[t].pc = "init"
                           /\ c.pc = "headers" /\ c.method = call[t].method
                           /\ c.served = call[t].served /\ ~call[t].served
    <3> DEFINE c == [call[t] EXCEPT !.pc = "headers"]
    <3>1. call[t] \in Calls
      BY DEF CountInv
    <3>2. c \in Calls /\ c.pc = "headers" /\ c.method = call[t].method /\ c.served = call[t].served
      BY <3>1 DEF Calls
    <3> QED
      BY <1>5, <3>2 DEF init_session, Goto, ServedInv
  <2>2. /\ call' \in [Threads -> Calls] /\ IsFiniteSet(Active)'
        /\ Cardinality(Opening)' = Cardinality(Opening) - 1
        /\ Cardinality(Writing)' = Cardinality(Writing)
        /\ Cardinality(Reporting)' = Cardinality(Reporting)
    <3>1. Changes(t, c)
      BY <2>1, ThreadStep
    <3> QED
      BY <1>1, <2>1, <3>1 DEF Changes, May_open, May_write, May_report, Indicator
  <2>3. /\ opened' = opened + 1 /\ session_token' = opened + 1
        /\ UNCHANGED <<followups, calls, updates, acked, mishaps>>
    BY <1>5 DEF init_session, open_session
  <2> QED
    BY <1>1, <2>2, <2>3 DEF CountInv
<1>6. ASSUME NEW t \in Threads, headers(t) PROVE CountInv'
  <2>1. PICK c \in Calls : /\ call' = [call EXCEPT ![t] = c] /\ call[t].pc = "headers"
                           /\ ~call[t].served
                           /\ ~May_open(c) /\ ~May_report(c) /\ (May_write(c) => May_write(call[t]))
    <3>1. call[t].pc = "headers" /\ ~call[t].served
      BY <1>6 DEF headers, ServedInv
    <3>2. CASE session_token = NoSession
      BY <1>4, <1>6, <3>1, <3>2 DEF headers, Return
    <3>3. CASE session_token # NoSession
      <4> DEFINE c == [call[t] EXCEPT !.pc = "sent", !.token = session_token]
      <4>1. call[t] \in Calls /\ session_token \in Sessions
        <5>1. session_token \in Nat /\ session_token # 0 /\ session_token <= MaxCalls
          BY <1>1, <3>3, MaxCallsAssumption DEF NoSession
        <5> QED
          BY <5>1, MaxCallsAssumption DEF CountInv, Sessions
      <4>2. c \in Calls /\ c.pc = "sent" /\ c.method = call[t].method /\ c.served = call[t].served
        BY <4>1 DEF Calls
      <4> QED
        BY <1>6, <3>1, <3>3, <4>2 DEF headers, May_open, May_write, May_report
    <3> QED
      BY <3>2, <3>3
  <2>2. /\ call' \in [Threads -> Calls] /\ IsFiniteSet(Active)'
        /\ Cardinality(Opening)' = Cardinality(Opening)
        /\ Cardinality(Writing)' <= Cardinality(Writing) /\ Cardinality(Writing)' \in Int
        /\ Cardinality(Reporting)' = Cardinality(Reporting)
    <3>1. Changes(t, c)
      BY <2>1, ThreadStep
    <3> QED
      BY <1>1, <2>1, <3>1 DEF Changes, May_open, May_write, May_report, Indicator
  <2> QED
    BY <1>1, <1>6, <2>2 DEF headers, CountInv
<1>7. ASSUME NEW t \in Threads, serve(t) PROVE CountInv'
  <2>1. PICK c \in Calls : /\ call' = [call EXCEPT ![t] = c] /\ call[t].pc = "sent"
                           /\ ~call[t].served /\ c.served
                           /\ c.pc = "sent" /\ c.method = call[t].method
    <3> DEFINE c == [call[t] EXCEPT !.served = TRUE]
    <3>1. call[t] \in Calls
      BY DEF CountInv
    <3>2. c \in Calls /\ c.pc = call[t].pc /\ c.method = call[t].method /\ c.served
      BY <3>1 DEF Calls
    <3> QED
      BY <1>7, <3>2 DEF serve
  <2>2. /\ call' \in [Threads -> Calls] /\ IsFiniteSet(Active)'
        /\ Cardinality(Opening)' = Cardinality(Opening)
        /\ Cardinality(Writing)' = Cardinality(Writing) - (IF call[t].method = "update" THEN 1 ELSE 0)
        /\ Cardinality(Reporting)' = Cardinality(Reporting) + (IF call[t].method = "update" THEN 1 ELSE 0)
    <3>1. Changes(t, c)
      BY <2>1, ThreadStep
    <3> QED
      BY <1>1, <2>1, <3>1 DEF Changes, May_open, May_write, May_report, Indicator
  <2>3. /\ followups' = IF call[t].method = "update" THEN followups + 1 ELSE followups
        /\ UNCHANGED <<session_token, opened, calls, updates, acked, mishaps>>
    BY <1>7 DEF serve
  <2> QED
    BY <1>1, <2>2, <2>3 DEF CountInv
<1>8. ASSUME NEW t \in Threads, refused(t) PROVE CountInv'
  <2>1. call' = [call EXCEPT ![t] = Idle] /\ call[t].pc = "sent" /\ ~call[t].served
    BY <1>8 DEF refused, Return
  <2>2. /\ call' \in [Threads -> Calls] /\ IsFiniteSet(Active)'
        /\ Cardinality(Opening)' = Cardinality(Opening)
        /\ Cardinality(Writing)' <= Cardinality(Writing) /\ Cardinality(Writing)' \in Int
        /\ Cardinality(Reporting)' = Cardinality(Reporting)
    <3>1. Changes(t, Idle)
      BY <1>4, <2>1, ThreadStep
    <3> QED
      BY <1>1, <1>4, <2>1, <3>1 DEF Changes, May_open, May_write, May_report, Indicator
  <2> QED
    BY <1>1, <1>8, <2>2 DEF refused, CountInv
<1>9. ASSUME NEW t \in Threads, response(t) PROVE CountInv'
  <2>1. call' = [call EXCEPT ![t] = Idle] /\ call[t].pc = "sent" /\ call[t].served
    BY <1>9 DEF response, answered, Return
  <2>2. /\ call' \in [Threads -> Calls] /\ IsFiniteSet(Active)'
        /\ Cardinality(Opening)' = Cardinality(Opening)
        /\ Cardinality(Writing)' = Cardinality(Writing)
        /\ Cardinality(Reporting)' = Cardinality(Reporting) - (IF call[t].method = "update" THEN 1 ELSE 0)
    <3>1. Changes(t, Idle)
      BY <1>4, <2>1, ThreadStep
    <3> QED
      BY <1>1, <1>4, <2>1, <3>1 DEF Changes, May_open, May_write, May_report, Indicator
  <2>3. /\ acked' = acked + (IF call[t].method = "update" THEN 1 ELSE 0)
        /\ session_token' \in {NoSession, session_token}
        /\ UNCHANGED <<opened, followups, calls, updates, mishaps>>
    BY <1>9 DEF response, reported, token_after
  <2> QED
    BY <1>1, <2>2, <2>3 DEF CountInv, NoSession
<1>10. ASSUME NEW t \in Threads, timeout(t) \/ init_lost(t) PROVE CountInv'
  <2>1. call' = [call EXCEPT ![t] = Idle] /\ call[t].pc \in {"init", "sent"}
    BY <1>10 DEF timeout, init_lost, Return
  <2>2. /\ call' \in [Threads -> Calls] /\ IsFiniteSet(Active)'
        /\ Cardinality(Opening)' = Cardinality(Opening) - (IF call[t].pc = "init" THEN 1 ELSE 0)
        /\ Cardinality(Writing)' <= Cardinality(Writing) /\ Cardinality(Writing)' \in Int
        /\ Cardinality(Reporting)' <= Cardinality(Reporting) /\ Cardinality(Reporting)' \in Int
    <3>1. Changes(t, Idle)
      BY <1>4, <2>1, ThreadStep
    <3> QED
      BY <1>1, <1>4, <2>1, <3>1 DEF Changes, May_open, May_write, May_report, Indicator
  <2>3. /\ opened' \in {opened, opened + 1} /\ (opened' = opened + 1 => call[t].pc = "init")
        /\ "loss" \in mishaps'
        /\ UNCHANGED <<session_token, followups, calls, updates, acked>>
    BY <1>1, <1>10 DEF timeout, init_lost, open_session
  <2> QED
    BY <1>1, <2>2, <2>3 DEF CountInv
<1>11. ASSUME UNCHANGED <<call, session_token, opened, followups, calls, updates, acked>>,
              "loss" \in mishaps' <=> "loss" \in mishaps
       PROVE  CountInv'
  BY <1>11 DEF CountInv, Active, Opening, Writing, Reporting
<1>12. CASE expire
  BY <1>11, <1>12 DEF expire
<1>13. CASE UNCHANGED vars
  BY <1>11, <1>13 DEF vars
<1> QED
  BY <1>2, <1>3, <1>5, <1>6, <1>7, <1>8, <1>9, <1>10, <1>12, <1>13 DEF Next, work

\* Only a request on its way has been served.
LEMMA StepServed == CountInv /\ ServedInv /\ [Next]_vars => ServedInv'
<1> SUFFICES ASSUME CountInv, ServedInv, [Next]_vars PROVE ServedInv'
  OBVIOUS
<1> USE DEF At, CountInv, Calls
<1>1. ASSUME NEW t \in Threads, NEW c, call' = [call EXCEPT ![t] = c], c.served => c.pc = "sent"
      PROVE  ServedInv'
  BY <1>1 DEF ServedInv
<1>2. ASSUME NEW t \in Threads, Return(t) PROVE ServedInv'
  BY <1>1, <1>2 DEF Return, Idle
<1>3. ASSUME NEW t \in Threads, NEW m \in Methods, begin(t, m) PROVE ServedInv'
  BY <1>1, <1>3 DEF begin, Idle
<1>4. ASSUME NEW t \in Threads, check_session(t) \/ init_session(t) PROVE ServedInv'
  <2>1. ~call[t].served
    BY <1>4 DEF check_session, init_session, ServedInv
  <2>2. \A u \in Threads : call'[u].served = call[u].served /\ (u # t => call'[u] = call[u])
    BY <1>4 DEF check_session, init_session, Goto
  <2> QED
    BY <2>1, <2>2 DEF ServedInv
<1>5. ASSUME NEW t \in Threads, headers(t) PROVE ServedInv'
  <2>1. CASE session_token = NoSession
    BY <1>2, <1>5, <2>1 DEF headers
  <2>2. CASE session_token # NoSession
    BY <1>5, <2>2 DEF headers, ServedInv
  <2> QED
    BY <2>1, <2>2
<1>6. ASSUME NEW t \in Threads, serve(t) PROVE ServedInv'
  BY <1>6 DEF serve, ServedInv
<1>7. ASSUME NEW t \in Threads, refused(t) \/ response(t) \/ timeout(t) \/ init_lost(t)
      PROVE  ServedInv'
  BY <1>2, <1>7 DEF refused, response, timeout, init_lost
<1>8. CASE UNCHANGED call
  BY <1>8 DEF ServedInv
<1> QED
  BY <1>3, <1>4, <1>5, <1>6, <1>7, <1>8 DEF Next, work, expire, vars

\* GLPI accepts sessions it opened, and the client holds one of them or none.
LEMMA StepSessions == CountInv /\ SessionsInv /\ [Next]_vars => SessionsInv'
<1> SUFFICES ASSUME CountInv, SessionsInv, [Next]_vars PROVE SessionsInv'
  OBVIOUS
<1> USE DEF CountInv, SessionsInv, server, history
<1>1. ASSUME NEW t \in Threads, NEW m \in Methods, begin(t, m) PROVE SessionsInv'
  BY <1>1 DEF begin, Mishaps
<1>2. ASSUME NEW t \in Threads, check_session(t) \/ headers(t) \/ refused(t) PROVE SessionsInv'
  BY <1>2 DEF check_session, headers, refused
<1>3. ASSUME NEW t \in Threads, init_session(t) PROVE SessionsInv'
  BY <1>3 DEF init_session, open_session
<1>4. ASSUME NEW t \in Threads, serve(t) PROVE SessionsInv'
  <2>1. solved' \in BOOLEAN
    BY <1>4, Zenon DEF serve
  <2> QED
    BY <1>4, <2>1 DEF serve
<1>5. ASSUME NEW t \in Threads, response(t) PROVE SessionsInv'
  BY <1>5 DEF response, token_after, NoSession
<1>6. ASSUME NEW t \in Threads, timeout(t) PROVE SessionsInv'
  BY <1>6 DEF timeout, Mishaps
<1>7. ASSUME NEW t \in Threads, init_lost(t) PROVE SessionsInv'
  BY <1>7 DEF init_lost, open_session, Mishaps
<1>8. CASE expire
  BY <1>8 DEF expire, Mishaps
<1>9. CASE UNCHANGED vars
  BY <1>9 DEF vars
<1> QED
  BY <1>1, <1>2, <1>3, <1>4, <1>5, <1>6, <1>7, <1>8, <1>9 DEF Next, work

\* While threads take turns and nothing is lost, the session in use is the client's.
LEMMA StepAlone ==
  CountInv /\ ServedInv /\ SessionsInv /\ AloneInv /\ [Next]_vars => AloneInv'
<1> SUFFICES ASSUME CountInv, ServedInv, SessionsInv, AloneInv, [Next]_vars PROVE AloneInv'
  OBVIOUS
<1> USE DEF CountInv, Calls, SessionsInv, server, history, At
<1>1. ASSUME NEW t \in Threads, NEW m \in Methods, begin(t, m) PROVE AloneInv'
  <2>1. /\ \A u \in Threads \ {t} : call'[u] = call[u]
        /\ call'[t].pc = "called" /\ call[t].pc = "idle"
        /\ UNCHANGED <<session_token, live>>
        /\ mishaps \subseteq mishaps'
    BY <1>1 DEF begin, Idle
  <2>2. "overlap" \notin mishaps' => \A u \in Threads \ {t} : call'[u].pc = "idle"
    BY <1>1, <2>1 DEF begin
  <2>3. "overlap" \notin mishaps' => \A u, v \in Active' : u = v
    BY <2>2 DEF Active
  <2>4. ASSUME mishaps' \subseteq {"expiry"}
        PROVE  live' \subseteq {session_token'} /\ \A u \in Threads : call'[u].pc \in {"idle", "called"}
    BY <2>1, <2>2, <2>4 DEF AloneInv
  <2> QED
    BY <2>3, <2>4 DEF AloneInv
<1>2. ASSUME NEW t \in Threads, call[t].pc # "idle", \A u \in Threads \ {t} : call'[u] = call[u],
             mishaps' = mishaps, ServedInv', live' \subseteq {session_token'},
             call'[t].pc = "init" => session_token' = NoSession,
             call'[t].pc = "sent" => call'[t].token = session_token',
             call'[t].pc = "sent" /\ call'[t].served /\ call'[t].method = "kill" => live' = {}
      PROVE  AloneInv'
  <2>1. Active' \subseteq Active /\ t \in Active
    BY <1>2 DEF Active
  <2>2. "overlap" \notin mishaps' => \A u, v \in Active' : u = v
    BY <1>2, <2>1 DEF AloneInv
  <2>3. "overlap" \notin mishaps' => \A u \in Threads \ {t} : call'[u].pc = "idle"
    BY <1>2, <2>1 DEF AloneInv, Active
  <2> QED
    BY <1>2, <2>2, <2>3 DEF AloneInv
<1>3. ASSUME NEW t \in Threads, check_session(t), mishaps' \subseteq {"expiry"} PROVE AloneInv'
  <2>1. /\ call[t].pc = "called" /\ \A u \in Threads \ {t} : call'[u] = call[u]
        /\ call'[t].pc \in {"init", "headers"} /\ (call'[t].pc = "init" => session_token = NoSession)
        /\ UNCHANGED <<session_token, live, mishaps>>
    BY <1>3 DEF check_session, Goto, needs_session
  <2> QED
    BY <1>2, <1>3, <2>1, StepServed DEF AloneInv
<1>4. ASSUME NEW t \in Threads, init_session(t), mishaps' \subseteq {"expiry"} PROVE AloneInv'
  <2>1. /\ call[t].pc = "init" /\ \A u \in Threads \ {t} : call'[u] = call[u]
        /\ call'[t].pc = "headers" /\ mishaps' = mishaps
        /\ live' = live \cup {opened + 1} /\ session_token' = opened + 1
    BY <1>4 DEF init_session, open_session, Goto
  <2>2. live = {}
    BY <1>4, <2>1 DEF AloneInv, NoSession
  <2> QED
    BY <1>2, <2>1, <2>2, StepServed
<1>5. ASSUME NEW t \in Threads, headers(t), mishaps' \subseteq {"expiry"} PROVE AloneInv'
  <2>1. /\ call[t].pc = "headers" /\ \A u \in Threads \ {t} : call'[u] = call[u]
        /\ UNCHANGED <<session_token, live, mishaps>>
    BY <1>5 DEF headers, Return
  <2>2. ~call[t].served
    BY <2>1 DEF ServedInv
  <2>3. call'[t].pc = "idle" \/
          (call'[t].pc = "sent" /\ call'[t].token = session_token /\ ~call'[t].served)
    BY <1>5, <2>2 DEF headers, Return, Idle
  <2> QED
    BY <1>2, <1>5, <2>1, <2>3, StepServed DEF AloneInv
<1>6. ASSUME NEW t \in Threads, serve(t), mishaps' \subseteq {"expiry"} PROVE AloneInv'
  <2>1. /\ call[t].pc = "sent" /\ \A u \in Threads \ {t} : call'[u] = call[u]
        /\ call'[t].pc = "sent" /\ call'[t].token = call[t].token
        /\ call'[t].method = call[t].method
        /\ live' = IF call[t].method = "kill" THEN live \ {call[t].token} ELSE live
        /\ UNCHANGED <<session_token, mishaps>>
    BY <1>6 DEF serve
  <2>2. live \subseteq {session_token} /\ call[t].token = session_token
    BY <1>6, <2>1 DEF AloneInv
  <2> QED
    BY <1>2, <2>1, <2>2, StepServed
<1>7. ASSUME NEW t \in Threads, refused(t) \/ response(t), mishaps' \subseteq {"expiry"} PROVE AloneInv'
  <2>1. /\ call[t].pc = "sent" /\ \A u \in Threads \ {t} : call'[u] = call[u]
        /\ call'[t].pc = "idle" /\ UNCHANGED <<live, mishaps>>
    BY <1>7 DEF refused, response, answered, Return, Idle
  <2>2. live \subseteq {session_token}
    BY <1>7, <2>1 DEF AloneInv
  <2>3. session_token' = session_token \/ live = {}
    BY <1>7, <2>1 DEF refused, response, answered, token_after, AloneInv
  <2> QED
    BY <1>2, <2>1, <2>2, <2>3, StepServed
<1>8. ASSUME NEW t \in Threads, work(t), ~(mishaps' \subseteq {"expiry"}) PROVE AloneInv'
  <2>1. call[t].pc # "idle" /\ mishaps \subseteq mishaps'
    BY <1>8 DEF work, check_session, init_session, headers, serve, refused, response, answered,
                timeout, init_lost
  <2>2. \A u \in Threads \ {t} : call'[u] = call[u]
    BY <1>8 DEF work, check_session, init_session, headers, serve, refused, response,
                timeout, init_lost, Goto, Return
  <2>3. Active' \subseteq Active
    BY <2>1, <2>2 DEF Active
  <2> QED
    BY <1>8, <2>1, <2>3 DEF AloneInv
<1>9. ASSUME NEW t \in Threads, timeout(t) \/ init_lost(t) PROVE ~(mishaps' \subseteq {"expiry"})
  BY <1>9 DEF timeout, init_lost
<1>10. CASE expire
  BY <1>10 DEF expire, AloneInv, Active
<1>11. CASE UNCHANGED vars
  BY <1>11 DEF vars, AloneInv, Active
<1> QED
  BY <1>1, <1>3, <1>4, <1>5, <1>6, <1>7, <1>8, <1>9, <1>10, <1>11 DEF Next, work

\* Each conjunct is kept with the help of the others.
LEMMA Inductive == Spec => []IInv
<1>1. IInv /\ [Next]_vars => IInv'
  BY StepCounts, StepServed, StepSessions, StepAlone DEF IInv
<1> QED
  BY InitIInv, <1>1, PTL DEF Spec

--------------------------------------------------------------------------------
\* What the counts bound: nothing exceeds the calls begun.
LEMMA Bounds ==
  ASSUME CountInv
  PROVE  /\ opened \in 0..calls /\ followups \in 0..updates /\ acked \in 0..followups
         /\ updates \in 0..calls /\ calls \in 0..MaxCalls
<1>1. IsFiniteSet(Opening) /\ IsFiniteSet(Writing) /\ IsFiniteSet(Reporting)
  <2>1. Opening \subseteq Active /\ Writing \subseteq Active /\ Reporting \subseteq Active
    BY DEF Opening, Writing, Reporting, Active, At, May_open, May_write, May_report
  <2> QED
    BY <2>1, FS_Subset DEF CountInv
<1>2. Cardinality(Opening) \in Nat /\ Cardinality(Writing) \in Nat /\ Cardinality(Reporting) \in Nat
  BY <1>1, FS_CardinalityType
<1> QED
  BY <1>2, MaxCallsAssumption DEF CountInv

\* Type correctness: no thread ever opens a session or writes a followup that
\* no call accounts for.
THEOREM TypeCorrect == Spec => []TypeOK
<1>1. IInv => TypeOK
  <2> SUFFICES ASSUME IInv PROVE TypeOK
    OBVIOUS
  <2>1. session_token \in Sessions \cup {NoSession}
    BY Bounds, MaxCallsAssumption DEF IInv, CountInv, SessionsInv, Sessions, NoSession
  <2>2. followups \in 0..MaxCalls /\ acked \in 0..updates
    BY Bounds, MaxCallsAssumption DEF IInv
  <2> QED
    BY <2>1, <2>2, Bounds DEF IInv, CountInv, SessionsInv, TypeOK, Calls
<1> QED
  BY <1>1, Inductive, PTL

\* Reporting is what the specification counts as unanswered.
LEMMA UnansweredIsReporting == Unanswered = Cardinality(Reporting)
<1>1. Reporting = {t \in Threads : At(t, "sent") /\ call[t].method = "update" /\ call[t].served}
  BY DEF Reporting, May_report, At
<1> QED
  BY <1>1 DEF Unanswered

\* A followup reported as written is in GLPI, and none is written twice.
THEOREM AckedAreApplied == Spec => []AckedWritesApplied
<1>1. IInv => AckedWritesApplied
  BY UnansweredIsReporting, Bounds DEF IInv, CountInv, AckedWritesApplied
<1> QED
  BY <1>1, Inductive, PTL

\* Without lost responses a call that raised has written nothing.
THEOREM FailuresWroteNothing == Spec => []FailedWritesWroteNothing
<1>1. IInv => FailedWritesWroteNothing
  BY UnansweredIsReporting DEF IInv, CountInv, FailedWritesWroteNothing
<1> QED
  BY <1>1, Inductive, PTL

\* A client used by one thread at a time, without losses, leaks no session.
THEOREM SessionIsNotLeaked == Spec => []NoLeakedSession
<1>1. IInv => NoLeakedSession
  BY DEF IInv, AloneInv, NoLeakedSession
<1> QED
  BY <1>1, Inductive, PTL
================================================================================
