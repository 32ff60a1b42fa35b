---------------------------- MODULE AuditTrailProofs ----------------------------
(* Proofs about AuditTrail for any number of runs under the one run id and of   *)
(* lost batches.                                                                *)
EXTENDS AuditTrail, FiniteSetTheorems, SequenceTheorems, WellFoundedInduction, TLAPS

Spans == {tool_span(t, n, ok) : t \in Traces, n \in 1..PlannedCalls, ok \in BOOLEAN}
         \cup {root_span(t, ok) : t \in Traces, ok \in BOOLEAN}

Pcs == {"none", "running", "paused", "failed", "crashed"}

(* The spans a run has ended, and the place of one among them: the tool spans  *)
(* in the order of the calls, the root span last.                              *)
RootEnded(r) == r.pc \in {"paused", "failed"}
Ended(r) == r.calls + (IF RootEnded(r) THEN 1 ELSE 0)
Place(r, s) == IF s.start = 0 THEN r.calls + 1 ELSE s.start

(* A span of run r of trace t: of a call it made, or its root. *)
SpanOK(t, r, s) ==
    /\ s \in Spans /\ s.trace = t /\ s.start <= r.calls
    /\ s.start = 0 => RootEnded(r) /\ (s.gate_status = "auto_write" <=> r.pc = "paused")

(* The first of the ended spans have left the process, each stored or lost;    *)
(* its exporter holds the others, in order.                                    *)
TraceOK(t, r, p, kept, lost) ==
    /\ p \in Seq(Spans) /\ Len(p) <= Ended(r)
    /\ \A i \in 1..Len(p) : SpanOK(t, r, p[i]) /\ Place(r, p[i]) = Ended(r) - Len(p) + i
    /\ \A s \in kept \cup lost : SpanOK(t, r, s) /\ Place(r, s) <= Ended(r) - Len(p)
    /\ \A n \in 1..Ended(r) - Len(p) : \E s \in kept \cup lost : Place(r, s) = n
    /\ \A s, x \in kept \cup lost : s.start = x.start => s = x
    /\ kept \cap lost = {}
    /\ IsFiniteSet(kept) /\ IsFiniteSet(lost)

Of(t, spans) == {s \in spans : s.trace = t}

TypeInv ==
    /\ run \in [Traces -> [pc : Pcs, calls : 0..PlannedCalls]]
    /\ \A t \in Traces : run[t].pc = "paused" => run[t].calls = PlannedCalls
    /\ pending \in [Traces -> Seq(Spans)]
    /\ stored \subseteq Spans /\ dropped \subseteq Spans

TracesInv ==
    \A t \in Traces : TraceOK(t, run[t], pending[t], Of(t, stored), Of(t, dropped))

(* The root span of a trace is stored: it was the last of the trace. *)
RootStored(t) == \E s \in stored : s.trace = t /\ ~s.parent

ReaderInv ==
    reader.pc = "found" => RootStored(reader.trace) /\ audit.trace <= reader.trace

(* What was answered is what would be answered again. *)
AuditInv ==
    \/ audit = NoAudit
    \/ RootStored(audit.trace) /\ audit = reconstruct_run_audit(Of(audit.trace, stored))

IInv == TypeInv /\ TracesInv /\ ReaderInv /\ AuditInv
--------------------------------------------------------------------------------
\* What a span of this incident looks like.
LEMMA SpanFields ==
  ASSUME NEW s \in Spans
  PROVE  /\ s.trace \in Traces /\ s.start \in 0..PlannedCalls
         /\ s.start = 0 <=> ~s.parent
         /\ s.start = 0 <=> s.call.tool = "none"
         /\ s.start # 0 => s.call = planned_message(s.start)
<1>1. CASE s \in {root_span(t, ok) : t \in Traces, ok \in BOOLEAN}
  BY <1>1 DEF root_span, Call, PlannedCalls
<1>2. CASE s \in {tool_span(t, n, ok) : t \in Traces, n \in 1..PlannedCalls, ok \in BOOLEAN}
  <2>1. PICK t \in Traces, n \in 1..PlannedCalls, ok \in BOOLEAN : s = tool_span(t, n, ok)
    BY <1>2
  <2>2. s.trace = t /\ s.start = n /\ s.parent = TRUE /\ s.call = planned_message(n)
    BY <2>1 DEF tool_span
  <2>3. planned_message(n).tool # "none"
    <3>1. n = 1 \/ n = 2 \/ n = 3 \/ n = 4 \/ n = 5
      BY DEF PlannedCalls
    <3> QED
      BY <3>1 DEF planned_message, Call
  <2> QED
    BY <2>2, <2>3
<1> QED
  BY <1>1, <1>2 DEF Spans

\* The spans the runs end are among them.
LEMMA SpansMade ==
  ASSUME NEW t \in Traces, NEW ok \in BOOLEAN
  PROVE  /\ root_span(t, ok) \in Spans
         /\ \A n \in 1..PlannedCalls : tool_span(t, n, ok) \in Spans
<1>1. root_span(t, ok) \in {root_span(u, b) : u \in Traces, b \in BOOLEAN}
  OBVIOUS
<1>2. ASSUME NEW n \in 1..PlannedCalls
      PROVE  tool_span(t, n, ok) \in {tool_span(u, m, b) : u \in Traces, m \in 1..PlannedCalls,
                                                        b \in BOOLEAN}
  OBVIOUS
<1> QED
  BY <1>1, <1>2 DEF Spans

\* The elements of a sequence are finitely many.
LEMMA FinitelyMany ==
  ASSUME NEW S, NEW s \in Seq(S)
  PROVE  /\ IsFiniteSet(ToSet(s)) /\ ToSet(s) \subseteq S
         /\ \A x : x \in ToSet(s) <=> \E i \in 1..Len(s) : s[i] = x
<1>1. s \in Surjection(1..Len(s), ToSet(s))
  BY DEF Surjection, ToSet
<1>2. PICK n \in Nat : n = Len(s)
  OBVIOUS
<1>3. IsFiniteSet(1..n)
  BY FS_Interval
<1>4. IsFiniteSet(ToSet(s))
  BY <1>1, <1>2, <1>3, FS_Surjection
<1> QED
  BY <1>4 DEF ToSet

\* A set of numbers has a first one.
LEMMA LessIsWellFounded ==
  \E R : IsWellFoundedOn(R, Nat) /\ \A x, y \in Nat : y < x => <<y, x>> \in R
<1>1. IsWellFoundedOn(OpToRel(<, Nat), Nat)
  BY NatLessThanWellFounded, Zenon
<1>2. \A x, y \in Nat : y < x => <<y, x>> \in OpToRel(<, Nat)
  BY DEF OpToRel
<1> QED
  BY <1>1, <1>2, Zenon

\* It has a least element.
LEMMA First ==
  ASSUME NEW T \in SUBSET Nat, T # {}
  PROVE  \E x \in T : \A y \in T : x <= y
<1>1. PICK R : IsWellFoundedOn(R, Nat) /\ \A x, y \in Nat : y < x => <<y, x>> \in R
  BY LessIsWellFounded, Zenon
<1>2. PICK x \in T : \A y \in T : ~(<<y, x>> \in R)
  BY <1>1, WFMin, Zenon
<1>3. \A y \in T : ~(y < x)
  BY <1>1, <1>2, Zenon
<1> QED
  BY <1>3
--------------------------------------------------------------------------------
(* What a run, its exporter and Phoenix do to the spans of one trace. *)

\* Nothing is told of a trace that tells stored and lost spans apart.
LEMMA Swapped ==
  ASSUME NEW t, NEW r, NEW p, NEW kept, NEW lost, TraceOK(t, r, p, kept, lost)
  PROVE  TraceOK(t, r, p, lost, kept)
<1>1. kept \cup lost = lost \cup kept /\ lost \cap kept = kept \cap lost
  OBVIOUS
<1> QED
  BY <1>1, Zenon DEF TraceOK

\* A batch leaves the exporter: its spans are the ones next to leave.
LEMMA Sent ==
  ASSUME NEW t, NEW r, r.calls \in Nat, NEW p, NEW kept, NEW lost, TraceOK(t, r, p, kept, lost),
         NEW n \in 0..Len(p), NEW batch, batch = ToSet(SubSeq(p, 1, n)),
         NEW rest, rest = SubSeq(p, n + 1, Len(p))
  PROVE  TraceOK(t, r, rest, kept \cup batch, lost)
<1> USE DEF TraceOK
<1>1. PICK m \in Nat : m = Len(p) /\ n \in Nat /\ n <= m /\ p \in Seq(Spans)
  OBVIOUS
<1>2. \A i \in 1..m : p[i] \in Spans
  BY <1>1
<1>3. PICK out : out = SubSeq(p, 1, n)
  OBVIOUS
<1>4. out \in Seq(Spans) /\ Len(out) = n /\ \A i \in 1..n : out[i] = p[i]
  BY <1>1, <1>2, <1>3, SubSeqProperties
<1>5. rest \in Seq(Spans) /\ Len(rest) = m - n /\ \A i \in 1..m - n : rest[i] = p[n + i]
  BY <1>1, <1>2, SubSeqProperties
<1>6. IsFiniteSet(batch) /\ batch \subseteq Spans /\ \A x : x \in batch <=> \E i \in 1..n : p[i] = x
  <2>1. IsFiniteSet(batch) /\ batch \subseteq Spans
        /\ \A x : x \in batch <=> \E i \in 1..n : out[i] = x
    <3>1. batch = ToSet(out)
      BY <1>3, Zenon
    <3>2. /\ IsFiniteSet(ToSet(out)) /\ ToSet(out) \subseteq Spans
          /\ \A x : x \in ToSet(out) <=> \E i \in 1..Len(out) : out[i] = x
      BY <1>4, FinitelyMany
    <3> QED
      BY <1>4, <3>1, <3>2, Zenon
  <2> QED
    BY <1>4, <2>1
<1>7. PICK e \in Nat : e = Ended(r)
  BY DEF Ended
<1>8. m <= e
  BY <1>1, <1>7
<1>9. \A i \in 1..m - n : SpanOK(t, r, rest[i]) /\ Place(r, rest[i]) = e - (m - n) + i
  <2> SUFFICES ASSUME NEW i \in 1..m - n
               PROVE  SpanOK(t, r, rest[i]) /\ Place(r, rest[i]) = e - (m - n) + i
    OBVIOUS
  <2>1. n + i \in 1..m /\ rest[i] = p[n + i]
    BY <1>1, <1>5
  <2> QED
    BY <1>1, <1>7, <2>1
<1>10. \A s \in batch : SpanOK(t, r, s) /\ Place(r, s) <= e - (m - n) /\ e - m < Place(r, s)
  <2> SUFFICES ASSUME NEW s \in batch
               PROVE  SpanOK(t, r, s) /\ Place(r, s) <= e - (m - n) /\ e - m < Place(r, s)
    OBVIOUS
  <2>1. PICK i \in 1..n : p[i] = s
    BY <1>6
  <2>2. i \in 1..m /\ SpanOK(t, r, s) /\ Place(r, s) = e - m + i
    BY <1>1, <1>7, <2>1
  <2> QED
    BY <1>1, <1>7, <2>2
<1>11. \A s \in kept \cup lost : SpanOK(t, r, s) /\ Place(r, s) <= e - m
  BY <1>1, <1>7
<1>12. \A s \in kept \cup lost \cup batch :
          /\ SpanOK(t, r, s) /\ Place(r, s) <= e - (m - n) /\ Place(r, s) \in Nat
  <2>1. \A s \in kept \cup lost \cup batch : SpanOK(t, r, s)
    BY <1>10, <1>11
  <2>2. \A s \in kept \cup lost \cup batch : s.start \in Nat
    BY <2>1, SpanFields DEF SpanOK, PlannedCalls
  <2>3. \A s \in kept \cup lost \cup batch : Place(r, s) \in Nat
    BY <2>2 DEF Place
  <2> HIDE DEF TraceOK
  <2> QED
    BY <1>1, <1>7, <1>10, <1>11, <2>1, <2>3
<1>13. \A k \in 1..e - (m - n) : \E s \in kept \cup lost \cup batch : Place(r, s) = k
  <2> SUFFICES ASSUME NEW k \in 1..e - (m - n)
               PROVE  \E s \in kept \cup lost \cup batch : Place(r, s) = k
    OBVIOUS
  <2>1. CASE k <= e - m
    BY <1>1, <1>7, <2>1
  <2>2. CASE ~(k <= e - m)
    <3>1. PICK i \in 1..n : i = k - (e - m)
      BY <1>1, <1>7, <2>2
    <3>2. i \in 1..m /\ e - m + i = k
      BY <1>1, <1>7, <3>1
    <3>3. p[i] \in batch /\ Place(r, p[i]) = k
      BY <1>1, <1>6, <1>7, <3>2
    <3> QED
      BY <3>3
  <2> QED
    BY <2>1, <2>2
<1>14. \A s \in batch, x \in kept \cup lost : Place(r, s) # Place(r, x)
  <2> HIDE DEF TraceOK
  <2> SUFFICES ASSUME NEW s \in batch, NEW x \in kept \cup lost PROVE Place(r, s) # Place(r, x)
    OBVIOUS
  <2>1. /\ Place(r, s) \in Nat /\ Place(r, x) \in Nat /\ e - m < Place(r, s)
        /\ Place(r, x) <= e - m
    BY <1>10, <1>11, <1>12
  <2> QED
    BY <1>1, <1>7, <2>1
<1>15. \A s, x \in kept \cup lost \cup batch : s.start = x.start => s = x
  <2> SUFFICES ASSUME NEW s \in kept \cup lost \cup batch, NEW x \in kept \cup lost \cup batch,
                      s.start = x.start
               PROVE  s = x
    OBVIOUS
  <2>1. Place(r, s) = Place(r, x)
    BY DEF Place
  <2>2. CASE s \in batch /\ x \in batch
    <3>1. PICK i \in 1..n, j \in 1..n : p[i] = s /\ p[j] = x
      BY <1>6, <2>2
    <3>2. i \in 1..m /\ j \in 1..m
      BY <1>1
    <3>3. Place(r, s) = e - m + i /\ Place(r, x) = e - m + j
      BY <1>1, <1>7, <3>1, <3>2
    <3>4. i = j
      <4> HIDE DEF TraceOK
      <4>1. e - m + i = e - m + j
        BY <2>1, <3>3, Zenon
      <4> QED
        BY <1>1, <1>7, <4>1
    <3> HIDE DEF TraceOK
    <3> QED
      BY <3>1, <3>4, Zenon
  <2>3. CASE s \in kept \cup lost /\ x \in kept \cup lost
    BY <2>3
  <2> HIDE DEF TraceOK
  <2> QED
    BY <1>14, <2>1, <2>2, <2>3
<1>16. (kept \cup batch) \cap lost = {}
  BY <1>14
<1>17. IsFiniteSet(kept \cup batch)
  BY <1>6, FS_Union
<1>18. kept \cup batch \cup lost = kept \cup lost \cup batch
  OBVIOUS
<1>19. Len(rest) <= e /\ Ended(r) - Len(rest) = e - (m - n)
  BY <1>1, <1>5, <1>7, <1>8
<1>20. IsFiniteSet(lost)
  OBVIOUS
<1> HIDE DEF TraceOK
<1> QED
  BY <1>5, <1>7, <1>9, <1>12, <1>13, <1>15, <1>16, <1>17, <1>18, <1>19, <1>20 DEF TraceOK

\* A batch that holds all there is empties the exporter.
LEMMA AllSent ==
  ASSUME NEW p \in Seq(Spans)
  PROVE  /\ ToSet(SubSeq(p, 1, Len(p))) = ToSet(p)
         /\ SubSeq(p, Len(p) + 1, Len(p)) = <<>>
<1>1. \A i \in 1..Len(p) : p[i] \in Spans
  BY ElementOfSeq
<1>2. PICK m \in Nat : m = Len(p)
  OBVIOUS
<1>3. PICK out : out = SubSeq(p, 1, m)
  OBVIOUS
<1>4. out \in Seq(Spans) /\ Len(out) = m /\ \A i \in 1..m : out[i] = p[i]
  BY <1>1, <1>2, <1>3, SubSeqProperties
<1>5. ToSet(out) = ToSet(p)
  <2>1. \A x : x \in ToSet(out) <=> \E i \in 1..m : out[i] = x
    BY <1>4, FinitelyMany
  <2>2. \A x : x \in ToSet(p) <=> \E i \in 1..m : p[i] = x
    BY <1>2, FinitelyMany
  <2> QED
    BY <1>4, <2>1, <2>2
<1> QED
  BY <1>2, <1>3, <1>5, SubSeqEmpty

\* The spans a run ends go behind those its exporter holds.
LEMMA Appended ==
  ASSUME NEW t, NEW r, NEW p, NEW kept, NEW lost, TraceOK(t, r, p, kept, lost),
         ~RootEnded(r), r.calls \in Nat,
         NEW q, q.calls \in Nat, r.calls <= q.calls,
         NEW more \in Seq(Spans), Len(more) = Ended(q) - r.calls,
         \A i \in 1..Len(more) : SpanOK(t, q, more[i]) /\ Place(q, more[i]) = r.calls + i
  PROVE  TraceOK(t, q, p \o more, kept, lost)
<1>1. PICK c \in Nat, d \in Nat : c = r.calls /\ d = q.calls /\ c <= d
  OBVIOUS
<1>2. Ended(r) = c /\ Ended(q) \in Nat
  BY <1>1 DEF Ended
<1>3. PICK m \in Nat, n \in Nat, e \in Nat : m = Len(p) /\ n = Len(more) /\ e = Ended(q)
  BY <1>2 DEF TraceOK
<1>4. m <= c /\ n = e - c /\ p \in Seq(Spans)
  BY <1>1, <1>2, <1>3 DEF TraceOK
<1>5. \A s : SpanOK(t, r, s) => SpanOK(t, q, s) /\ Place(q, s) = Place(r, s)
  <2> SUFFICES ASSUME NEW s, SpanOK(t, r, s)
               PROVE  SpanOK(t, q, s) /\ Place(q, s) = Place(r, s)
    OBVIOUS
  <2>1. s \in Spans /\ s.trace = t /\ s.start <= c /\ s.start # 0
    BY <1>1 DEF SpanOK
  <2>2. s.start \in Nat
    BY <2>1, SpanFields DEF PlannedCalls
  <2>3. s.start <= d
    BY <1>1, <2>1, <2>2
  <2> QED
    BY <1>1, <2>1, <2>3 DEF SpanOK, Place
<1>6. \A i \in 1..m : SpanOK(t, q, p[i]) /\ Place(q, p[i]) = c - m + i
  BY <1>1, <1>2, <1>3, <1>5 DEF TraceOK
<1>7. \A i \in 1..n : SpanOK(t, q, more[i]) /\ Place(q, more[i]) = c + i
  BY <1>1, <1>3
<1>8. PICK l : l = p \o more
  OBVIOUS
<1>9. /\ l \in Seq(Spans) /\ Len(l) = m + n
      /\ \A i \in 1..m + n : l[i] = IF i <= m THEN p[i] ELSE more[i - m]
  BY <1>3, <1>4, <1>8, ConcatProperties
<1>10. \A i \in 1..m + n : SpanOK(t, q, l[i]) /\ Place(q, l[i]) = e - (m + n) + i
  <2> SUFFICES ASSUME NEW i \in 1..m + n
               PROVE  SpanOK(t, q, l[i]) /\ Place(q, l[i]) = e - (m + n) + i
    OBVIOUS
  <2>1. CASE i <= m
    BY <1>1, <1>3, <1>4, <1>6, <1>9, <2>1
  <2>2. CASE ~(i <= m)
    <3>1. PICK j \in Int : j = i - m
      OBVIOUS
    <3>2. l[i] = more[j]
      BY <1>9, <2>2, <3>1
    <3>3. j \in 1..n /\ i = j + m
      BY <2>2, <3>1
    <3>4. c + j = e - (m + n) + i
      BY <1>4, <3>3
    <3> QED
      BY <1>7, <3>2, <3>3, <3>4
  <2> QED
    BY <2>1, <2>2
<1>11. Ended(q) - Len(l) = c - m /\ Ended(r) - Len(p) = c - m /\ Len(l) <= Ended(q)
  BY <1>1, <1>2, <1>3, <1>4, <1>9
<1>12. \A s \in kept \cup lost : SpanOK(t, q, s) /\ Place(q, s) <= c - m
  BY <1>5, <1>11 DEF TraceOK
<1>13. \A k \in 1..c - m : \E s \in kept \cup lost : Place(q, s) = k
  <2>1. \A s \in kept \cup lost : Place(q, s) = Place(r, s)
    BY <1>5 DEF TraceOK
  <2>2. \A k \in 1..Ended(r) - Len(p) : \E s \in kept \cup lost : Place(r, s) = k
    BY DEF TraceOK
  <2> QED
    BY <1>11, <2>1, <2>2, Zenon
<1>14. Ended(q) - Len(l) = e - (m + n)
  BY <1>3, <1>9
<1>15. \A i \in 1..Len(l) : SpanOK(t, q, l[i]) /\ Place(q, l[i]) = Ended(q) - Len(l) + i
  BY <1>9, <1>10, <1>14, Zenon
<1>16. \A s \in kept \cup lost : SpanOK(t, q, s) /\ Place(q, s) <= Ended(q) - Len(l)
  BY <1>11, <1>12, Zenon
<1>17. \A k \in 1..Ended(q) - Len(l) : \E s \in kept \cup lost : Place(q, s) = k
  BY <1>11, <1>13, Zenon
<1>18. /\ \A s, x \in kept \cup lost : s.start = x.start => s = x
       /\ kept \cap lost = {} /\ IsFiniteSet(kept) /\ IsFiniteSet(lost)
  BY Zenon DEF TraceOK
<1>19. TraceOK(t, q, l, kept, lost)
  BY <1>9, <1>11, <1>15, <1>16, <1>17, <1>18, Zenon DEF TraceOK
<1> QED
  BY <1>8, <1>19, Zenon

\* A run whose root span is open may start or die without ending a span.
LEMMA Relabelled ==
  ASSUME NEW t, NEW r, NEW p, NEW kept, NEW lost, TraceOK(t, r, p, kept, lost),
         ~RootEnded(r), r.calls \in Nat, NEW q, ~RootEnded(q), q.calls = r.calls
  PROVE  TraceOK(t, q, p, kept, lost)
<1>1. Ended(q) = Ended(r)
  BY DEF Ended
<1>2. \A s : Place(q, s) = Place(r, s)
  BY DEF Place
<1>3. \A s : SpanOK(t, r, s) => SpanOK(t, q, s)
  BY DEF SpanOK
<1> QED
  BY <1>1, <1>2, <1>3 DEF TraceOK

--------------------------------------------------------------------------------
(* The steps keep TypeInv and TracesInv. *)

\* A step of one trace leaves the others as they are.
LEMMA OthersAlone ==
  ASSUME TypeInv, TracesInv, NEW t \in Traces,
         NEW r, run' = [run EXCEPT ![t] = r],
         NEW p, pending' = [pending EXCEPT ![t] = p],
         \A u \in Traces \ {t} : Of(u, stored') = Of(u, stored) /\ Of(u, dropped') = Of(u, dropped),
         TraceOK(t, r, p, Of(t, stored'), Of(t, dropped'))
  PROVE  TracesInv'
<1> SUFFICES ASSUME NEW u \in Traces
             PROVE  TraceOK(u, run'[u], pending'[u], Of(u, stored'), Of(u, dropped'))
  BY DEF TracesInv
<1>1. CASE u = t
  <2>1. run'[u] = r /\ pending'[u] = p
    BY <1>1 DEF TypeInv
  <2> QED
    BY <1>1, <2>1
<1>2. CASE u # t
  <2>1. run'[u] = run[u] /\ pending'[u] = pending[u]
    BY <1>2 DEF TypeInv
  <2> QED
    BY <1>2, <2>1 DEF TracesInv
<1> QED
  BY <1>1, <1>2

\* A tool returns: one more call, one more span.
LEMMA ToolReturns ==
  ASSUME NEW t \in Traces, NEW r \in [pc : Pcs, calls : 0..PlannedCalls],
         NEW p, NEW kept, NEW lost, TraceOK(t, r, p, kept, lost),
         r.pc = "running", r.calls < PlannedCalls, NEW q, q = [r EXCEPT !.calls = @ + 1]
  PROVE  /\ q \in [pc : Pcs, calls : 0..PlannedCalls]
         /\ TraceOK(t, q, p \o <<tool_span(t, r.calls + 1, TRUE)>>, kept, lost)
<1>1. PICK c \in Nat : c = r.calls /\ c + 1 \in 1..PlannedCalls
  BY DEF PlannedCalls
<1>2. q.pc = "running" /\ q.calls = c + 1
  BY <1>1
<1>3. PICK s : s = tool_span(t, c + 1, TRUE)
  OBVIOUS
<1>4. s \in Spans
  BY <1>1, <1>3, SpansMade, Zenon
<1>5. s.trace = t /\ s.start = c + 1
  BY <1>3 DEF tool_span
<1>6. ~RootEnded(r) /\ Ended(q) = c + 1
  BY <1>1, <1>2 DEF RootEnded, Ended
<1>7. SpanOK(t, q, s) /\ Place(q, s) = c + 1
  BY <1>1, <1>2, <1>4, <1>5 DEF SpanOK, Place
<1>8. PICK more : more = <<s>>
  OBVIOUS
<1>9. more \in Seq(Spans) /\ Len(more) = 1 /\ more[1] = s
  BY <1>4, <1>8
<1>10. \A i \in 1..Len(more) : SpanOK(t, q, more[i]) /\ Place(q, more[i]) = r.calls + i
  <2> SUFFICES ASSUME NEW i \in 1..1
               PROVE  SpanOK(t, q, more[i]) /\ Place(q, more[i]) = r.calls + i
    BY <1>9
  <2>1. i = 1
    OBVIOUS
  <2> QED
    BY <1>1, <1>7, <1>9, <2>1
<1>11. r.calls \in Nat /\ q.calls \in Nat /\ r.calls <= q.calls /\ Len(more) = Ended(q) - r.calls
  BY <1>1, <1>2, <1>6, <1>9
<1>12. TraceOK(t, q, p \o more, kept, lost)
  BY <1>6, <1>9, <1>10, <1>11, Appended
<1>13. TraceOK(t, q, p \o <<tool_span(t, r.calls + 1, TRUE)>>, kept, lost)
  BY <1>1, <1>3, <1>8, <1>12, Zenon
<1> QED
  BY <1>1, <1>2, <1>13 DEF Pcs, PlannedCalls

\* A tool raises: its span ends first, then the root's, without a verdict.
LEMMA ToolFails ==
  ASSUME NEW t \in Traces, NEW r \in [pc : Pcs, calls : 0..PlannedCalls],
         NEW p, NEW kept, NEW lost, TraceOK(t, r, p, kept, lost),
         r.pc = "running", r.calls < PlannedCalls,
         NEW q, q = [r EXCEPT !.pc = "failed", !.calls = @ + 1]
  PROVE  /\ q \in [pc : Pcs, calls : 0..PlannedCalls]
         /\ TraceOK(t, q, p \o <<tool_span(t, r.calls + 1, FALSE), root_span(t, FALSE)>>, kept, lost)
<1>1. PICK c \in Nat : c = r.calls /\ c + 1 \in 1..PlannedCalls
  BY DEF PlannedCalls
<1>2. q.pc = "failed" /\ q.calls = c + 1
  BY <1>1
<1>3. PICK s, x : s = tool_span(t, c + 1, FALSE) /\ x = root_span(t, FALSE)
  OBVIOUS
<1>4. s \in Spans /\ x \in Spans
  BY <1>1, <1>3, SpansMade, Zenon
<1>5. s.trace = t /\ s.start = c + 1 /\ x.trace = t /\ x.start = 0 /\ x.gate_status = "none"
  BY <1>3 DEF tool_span, root_span
<1>6. ~RootEnded(r) /\ Ended(q) = c + 2
  BY <1>1, <1>2 DEF RootEnded, Ended
<1>7. SpanOK(t, q, s) /\ Place(q, s) = c + 1 /\ SpanOK(t, q, x) /\ Place(q, x) = c + 2
  BY <1>1, <1>2, <1>4, <1>5 DEF SpanOK, Place, RootEnded
<1>8. PICK more : more = <<s, x>>
  OBVIOUS
<1>9. more \in Seq(Spans) /\ Len(more) = 2 /\ more[1] = s /\ more[2] = x
  BY <1>4, <1>8
<1>10. \A i \in 1..Len(more) : SpanOK(t, q, more[i]) /\ Place(q, more[i]) = r.calls + i
  <2> SUFFICES ASSUME NEW i \in 1..2
               PROVE  SpanOK(t, q, more[i]) /\ Place(q, more[i]) = r.calls + i
    BY <1>9
  <2>1. i = 1 \/ i = 2
    OBVIOUS
  <2> QED
    BY <1>1, <1>7, <1>9, <2>1
<1>11. r.calls \in Nat /\ q.calls \in Nat /\ r.calls <= q.calls /\ Len(more) = Ended(q) - r.calls
  BY <1>1, <1>2, <1>6, <1>9
<1>12. TraceOK(t, q, p \o more, kept, lost)
  BY <1>6, <1>9, <1>10, <1>11, Appended
<1>13. TraceOK(t, q, p \o <<tool_span(t, r.calls + 1, FALSE), root_span(t, FALSE)>>, kept, lost)
  BY <1>1, <1>3, <1>8, <1>12, Zenon
<1>14. q = [pc |-> "failed", calls |-> c + 1]
  BY <1>1
<1>15. q \in [pc : Pcs, calls : 0..PlannedCalls]
  BY <1>1, <1>14 DEF Pcs, PlannedCalls
<1> QED
  BY <1>13, <1>15

\* The run ends: its root span carries the verdict the run paused with, or none.
LEMMA RunEnds ==
  ASSUME NEW t \in Traces, NEW r \in [pc : Pcs, calls : 0..PlannedCalls],
         NEW p, NEW kept, NEW lost, TraceOK(t, r, p, kept, lost),
         r.pc = "running", NEW ok \in BOOLEAN,
         NEW q, q = [r EXCEPT !.pc = IF ok THEN "paused" ELSE "failed"]
  PROVE  /\ q \in [pc : Pcs, calls : 0..PlannedCalls] /\ q.calls = r.calls
         /\ TraceOK(t, q, p \o <<root_span(t, ok)>>, kept, lost)
<1>1. PICK c \in Nat : c = r.calls /\ c \in 0..PlannedCalls
  BY DEF PlannedCalls
<1>2. q.pc = (IF ok THEN "paused" ELSE "failed") /\ q.calls = c
  BY <1>1
<1>3. PICK x : x = root_span(t, ok)
  OBVIOUS
<1>4. x \in Spans
  BY <1>3, SpansMade, Zenon
<1>5. x.trace = t /\ x.start = 0 /\ x.gate_status = IF ok THEN "auto_write" ELSE "none"
  BY <1>3 DEF root_span
<1>6. ~RootEnded(r) /\ RootEnded(q) /\ Ended(q) = c + 1
  BY <1>1, <1>2 DEF RootEnded, Ended
<1>7. SpanOK(t, q, x) /\ Place(q, x) = c + 1
  BY <1>1, <1>2, <1>4, <1>5, <1>6 DEF SpanOK, Place
<1>8. PICK more : more = <<x>>
  OBVIOUS
<1>9. more \in Seq(Spans) /\ Len(more) = 1 /\ more[1] = x
  BY <1>4, <1>8
<1>10. \A i \in 1..Len(more) : SpanOK(t, q, more[i]) /\ Place(q, more[i]) = r.calls + i
  <2> SUFFICES ASSUME NEW i \in 1..1
               PROVE  SpanOK(t, q, more[i]) /\ Place(q, more[i]) = r.calls + i
    BY <1>9
  <2>1. i = 1
    OBVIOUS
  <2> QED
    BY <1>1, <1>7, <1>9, <2>1
<1>11. r.calls \in Nat /\ q.calls \in Nat /\ r.calls <= q.calls /\ Len(more) = Ended(q) - r.calls
  BY <1>1, <1>2, <1>6, <1>9
<1>12. TraceOK(t, q, p \o more, kept, lost)
  BY <1>6, <1>9, <1>10, <1>11, Appended
<1> QED
  BY <1>1, <1>2, <1>3, <1>8, <1>12 DEF Pcs

\* What is known of one trace.
LEMMA OneTrace ==
  ASSUME TypeInv, TracesInv, NEW t \in Traces
  PROVE  /\ run[t] \in [pc : Pcs, calls : 0..PlannedCalls]
         /\ run[t].calls \in Nat
         /\ pending[t] \in Seq(Spans)
         /\ TraceOK(t, run[t], pending[t], Of(t, stored), Of(t, dropped))
<1>1. run[t] \in [pc : Pcs, calls : 0..PlannedCalls] /\ pending[t] \in Seq(Spans)
  BY DEF TypeInv
<1>2. run[t].calls \in Nat
  BY <1>1 DEF PlannedCalls
<1> QED
  BY <1>1, <1>2 DEF TracesInv

\* The steps of a run that end spans.
LEMMA SpansEnd ==
  ASSUME TypeInv, TracesInv, NEW t \in Traces,
         tool_call(t) \/ tool_raises(t) \/ finish_run(t)
  PROVE  TypeInv' /\ TracesInv'
<1> DEFINE r == run[t]
           p == pending[t]
<1>1. /\ r \in [pc : Pcs, calls : 0..PlannedCalls] /\ p \in Seq(Spans)
      /\ TraceOK(t, r, p, Of(t, stored), Of(t, dropped))
  BY OneTrace
<1>2. stored' = stored /\ dropped' = dropped /\ r.pc = "running"
  BY DEF tool_call, tool_raises, finish_run, phoenix
<1>3. \E q, l :
         /\ q \in [pc : Pcs, calls : 0..PlannedCalls]
         /\ run' = [run EXCEPT ![t] = q] /\ pending' = [pending EXCEPT ![t] = l]
         /\ TraceOK(t, q, l, Of(t, stored), Of(t, dropped))
         /\ q.pc = "paused" => q.calls = PlannedCalls
  <2>1. CASE tool_call(t)
    <3>1. PICK q : q = [r EXCEPT !.calls = @ + 1]
      OBVIOUS
    <3>2. q \in [pc : Pcs, calls : 0..PlannedCalls] /\ r.calls < PlannedCalls
          /\ TraceOK(t, q, p \o <<tool_span(t, r.calls + 1, TRUE)>>, Of(t, stored), Of(t, dropped))
      BY <1>1, <1>2, <2>1, <3>1, ToolReturns DEF tool_call
    <3>3. run' = [run EXCEPT ![t] = q]
      BY <2>1, <3>1 DEF tool_call, TypeInv
    <3>4. pending' = [pending EXCEPT ![t] = p \o <<tool_span(t, r.calls + 1, TRUE)>>]
      BY <2>1 DEF tool_call, Ends
    <3>5. q.pc = "running"
      BY <1>1, <1>2, <3>1
    <3> QED
      BY <3>2, <3>3, <3>4, <3>5
  <2>2. CASE tool_raises(t)
    <3>1. PICK q : q = [r EXCEPT !.pc = "failed", !.calls = @ + 1]
      OBVIOUS
    <3>2. q \in [pc : Pcs, calls : 0..PlannedCalls] /\ r.calls < PlannedCalls
          /\ TraceOK(t, q, p \o <<tool_span(t, r.calls + 1, FALSE), root_span(t, FALSE)>>,
                     Of(t, stored), Of(t, dropped))
      BY <1>1, <1>2, <2>2, <3>1, ToolFails DEF tool_raises
    <3>3. run' = [run EXCEPT ![t] = q]
      BY <2>2, <3>1 DEF tool_raises, TypeInv
    <3>4. pending' = [pending EXCEPT ![t] =
                        p \o <<tool_span(t, r.calls + 1, FALSE), root_span(t, FALSE)>>]
      BY <2>2 DEF tool_raises, Ends
    <3>5. q.pc = "failed"
      BY <1>1, <3>1
    <3> QED
      BY <3>2, <3>3, <3>4, <3>5
  <2>3. CASE finish_run(t)
    <3>1. PICK ok \in BOOLEAN :
             /\ run' = [run EXCEPT ![t].pc = IF ok THEN "paused" ELSE "failed"]
             /\ pending' = [pending EXCEPT ![t] = @ \o <<root_span(t, ok)>>]
      BY <2>3 DEF finish_run, Ends
    <3>2. PICK q : q = [r EXCEPT !.pc = IF ok THEN "paused" ELSE "failed"]
      OBVIOUS
    <3>3. /\ q \in [pc : Pcs, calls : 0..PlannedCalls] /\ q.calls = r.calls
          /\ TraceOK(t, q, p \o <<root_span(t, ok)>>, Of(t, stored), Of(t, dropped))
      BY <1>1, <1>2, <3>2, RunEnds
    <3>4. run' = [run EXCEPT ![t] = q]
      BY <3>1, <3>2 DEF TypeInv
    <3>5. pending' = [pending EXCEPT ![t] = p \o <<root_span(t, ok)>>]
      BY <3>1
    <3>6. r.calls = PlannedCalls
      BY <2>3 DEF finish_run
    <3> QED
      BY <3>3, <3>4, <3>5, <3>6
  <2> QED
    BY <2>1, <2>2, <2>3
<1> HIDE DEF r, p
<1>4. PICK q, l :
         /\ q \in [pc : Pcs, calls : 0..PlannedCalls]
         /\ run' = [run EXCEPT ![t] = q] /\ pending' = [pending EXCEPT ![t] = l]
         /\ TraceOK(t, q, l, Of(t, stored), Of(t, dropped))
         /\ q.pc = "paused" => q.calls = PlannedCalls
  BY <1>3
<1>5. TracesInv'
  BY <1>2, <1>4, OthersAlone
<1>6. l \in Seq(Spans)
  BY <1>4 DEF TraceOK
<1>7. TypeInv'
  BY <1>2, <1>4, <1>6 DEF TypeInv
<1> QED
  BY <1>5, <1>7

\* A run starts.
LEMMA RunStarts ==
  ASSUME TypeInv, TracesInv, NEW t \in Traces, start_run(t)
  PROVE  TypeInv' /\ TracesInv'
<1>1. /\ run[t] \in [pc : Pcs, calls : 0..PlannedCalls] /\ pending[t] \in Seq(Spans)
      /\ run[t].calls \in Nat
      /\ TraceOK(t, run[t], pending[t], Of(t, stored), Of(t, dropped))
  BY OneTrace
<1>2. /\ run[t].pc = "none" /\ stored' = stored /\ dropped' = dropped /\ pending' = pending
      /\ run' = [run EXCEPT ![t].pc = "running"]
  BY DEF start_run, phoenix
<1>3. PICK q : q = [run[t] EXCEPT !.pc = "running"]
  OBVIOUS
<1>4. q.pc = "running" /\ q.calls = run[t].calls /\ q \in [pc : Pcs, calls : 0..PlannedCalls]
  BY <1>1, <1>3 DEF Pcs
<1>5. run' = [run EXCEPT ![t] = q]
  BY <1>2, <1>3 DEF TypeInv
<1>6. TraceOK(t, q, pending[t], Of(t, stored), Of(t, dropped))
  <2>1. ~RootEnded(run[t]) /\ ~RootEnded(q)
    BY <1>2, <1>4 DEF RootEnded
  <2> QED
    BY <1>1, <1>4, <2>1, Relabelled
<1>7. pending' = [pending EXCEPT ![t] = pending[t]]
  BY <1>2 DEF TypeInv
<1>8. TracesInv'
  BY <1>2, <1>5, <1>6, <1>7, OthersAlone
<1>9. TypeInv'
  BY <1>2, <1>4, <1>5 DEF TypeInv
<1> QED
  BY <1>8, <1>9

\* A process dies: what its exporter holds is lost.
LEMMA RunCrashes ==
  ASSUME TypeInv, TracesInv, NEW t \in Traces, crash(t)
  PROVE  TypeInv' /\ TracesInv'
<1>1. /\ run[t] \in [pc : Pcs, calls : 0..PlannedCalls] /\ pending[t] \in Seq(Spans)
      /\ run[t].calls \in Nat
      /\ TraceOK(t, run[t], pending[t], Of(t, stored), Of(t, dropped))
  BY OneTrace
<1>2. /\ stored' = stored /\ dropped' = dropped \cup ToSet(pending[t])
      /\ pending' = [pending EXCEPT ![t] = <<>>]
      /\ run' = [run EXCEPT ![t].pc = IF @ = "running" THEN "crashed" ELSE @]
  BY DEF crash
<1>3. PICK batch : batch = ToSet(pending[t])
  OBVIOUS
<1>4. /\ batch = ToSet(SubSeq(pending[t], 1, Len(pending[t])))
      /\ <<>> = SubSeq(pending[t], Len(pending[t]) + 1, Len(pending[t]))
  BY <1>1, <1>3, AllSent
<1>5. TraceOK(t, run[t], <<>>, Of(t, stored), Of(t, dropped) \cup batch)
  <2>1. Len(pending[t]) \in 0..Len(pending[t])
    BY <1>1
  <2>2. TraceOK(t, run[t], pending[t], Of(t, dropped), Of(t, stored))
    BY <1>1, Swapped
  <2>3. TraceOK(t, run[t], <<>>, Of(t, dropped) \cup batch, Of(t, stored))
    BY <1>1, <1>4, <2>1, <2>2, Sent
  <2> QED
    BY <2>3, Swapped
<1>6. PICK q : q = [run[t] EXCEPT !.pc = IF @ = "running" THEN "crashed" ELSE @]
  OBVIOUS
<1>7. /\ q.pc = (IF run[t].pc = "running" THEN "crashed" ELSE run[t].pc)
      /\ q.calls = run[t].calls /\ q \in [pc : Pcs, calls : 0..PlannedCalls]
  BY <1>1, <1>6 DEF Pcs
<1>8. run' = [run EXCEPT ![t] = q]
  BY <1>2, <1>6 DEF TypeInv
<1>9. TraceOK(t, q, <<>>, Of(t, stored), Of(t, dropped) \cup batch)
  <2>1. CASE run[t].pc = "running"
    <3>1. ~RootEnded(run[t]) /\ ~RootEnded(q)
      BY <1>7, <2>1 DEF RootEnded
    <3> QED
      BY <1>1, <1>5, <1>7, <3>1, Relabelled
  <2>2. CASE run[t].pc # "running"
    <3>1. q = run[t]
      BY <1>1, <1>6, <2>2
    <3> QED
      BY <1>5, <3>1
  <2> QED
    BY <2>1, <2>2
<1>10. batch \subseteq Spans /\ \A s \in batch : s.trace = t
  BY <1>9 DEF TraceOK, SpanOK
<1>11. /\ Of(t, dropped') = Of(t, dropped) \cup batch
       /\ \A u \in Traces \ {t} : Of(u, dropped') = Of(u, dropped)
  BY <1>2, <1>3, <1>10 DEF Of
<1>12. TracesInv'
  <2>1. \A u \in Traces \ {t} : Of(u, stored') = Of(u, stored) /\ Of(u, dropped') = Of(u, dropped)
    BY <1>2, <1>11
  <2>2. TraceOK(t, q, <<>>, Of(t, stored'), Of(t, dropped'))
    BY <1>2, <1>9, <1>11
  <2> QED
    BY <1>2, <1>8, <2>1, <2>2, OthersAlone
<1>13. <<>> \in Seq(Spans)
  OBVIOUS
<1>14. TypeInv'
  <2>1. \A u \in Traces : run'[u].pc = "paused" => run'[u].calls = PlannedCalls
    BY <1>7, <1>8 DEF TypeInv
  <2>2. run' \in [Traces -> [pc : Pcs, calls : 0..PlannedCalls]]
    BY <1>7, <1>8 DEF TypeInv
  <2>3. pending' \in [Traces -> Seq(Spans)]
    BY <1>2, <1>13 DEF TypeInv
  <2> QED
    BY <1>2, <1>3, <1>10, <2>1, <2>2, <2>3 DEF TypeInv
<1> QED
  BY <1>12, <1>14

\* A batch leaves for Phoenix, and arrives or is lost.
LEMMA BatchLeaves ==
  ASSUME TypeInv, TracesInv, NEW t \in Traces, export(t)
  PROVE  TypeInv' /\ TracesInv'
<1>1. /\ run[t] \in [pc : Pcs, calls : 0..PlannedCalls] /\ pending[t] \in Seq(Spans)
      /\ run[t].calls \in Nat
      /\ TraceOK(t, run[t], pending[t], Of(t, stored), Of(t, dropped))
  BY OneTrace
<1>2. PICK n \in 1..Len(pending[t]) :
         LET batch == ToSet(SubSeq(pending[t], 1, n)) IN
         /\ pending' = [pending EXCEPT ![t] = SubSeq(@, n + 1, Len(@))]
         /\ \/ stored' = stored \cup batch /\ UNCHANGED <<dropped, drops>>
            \/ /\ drops < MaxDrops /\ drops' = drops + 1
               /\ dropped' = dropped \cup batch
               /\ UNCHANGED stored
         /\ UNCHANGED <<run, viewer>>
  BY DEF export
<1>3. PICK batch : batch = ToSet(SubSeq(pending[t], 1, n))
  OBVIOUS
<1>4. PICK rest : rest = SubSeq(pending[t], n + 1, Len(pending[t]))
  OBVIOUS
<1>5. run' = run /\ pending' = [pending EXCEPT ![t] = rest]
  BY <1>2, <1>4
<1>6. n \in 0..Len(pending[t])
  BY <1>1
<1>7. /\ TraceOK(t, run[t], rest, Of(t, stored) \cup batch, Of(t, dropped))
      /\ TraceOK(t, run[t], rest, Of(t, stored), Of(t, dropped) \cup batch)
  <2>1. TraceOK(t, run[t], rest, Of(t, stored) \cup batch, Of(t, dropped))
    BY <1>1, <1>3, <1>4, <1>6, Sent
  <2>2. TraceOK(t, run[t], pending[t], Of(t, dropped), Of(t, stored))
    BY <1>1, Swapped
  <2>3. TraceOK(t, run[t], rest, Of(t, dropped) \cup batch, Of(t, stored))
    BY <1>1, <1>3, <1>4, <1>6, <2>2, Sent
  <2> QED
    BY <2>1, <2>3, Swapped
<1>8. rest \in Seq(Spans) /\ batch \subseteq Spans /\ \A s \in batch : s.trace = t
  BY <1>7 DEF TraceOK, SpanOK
<1>9. run' = [run EXCEPT ![t] = run[t]]
  BY <1>5 DEF TypeInv
<1>10. \/ stored' = stored \cup batch /\ dropped' = dropped
       \/ dropped' = dropped \cup batch /\ stored' = stored
  BY <1>2, <1>3, Zenon
<1>11. /\ TraceOK(t, run[t], rest, Of(t, stored'), Of(t, dropped'))
       /\ \A u \in Traces \ {t} : Of(u, stored') = Of(u, stored) /\ Of(u, dropped') = Of(u, dropped)
  <2>1. CASE stored' = stored \cup batch /\ dropped' = dropped
    <3>1. /\ Of(t, stored') = Of(t, stored) \cup batch
          /\ \A u : u # t => Of(u, stored') = Of(u, stored)
      BY <1>8, <2>1 DEF Of
    <3> QED
      BY <1>7, <2>1, <3>1
  <2>2. CASE dropped' = dropped \cup batch /\ stored' = stored
    <3>1. /\ Of(t, dropped') = Of(t, dropped) \cup batch
          /\ \A u : u # t => Of(u, dropped') = Of(u, dropped)
      BY <1>8, <2>2 DEF Of
    <3> QED
      BY <1>7, <2>2, <3>1
  <2> QED
    BY <1>10, <2>1, <2>2
<1>12. TracesInv'
  BY <1>5, <1>9, <1>11, OthersAlone
<1>13. TypeInv'
  BY <1>5, <1>8, <1>10 DEF TypeInv
<1> QED
  BY <1>12, <1>13

\* TypeInv and TracesInv are inductive.
LEMMA TracesKept ==
  ASSUME TypeInv, TracesInv, [Next]_vars
  PROVE  TypeInv' /\ TracesInv'
<1>1. CASE \E t \in Traces : start_run(t)
  BY <1>1, RunStarts
<1>2. CASE \E t \in Traces : tool_call(t) \/ tool_raises(t) \/ finish_run(t)
  BY <1>2, SpansEnd
<1>3. CASE \E t \in Traces : crash(t)
  BY <1>3, RunCrashes
<1>4. CASE \E t \in Traces : export(t)
  BY <1>4, BatchLeaves
<1>5. CASE find_run_span \/ get_run \/ UNCHANGED vars
  BY <1>5 DEF find_run_span, get_run, vars, phoenix, TypeInv, TracesInv
<1> QED
  BY <1>1, <1>2, <1>3, <1>4, <1>5 DEF Next
--------------------------------------------------------------------------------
(* A trace whose root span is stored. *)

\* Its run has ended and its exporter holds nothing.
LEMMA RootLast ==
  ASSUME TypeInv, TracesInv, NEW t \in Traces, RootStored(t)
  PROVE  /\ RootEnded(run[t]) /\ pending[t] = <<>>
         /\ \E s \in Of(t, stored) : s.start = 0 /\ ~s.parent
<1>1. /\ pending[t] \in Seq(Spans) /\ run[t].calls \in Nat
      /\ TraceOK(t, run[t], pending[t], Of(t, stored), Of(t, dropped))
  BY OneTrace
<1>2. PICK s \in Of(t, stored) : ~s.parent
  BY DEF RootStored, Of
<1>3. SpanOK(t, run[t], s) /\ Place(run[t], s) <= Ended(run[t]) - Len(pending[t])
  BY <1>1, <1>2 DEF TraceOK
<1>4. s.start = 0
  BY <1>2, <1>3, SpanFields DEF SpanOK
<1>5. RootEnded(run[t]) /\ Place(run[t], s) = run[t].calls + 1 /\ Ended(run[t]) = run[t].calls + 1
  BY <1>3, <1>4 DEF SpanOK, Place, Ended
<1>6. PICK c \in Nat, m \in Nat : c = run[t].calls /\ m = Len(pending[t])
  BY <1>1
<1>7. c + 1 <= c + 1 - m
  BY <1>3, <1>5, <1>6
<1>8. m = 0
  BY <1>7
<1>9. pending[t] = <<>>
  BY <1>1, <1>6, <1>8, EmptySeq
<1> QED
  BY <1>2, <1>4, <1>5, <1>9

\* No step changes what is stored or lost of it.
LEMMA Frozen ==
  ASSUME TypeInv, TracesInv, [Next]_vars, NEW t \in Traces, RootStored(t)
  PROVE  /\ run'[t] = run[t] /\ RootStored(t)'
         /\ Of(t, stored') = Of(t, stored) /\ Of(t, dropped') = Of(t, dropped)
<1>1. RootEnded(run[t]) /\ pending[t] = <<>>
  BY RootLast
<1>2. run[t].pc = "paused" \/ run[t].pc = "failed"
  BY <1>1 DEF RootEnded
<1> DEFINE Same == /\ run'[t] = run[t]
                   /\ Of(t, stored') = Of(t, stored) /\ Of(t, dropped') = Of(t, dropped)
<1>3. Same
  <2>1. ASSUME NEW u \in Traces, start_run(u)
        PROVE  Same
    BY <1>2, <2>1 DEF start_run, phoenix, TypeInv
  <2>2. ASSUME NEW u \in Traces, tool_call(u) \/ tool_raises(u) \/ finish_run(u)
        PROVE  Same
    <3>1. stored' = stored /\ dropped' = dropped /\ run[u].pc = "running"
      BY <2>2 DEF tool_call, tool_raises, finish_run, phoenix
    <3>2. u # t
      BY <1>2, <3>1
    <3>3. run'[t] = run[t]
      BY <2>2, <3>2 DEF tool_call, tool_raises, finish_run, TypeInv
    <3> QED
      BY <3>1, <3>3
  <2>3. ASSUME NEW u \in Traces, crash(u)
        PROVE  Same
    <3>1. u # t
      BY <1>1, <1>2, <2>3 DEF crash
    <3>2. run'[t] = run[t] /\ stored' = stored /\ dropped' = dropped \cup ToSet(pending[u])
      BY <2>3, <3>1 DEF crash, TypeInv
    <3>3. \A s \in ToSet(pending[u]) : s.trace = u
      <4>1. /\ pending[u] \in Seq(Spans)
            /\ TraceOK(u, run[u], pending[u], Of(u, stored), Of(u, dropped))
        BY <2>3, OneTrace
      <4>2. \A s \in ToSet(pending[u]) : \E i \in 1..Len(pending[u]) : pending[u][i] = s
        BY <4>1, FinitelyMany
      <4> QED
        BY <4>1, <4>2 DEF TraceOK, SpanOK
    <3> QED
      BY <3>1, <3>2, <3>3 DEF Of
  <2>4. ASSUME NEW u \in Traces, export(u)
        PROVE  Same
    <3>1. PICK n \in 1..Len(pending[u]) :
             LET batch == ToSet(SubSeq(pending[u], 1, n)) IN
             /\ \/ stored' = stored \cup batch /\ dropped' = dropped
                \/ dropped' = dropped \cup batch /\ stored' = stored
             /\ run' = run
      BY <2>4 DEF export
    <3>2. PICK batch : batch = ToSet(SubSeq(pending[u], 1, n))
      OBVIOUS
    <3>3. u # t
      BY <1>1, <3>1
    <3>4. \A s \in batch : s.trace = u
      <4>1. /\ pending[u] \in Seq(Spans) /\ run[u].calls \in Nat
            /\ TraceOK(u, run[u], pending[u], Of(u, stored), Of(u, dropped))
        BY <2>4, OneTrace
      <4>2. n \in 0..Len(pending[u])
        BY <4>1
      <4>3. PICK rest : rest = SubSeq(pending[u], n + 1, Len(pending[u]))
        OBVIOUS
      <4>4. TraceOK(u, run[u], rest, Of(u, stored) \cup batch, Of(u, dropped))
        BY <3>2, <4>1, <4>2, <4>3, Sent
      <4> QED
        BY <4>4 DEF TraceOK, SpanOK
    <3>5. \/ stored' = stored \cup batch /\ dropped' = dropped
          \/ dropped' = dropped \cup batch /\ stored' = stored
      BY <3>1, <3>2, Zenon
    <3> QED
      BY <3>1, <3>3, <3>4, <3>5 DEF Of
  <2>5. CASE find_run_span \/ get_run \/ UNCHANGED vars
    BY <2>5 DEF find_run_span, get_run, vars, phoenix
  <2> QED
    BY <2>1, <2>2, <2>3, <2>4, <2>5 DEF Next
<1>4. RootStored(t)'
  <2>1. PICK s \in Of(t, stored) : ~s.parent
    BY DEF RootStored, Of
  <2>2. s \in stored' /\ s.trace = t
    BY <1>3, <2>1 DEF Of
  <2> QED
    BY <2>1, <2>2 DEF RootStored
<1> QED
  BY <1>3, <1>4

\* find_root_span finds the root: it started before the calls of its trace.
LEMMA RootFound ==
  ASSUME TypeInv, TracesInv, NEW t \in Traces, RootStored(t), NEW root,
         root = find_root_span(Of(t, stored))
  PROVE  root \in Of(t, stored) /\ root.start = 0 /\ root.trace = t
<1>1. PICK spans : spans = Of(t, stored) /\ spans \subseteq Spans
  BY DEF TypeInv, Of
<1>2. PICK first \in spans : first.start = 0 /\ ~first.parent
  BY <1>1, RootLast
<1>3. PICK parentless : parentless = {s \in spans : ~s.parent}
  OBVIOUS
<1>4. parentless # {} /\ first \in parentless
  BY <1>2, <1>3
<1>5. \A s \in parentless : s.start = 0
  BY <1>1, <1>3, SpanFields
<1>6. \A x \in parentless : first.start <= x.start
  BY <1>2, <1>5
<1>7. root = earliest(parentless)
  BY <1>1, <1>3, <1>4 DEF find_root_span
<1>8. root \in parentless
  BY <1>4, <1>6, <1>7 DEF earliest
<1> QED
  BY <1>1, <1>3, <1>5, <1>8 DEF Of

\* Of several runs one started last.
LEMMA LatestFound ==
  ASSUME stored \subseteq Spans, run_spans # {}
  PROVE  /\ latest_run_span \in run_spans
         /\ \A x \in run_spans : x.trace <= latest_run_span.trace
<1>1. PICK M \in Nat : M = MaxTraces
  BY BoundsAssumption
<1>2. \A s \in run_spans : s.trace \in 1..M
  BY <1>1, SpanFields DEF run_spans, Traces
<1> DEFINE behind == {M - s.trace : s \in run_spans}
<1>3. behind \in SUBSET Nat /\ behind # {}
  BY <1>2
<1> HIDE DEF behind
<1>4. PICK d \in behind : \A e \in behind : d <= e
  BY <1>3, First
<1>5. PICK s \in run_spans : d = M - s.trace
  BY <1>4 DEF behind
<1>6. \A x \in run_spans : x.trace <= s.trace
  <2> SUFFICES ASSUME NEW x \in run_spans PROVE x.trace <= s.trace
    OBVIOUS
  <2>1. M - x.trace \in behind
    BY DEF behind
  <2>2. M - s.trace <= M - x.trace
    BY <1>4, <1>5, <2>1, Zenon
  <2> QED
    BY <1>2, <2>2
<1> QED
  BY <1>6 DEF latest_run_span

\* ReaderInv and AuditInv are inductive with them.
LEMMA AuditsKept ==
  ASSUME IInv, [Next]_vars
  PROVE  ReaderInv' /\ AuditInv'
<1>1. TypeInv /\ TracesInv /\ ReaderInv /\ AuditInv /\ TypeInv' /\ TracesInv'
  BY TracesKept DEF IInv
<1>2. \A t : RootStored(t) => t \in Traces
  BY <1>1, SpanFields DEF RootStored, TypeInv
<1>3. \A t : RootStored(t) => RootStored(t)' /\ Of(t, stored') = Of(t, stored)
  BY <1>1, <1>2, Frozen
<1>4. CASE audit' = audit /\ reader' = reader
  <2>1. ReaderInv'
    BY <1>1, <1>3, <1>4 DEF ReaderInv
  <2>2. AuditInv'
    BY <1>1, <1>3, <1>4 DEF AuditInv
  <2> QED
    BY <2>1, <2>2
<1>5. CASE find_run_span
  <2>1. PICK s \in run_spans : s = latest_run_span /\ \A x \in run_spans : x.trace <= s.trace
    BY <1>1, <1>5, LatestFound DEF TypeInv, find_run_span
  <2>2. reader'.trace = s.trace /\ RootStored(s.trace) /\ audit' = audit /\ s.trace \in Traces
    BY <1>2, <1>5, <2>1 DEF find_run_span, run_spans, RootStored
  <2>3. audit.trace <= s.trace
    <3>1. CASE audit = NoAudit
      BY <2>2, <3>1 DEF NoAudit, NoTrace, Traces
    <3>2. CASE RootStored(audit.trace)
      BY <2>1, <3>2 DEF RootStored, run_spans
    <3> QED
      BY <1>1, <3>1, <3>2 DEF AuditInv
  <2>4. ReaderInv'
    BY <1>3, <2>2, <2>3 DEF ReaderInv
  <2>5. AuditInv'
    BY <1>1, <1>3, <2>2 DEF AuditInv
  <2> QED
    BY <2>4, <2>5
<1>6. CASE get_run
  <2>1. PICK t : t = reader.trace
    OBVIOUS
  <2>2. RootStored(t) /\ t \in Traces /\ stored' = stored /\ reader' = Idle
    BY <1>1, <1>2, <1>6, <2>1 DEF get_run, ReaderInv, phoenix
  <2>3. audit' = reconstruct_run_audit(Of(t, stored))
    BY <1>6, <2>1 DEF get_run, Of
  <2>4. PICK root : root = find_root_span(Of(t, stored))
    OBVIOUS
  <2>5. root.trace = t
    BY <1>1, <2>2, <2>4, RootFound
  <2>6. audit'.trace = t
    BY <2>3, <2>4, <2>5 DEF reconstruct_run_audit
  <2>7. RootStored(t)'
    BY <1>3, <2>2
  <2>8. AuditInv'
    BY <2>2, <2>3, <2>6, <2>7 DEF AuditInv
  <2>9. ReaderInv'
    BY <2>2 DEF ReaderInv, Idle
  <2> QED
    BY <2>8, <2>9
<1> QED
  BY <1>4, <1>5, <1>6 DEF Next, vars, viewer, start_run, tool_call, tool_raises, finish_run, crash,
                          export

\* Every reachable state satisfies IInv.
LEMMA Invariance == Spec => []IInv
<1>1. Init => IInv
  <2> SUFFICES ASSUME Init PROVE IInv
    OBVIOUS
  <2>1. /\ run = [t \in Traces |-> [pc |-> "none", calls |-> 0]]
        /\ pending = [t \in Traces |-> <<>>] /\ stored = {} /\ dropped = {}
        /\ reader = Idle /\ audit = NoAudit
    BY DEF Init
  <2>2. <<>> \in Seq(Spans) /\ Len(<<>>) = 0
    BY EmptySeq
  <2>3. TypeInv
    BY <2>1, <2>2 DEF TypeInv, Pcs, PlannedCalls
  <2>4. TracesInv
    <3> SUFFICES ASSUME NEW t \in Traces
                 PROVE  TraceOK(t, run[t], pending[t], Of(t, stored), Of(t, dropped))
      BY DEF TracesInv
    <3>1. Ended(run[t]) = 0 /\ pending[t] = <<>> /\ Of(t, stored) = {} /\ Of(t, dropped) = {}
      BY <2>1 DEF Ended, RootEnded, Of
    <3>2. TraceOK(t, run[t], <<>>, {}, {})
      BY <2>2, <3>1, FS_EmptySet DEF TraceOK
    <3> QED
      BY <3>1, <3>2
  <2>5. ReaderInv /\ AuditInv
    BY <2>1 DEF ReaderInv, AuditInv, Idle
  <2> QED
    BY <2>3, <2>4, <2>5 DEF IInv
<1>2. IInv /\ [Next]_vars => IInv'
  <2> SUFFICES ASSUME IInv, [Next]_vars PROVE IInv'
    OBVIOUS
  <2>1. TypeInv' /\ TracesInv'
    BY TracesKept DEF IInv
  <2>2. ReaderInv' /\ AuditInv'
    BY AuditsKept
  <2> QED
    BY <2>1, <2>2 DEF IInv
<1> QED
  BY <1>1, <1>2, PTL DEF Spec
--------------------------------------------------------------------------------
(* What an audit shows. *)

Below(T, key, s) == {y \in T : key[y] < key[s]}

\* As many members of a finite set with distinct keys have a smaller key as the
\* place of a member says, and each place is taken.
LEMMA Ranked ==
  ASSUME NEW T, IsFiniteSet(T), NEW key \in [T -> Nat],
         \A s, x \in T : key[s] = key[x] => s = x
  PROVE  /\ \A s, x \in T :
                key[s] < key[x] => Cardinality(Below(T, key, s)) < Cardinality(Below(T, key, x))
         /\ \A i \in 1..Cardinality(T) : \E s \in T : Cardinality(Below(T, key, s)) = i - 1
<1> DEFINE below(s) == Below(T, key, s)
<1> USE DEF Below
<1>1. PICK c \in Nat : c = Cardinality(T)
  BY FS_CardinalityType
<1>2. \A s \in T : /\ IsFiniteSet(below(s)) /\ Cardinality(below(s)) \in Nat
                   /\ Cardinality(below(s)) < c
  <2> SUFFICES ASSUME NEW s \in T
               PROVE  /\ IsFiniteSet(below(s)) /\ Cardinality(below(s)) \in Nat
                      /\ Cardinality(below(s)) < c
    OBVIOUS
  <2>1. below(s) \in SUBSET T /\ below(s) # T
    OBVIOUS
  <2> HIDE DEF below, Below
  <2>2. /\ IsFiniteSet(below(s)) /\ Cardinality(below(s)) <= Cardinality(T)
        /\ Cardinality(below(s)) # Cardinality(T)
    BY <2>1, FS_Subset
  <2>3. Cardinality(below(s)) \in Nat
    BY <2>2, FS_CardinalityType
  <2> QED
    BY <1>1, <2>2, <2>3
<1>3. \A s, x \in T : key[s] < key[x] => Cardinality(below(s)) < Cardinality(below(x))
  <2> SUFFICES ASSUME NEW s \in T, NEW x \in T, key[s] < key[x]
               PROVE  Cardinality(below(s)) < Cardinality(below(x))
    OBVIOUS
  <2>1. below(s) \in SUBSET below(x)
    OBVIOUS
  <2>2. s \in below(x) /\ ~(s \in below(s))
    OBVIOUS
  <2> HIDE DEF below, Below
  <2>3. /\ Cardinality(below(s)) <= Cardinality(below(x))
        /\ Cardinality(below(s)) # Cardinality(below(x))
    BY <1>2, <2>1, <2>2, FS_Subset
  <2> QED
    BY <1>2, <2>3
<1> DEFINE rank == [s \in T |-> Cardinality(below(s))]
<1> HIDE DEF below, Below
<1>4. rank \in [T -> 0..c - 1]
  BY <1>1, <1>2
<1>5. \A s, x \in T : rank[s] = rank[x] => s = x
  <2> SUFFICES ASSUME NEW s \in T, NEW x \in T, rank[s] = rank[x] PROVE s = x
    OBVIOUS
  <2>1. Cardinality(below(s)) = Cardinality(below(x)) /\ Cardinality(below(s)) \in Nat
    BY <1>2
  <2>2. ~(key[s] < key[x]) /\ ~(key[x] < key[s])
    BY <1>2, <1>3, <2>1
  <2>3. key[s] = key[x]
    BY <2>2
  <2> QED
    BY <2>3
<1>6. rank \in Injection(T, 0..c - 1)
  BY <1>4, <1>5 DEF Injection, IsInjective
<1>7. IsFiniteSet(0..c - 1) /\ Cardinality(0..c - 1) = c
  <2>1. PICK d \in Int : d = c - 1
    BY <1>1
  <2>2. IsFiniteSet(0..d) /\ Cardinality(0..d) = IF 0 > d THEN 0 ELSE d - 0 + 1
    BY FS_Interval
  <2>3. Cardinality(0..d) = c
    BY <1>1, <2>1, <2>2
  <2> QED
    BY <2>1, <2>2, <2>3
<1>8. rank \in Surjection(T, 0..c - 1)
  BY <1>1, <1>6, <1>7, FS_Injection
<1>9. \A i \in 1..c : \E s \in T : Cardinality(below(s)) = i - 1
  <2> SUFFICES ASSUME NEW i \in 1..c PROVE \E s \in T : Cardinality(below(s)) = i - 1
    OBVIOUS
  <2>1. i - 1 \in 0..c - 1
    BY <1>1
  <2>2. PICK s \in T : rank[s] = i - 1
    BY <1>8, <2>1 DEF Surjection
  <2> QED
    BY <2>2
<1> QED
  BY <1>1, <1>3, <1>9 DEF below

\* ordered lists spans with distinct starts by their start.
LEMMA SpansInOrder ==
  ASSUME NEW T, T \subseteq Spans, IsFiniteSet(T), \A s, x \in T : s.start = x.start => s = x
  PROVE  /\ ordered(T) \in [1..Cardinality(T) -> T]
         /\ \A i, j \in 1..Cardinality(T) : i < j => ordered(T)[i].start < ordered(T)[j].start
<1> DEFINE key == [s \in T |-> s.start]
           below(s) == {y \in T : y.start < s.start}
<1>1. key \in [T -> Nat] /\ \A s \in T : s.start \in Nat
  BY SpanFields DEF PlannedCalls
<1>2. \A s, x \in T : key[s] = key[x] => s = x
  OBVIOUS
<1>3. \A s \in T : Below(T, key, s) = below(s)
  BY DEF Below
<1> HIDE DEF key, below
<1>4. PICK c \in Nat : c = Cardinality(T)
  BY FS_CardinalityType
<1>5. /\ \A s, x \in T : key[s] < key[x] => Cardinality(below(s)) < Cardinality(below(x))
      /\ \A i \in 1..c : \E s \in T : Cardinality(below(s)) = i - 1
  <2>1. /\ \A s, x \in T :
               key[s] < key[x] => Cardinality(Below(T, key, s)) < Cardinality(Below(T, key, x))
        /\ \A i \in 1..Cardinality(T) : \E s \in T : Cardinality(Below(T, key, s)) = i - 1
    BY <1>1, <1>2, Ranked, Zenon
  <2> QED
    BY <1>3, <1>4, <2>1
<1>6. PICK l : l = ordered(T)
  OBVIOUS
<1>7. l = [i \in 1..c |-> CHOOSE s \in T : Cardinality(below(s)) = i - 1]
  BY <1>4, <1>6 DEF ordered, below
<1>8. \A i \in 1..c : l[i] \in T /\ Cardinality(below(l[i])) = i - 1
  BY <1>5, <1>7
<1>9. l \in [1..c -> T]
  BY <1>7, <1>8
<1>10. \A i, j \in 1..c : i < j => l[i].start < l[j].start
  <2> SUFFICES ASSUME NEW i \in 1..c, NEW j \in 1..c, i < j PROVE l[i].start < l[j].start
    OBVIOUS
  <2>1. PICK s \in T, x \in T : s = l[i] /\ x = l[j]
    BY <1>8
  <2>2. Cardinality(below(s)) = i - 1 /\ Cardinality(below(x)) = j - 1
    BY <1>8, <2>1
  <2>3. ~(key[x] < key[s])
    BY <1>5, <2>2
  <2>4. key[s] # key[x]
    BY <1>2, <2>2
  <2>5. key[s] < key[x]
    BY <1>1, <2>3, <2>4
  <2> QED
    BY <2>1, <2>5 DEF key
<1> QED
  BY <1>4, <1>6, <1>9, <1>10

\* The calls of a trace whose spans were not lost.
Kept(t) == {n \in 1..run[t].calls : ~\E s \in dropped : s.trace = t /\ s.start = n}

\* Once the root span is stored, a tool span is stored for each of them.
LEMMA ToolSpansStored ==
  ASSUME TypeInv, TracesInv, NEW t \in Traces, RootStored(t),
         NEW T, T = {s \in Of(t, stored) : s.call.tool # "none"}
  PROVE  /\ T \subseteq Spans /\ IsFiniteSet(T) /\ \A s, x \in T : s.start = x.start => s = x
         /\ \A s \in T : s.start \in Kept(t) /\ s.call = planned_message(s.start)
         /\ Cardinality(T) = Cardinality(Kept(t)) /\ Cardinality(T) \in Nat
<1>1. /\ TraceOK(t, run[t], pending[t], Of(t, stored), Of(t, dropped))
      /\ RootEnded(run[t]) /\ Len(pending[t]) = 0
  BY OneTrace, RootLast, EmptySeq
<1>2. PICK c \in Nat : c = run[t].calls
  BY OneTrace
<1>3. Ended(run[t]) - Len(pending[t]) = c + 1
  BY <1>1, <1>2 DEF Ended
<1>4. T \subseteq Spans /\ T \subseteq Of(t, stored)
  BY DEF TypeInv, Of
<1>5. IsFiniteSet(T)
  BY <1>1, <1>4, FS_Subset DEF TraceOK
<1>6. \A s, x \in T : s.start = x.start => s = x
  BY <1>1, <1>4 DEF TraceOK
<1>7. \A s \in T : s.start \in Kept(t) /\ s.call = planned_message(s.start)
  <2> SUFFICES ASSUME NEW s \in T
               PROVE  s.start \in Kept(t) /\ s.call = planned_message(s.start)
    OBVIOUS
  <2>1. s.start \in 1..c /\ s.call = planned_message(s.start)
    <3>1. SpanOK(t, run[t], s)
      BY <1>1, <1>4 DEF TraceOK
    <3>2. s.start \in Nat /\ s.start # 0 /\ s.call = planned_message(s.start)
      BY <1>4, SpanFields DEF PlannedCalls
    <3> QED
      BY <1>2, <3>1, <3>2 DEF SpanOK
  <2>2. ~\E x \in dropped : x.trace = t /\ x.start = s.start
    <3>1. SUFFICES ASSUME NEW x \in Of(t, dropped), x.start = s.start PROVE FALSE
      BY DEF Of
    <3>2. x = s
      BY <1>1, <1>4, <3>1 DEF TraceOK
    <3> QED
      BY <1>1, <1>4, <3>1, <3>2 DEF TraceOK
  <2> QED
    BY <1>2, <2>1, <2>2 DEF Kept
<1>8. \A n \in Kept(t) : \E s \in T : s.start = n
  <2> SUFFICES ASSUME NEW n \in Kept(t) PROVE \E s \in T : s.start = n
    OBVIOUS
  <2>1. n \in 1..c /\ n \in 1..c + 1
    BY <1>2 DEF Kept
  <2>2. PICK s \in Of(t, stored) \cup Of(t, dropped) : Place(run[t], s) = n
    BY <1>1, <1>3, <2>1 DEF TraceOK
  <2>3. s.start = n
    BY <1>2, <2>1, <2>2 DEF Place
  <2>4. s \in Of(t, stored)
    BY <2>2, <2>3 DEF Kept, Of
  <2>5. s.call.tool # "none"
    BY <2>1, <2>3, <2>4, SpanFields DEF TypeInv, Of
  <2> QED
    BY <2>3, <2>4, <2>5
<1> DEFINE start == [s \in T |-> s.start]
<1>9. start \in Bijection(T, Kept(t))
  BY <1>6, <1>7, <1>8 DEF Bijection, Injection, Surjection, IsInjective
<1>10. Cardinality(T) = Cardinality(Kept(t)) /\ Cardinality(T) \in Nat
  BY <1>5, <1>9, FS_Bijection, FS_CardinalityType DEF ExistsBijection
<1> QED
  BY <1>4, <1>5, <1>6, <1>7, <1>10

\* The steps of its audit are those calls, in the order they were made.
LEMMA StepsShown ==
  ASSUME TypeInv, TracesInv, NEW t \in Traces, RootStored(t),
         NEW steps, steps = audit_steps(Of(t, stored))
  PROVE  \E made \in [1..Cardinality(Kept(t)) -> Kept(t)] :
            /\ \A i, j \in DOMAIN made : i < j => made[i] < made[j]
            /\ DOMAIN steps = DOMAIN made /\ Len(steps) = Cardinality(Kept(t))
            /\ \A i \in DOMAIN made : steps[i].call = planned_message(made[i])
<1>1. PICK T : T = {s \in Of(t, stored) : s.call.tool # "none"}
  OBVIOUS
<1>2. /\ T \subseteq Spans /\ IsFiniteSet(T) /\ \A s, x \in T : s.start = x.start => s = x
      /\ \A s \in T : s.start \in Kept(t) /\ s.call = planned_message(s.start)
      /\ Cardinality(T) = Cardinality(Kept(t)) /\ Cardinality(T) \in Nat
  BY <1>1, ToolSpansStored
<1>3. PICK c \in Nat : c = Cardinality(T) /\ c = Cardinality(Kept(t))
  BY <1>2
<1>4. PICK l : l = ordered(T)
  OBVIOUS
<1>5. l \in [1..c -> T] /\ \A i, j \in 1..c : i < j => l[i].start < l[j].start
  BY <1>2, <1>3, <1>4, SpansInOrder
<1>6. steps = [i \in DOMAIN l |-> [step |-> i, call |-> l[i].call, ok |-> l[i].result]]
  BY <1>1, <1>4 DEF audit_steps
<1>7. PICK made : made = [i \in 1..c |-> l[i].start]
  OBVIOUS
<1>8. made \in [1..c -> Kept(t)] /\ \A i, j \in 1..c : i < j => made[i] < made[j]
  BY <1>2, <1>5, <1>7
<1>9. DOMAIN steps = 1..c /\ \A i \in 1..c : steps[i].call = planned_message(made[i])
  BY <1>2, <1>5, <1>6, <1>7
<1>10. Len(steps) = c
  BY <1>3, <1>9
<1> QED
  BY <1>3, <1>8, <1>9, <1>10

\* The services of the whole investigation are the causal chain, from the alert
\* to the root.
LEMMA WholeChain ==
  ASSUME NEW steps, DOMAIN steps = 1..PlannedCalls,
         \A i \in 1..PlannedCalls : steps[i].call = planned_message(i)
  PROVE  services_from_steps(steps) = Reverse(causal_chain)
<1> DEFINE new(i) == \A j \in 1..i - 1 : steps[j].call.service # steps[i].call.service
<1>1. /\ steps[1].call.service = "payment-api" /\ steps[2].call.service = "payment-api"
      /\ steps[3].call.service = "auth-service" /\ steps[4].call.service = "auth-service"
      /\ steps[5].call.service = "postgres-main"
  BY DEF planned_message, Call, PlannedCalls
<1>2. new(1) /\ ~new(2) /\ new(3) /\ ~new(4) /\ new(5)
  <2>1. new(1)
    OBVIOUS
  <2>2. ~new(2)
    BY <1>1
  <2>3. new(3)
    <3>1. \A j \in 1..3 - 1 : j = 1 \/ j = 2
      OBVIOUS
    <3> QED
      BY <1>1, <3>1
  <2>4. ~new(4)
    <3>1. 3 \in 1..4 - 1
      OBVIOUS
    <3> QED
      BY <1>1, <3>1
  <2>5. new(5)
    <3>1. \A j \in 1..5 - 1 : j = 1 \/ j = 2 \/ j = 3 \/ j = 4
      OBVIOUS
    <3> QED
      BY <1>1, <3>1
  <2> QED
    BY <2>1, <2>2, <2>3, <2>4, <2>5
<1>3. PICK P : P = {i \in DOMAIN steps : new(i)}
  OBVIOUS
<1>4. P = {1, 3, 5}
  <2>1. \A i \in DOMAIN steps : i = 1 \/ i = 2 \/ i = 3 \/ i = 4 \/ i = 5
    BY DEF PlannedCalls
  <2>2. {1, 2, 3, 4, 5} \subseteq DOMAIN steps
    BY DEF PlannedCalls
  <2> HIDE DEF new
  <2> QED
    BY <1>2, <1>3, <2>1, <2>2
<1>5. PICK firsts : firsts = in_order(P)
  OBVIOUS
<1>6. /\ Cardinality({}) = 0 /\ Cardinality({1}) = 1 /\ Cardinality({1, 3}) = 2
      /\ Cardinality({1, 3, 5}) = 3
  <2>1. Cardinality({}) = 0 /\ IsFiniteSet({1}) /\ Cardinality({1}) = 1
    BY FS_EmptySet, FS_Singleton
  <2>2. PICK A : A = {1}
    OBVIOUS
  <2>3. IsFiniteSet(A) /\ Cardinality(A) = 1 /\ ~(3 \in A)
    BY <2>1, <2>2
  <2>4. PICK B : B = A \cup {3}
    OBVIOUS
  <2>5. IsFiniteSet(B) /\ Cardinality(B) = 2 /\ ~(5 \in B)
    <3>1. IsFiniteSet(B) /\ Cardinality(B) = 2
      BY <2>3, <2>4, FS_AddElement
    <3>2. ~(5 \in B)
      BY <2>2, <2>4
    <3> QED
      BY <3>1, <3>2
  <2>6. Cardinality(B \cup {5}) = 3
    BY <2>5, FS_AddElement
  <2>7. B = {1, 3} /\ B \cup {5} = {1, 3, 5}
    BY <2>2, <2>4
  <2> QED
    BY <2>1, <2>5, <2>6, <2>7
<1> DEFINE before(n) == {m \in P : m < n}
<1>7. before(1) = {} /\ before(3) = {1} /\ before(5) = {1, 3}
  BY <1>4
<1>8. firsts = [i \in 1..3 |-> CHOOSE n \in P : Cardinality(before(n)) = i - 1]
  BY <1>4, <1>5, <1>6 DEF in_order
<1> HIDE DEF before, new
<1>9. /\ Cardinality(before(1)) = 0 /\ Cardinality(before(3)) = 1 /\ Cardinality(before(5)) = 2
  BY <1>6, <1>7
<1>10. firsts[1] = 1 /\ firsts[2] = 3 /\ firsts[3] = 5 /\ DOMAIN firsts = 1..3
  BY <1>4, <1>8, <1>9
<1>11. services_from_steps(steps) = [k \in DOMAIN firsts |-> steps[firsts[k]].call.service]
  BY <1>3, <1>5 DEF services_from_steps, new
<1>12. Reverse(causal_chain) = [i \in 1..3 |-> causal_chain[3 - i + 1]]
  BY DEF Reverse, causal_chain
<1>13. \A i \in 1..3 : steps[firsts[i]].call.service = causal_chain[3 - i + 1]
  <2>1. \A i \in 1..3 : i = 1 \/ i = 2 \/ i = 3
    OBVIOUS
  <2> QED
    BY <1>1, <1>10, <2>1 DEF causal_chain
<1> QED
  BY <1>10, <1>11, <1>12, <1>13
--------------------------------------------------------------------------------
(* AuditComplete of AuditTrail: an audit of src/audit.py shows every call whose *)
(* span was not lost, in order, whatever is exported or run in between.         *)
THEOREM AuditsAreComplete == Spec => []AuditComplete
<1>1. IInv => AuditComplete
  <2> SUFFICES ASSUME IInv, audit.trace # NoTrace PROVE AuditComplete
    BY DEF AuditComplete
  <2>1. RootStored(audit.trace) /\ audit = reconstruct_run_audit(Of(audit.trace, stored))
    BY DEF IInv, AuditInv, NoAudit
  <2>2. audit.trace \in Traces
    BY <2>1, SpanFields DEF RootStored, IInv, TypeInv
  <2>3. audit.steps = audit_steps(Of(audit.trace, stored))
    BY <2>1 DEF reconstruct_run_audit
  <2>4. PICK made \in [1..Cardinality(Kept(audit.trace)) -> Kept(audit.trace)] :
           /\ \A i, j \in DOMAIN made : i < j => made[i] < made[j]
           /\ DOMAIN audit.steps = DOMAIN made
           /\ Len(audit.steps) = Cardinality(Kept(audit.trace))
           /\ \A i \in DOMAIN made : audit.steps[i].call = planned_message(made[i])
    BY <2>1, <2>2, <2>3, StepsShown DEF IInv
  <2>5. [i \in 1..Len(audit.steps) |-> audit.steps[i].call]
           = [i \in DOMAIN made |-> planned_message(made[i])]
    BY <2>4
  <2> QED
    BY <2>4, <2>5 DEF AuditComplete, Kept
<1> QED
  BY <1>1, Invariance, PTL

(* AuditFinal of AuditTrail: what GET /runs/{run_id} answered of a run it        *)
(* answers again, until a later run under the id replaces it for good.          *)
THEOREM AuditsAreFinal == Spec => AuditFinal
<1>1. IInv /\ [Next]_vars =>
        [/\ audit'.trace >= audit.trace
         /\ audit'.trace = audit.trace => audit' = audit]_audit
  <2> SUFFICES ASSUME IInv, [Next]_vars, audit' # audit
               PROVE  /\ audit'.trace >= audit.trace
                      /\ audit'.trace = audit.trace => audit' = audit
    OBVIOUS
  <2>1. get_run
    BY DEF Next, vars, viewer, start_run, tool_call, tool_raises, finish_run, crash, export,
           find_run_span
  <2>2. PICK t : t = reader.trace
    OBVIOUS
  <2>3. RootStored(t) /\ audit.trace <= t /\ t \in Traces
    BY <2>1, <2>2, SpanFields DEF get_run, IInv, ReaderInv, TypeInv, RootStored
  <2>4. audit' = reconstruct_run_audit(Of(t, stored))
    BY <2>1, <2>2 DEF get_run, Of
  <2>5. PICK root : root = find_root_span(Of(t, stored))
    OBVIOUS
  <2>6. audit'.trace = t
    <3>1. root.trace = t
      BY <2>3, <2>5, RootFound DEF IInv
    <3> QED
      BY <2>4, <2>5, <3>1 DEF reconstruct_run_audit
  <2>7. audit.trace \in Int
    BY SpanFields DEF IInv, AuditInv, NoAudit, NoTrace, RootStored, TypeInv, Traces
  <2>8. audit.trace # t \/ audit' = audit
    BY <2>3, <2>4 DEF IInv, AuditInv, NoAudit, NoTrace, Traces
  <2> QED
    BY <2>3, <2>6, <2>7, <2>8 DEF Traces
<1> QED
  BY <1>1, Invariance, PTL DEF Spec, AuditFinal

(* ApprovalHasEvidence of AuditTrail: a run is shown as awaiting approval only  *)
(* if it paused for one, with the whole causal chain unless a span was lost.    *)
THEOREM ApprovalsHaveEvidence == Spec => []ApprovalHasEvidence
<1>1. IInv => ApprovalHasEvidence
  <2> SUFFICES ASSUME IInv, audit.status = "awaiting_approval" PROVE ApprovalHasEvidence
    BY DEF ApprovalHasEvidence
  <2>1. PICK t : t = audit.trace
    OBVIOUS
  <2>2. RootStored(t) /\ audit = reconstruct_run_audit(Of(t, stored))
    BY <2>1 DEF IInv, AuditInv, NoAudit
  <2>3. t \in Traces
    BY <2>2, SpanFields DEF RootStored, IInv, TypeInv
  <2>4. PICK steps : steps = audit_steps(Of(t, stored))
    OBVIOUS
  <2>5. PICK root : root = find_root_span(Of(t, stored))
    OBVIOUS
  <2>6. audit.services = services_from_steps(steps) /\ audit.status = run_status(root)
    BY <2>2, <2>4, <2>5 DEF reconstruct_run_audit
  <2>7. root.gate_status = "auto_write"
    BY <2>6 DEF run_status
  <2>8. root \in Of(t, stored) /\ root.start = 0
    BY <2>2, <2>3, <2>5, RootFound DEF IInv
  <2>9. run[t].pc = "paused" /\ run[t].calls = PlannedCalls
    <3>1. SpanOK(t, run[t], root)
      BY <2>3, <2>8 DEF IInv, TracesInv, TraceOK
    <3> QED
      BY <2>3, <2>7, <2>8, <3>1 DEF SpanOK, IInv, TypeInv
  <2>10. ASSUME Lost(t) = 0 PROVE audit.services = Reverse(causal_chain)
    <3>1. Of(t, dropped) = {}
      BY <2>3, <2>10, FS_EmptySet DEF IInv, TracesInv, TraceOK, Lost, Of
    <3>2. Kept(t) = 1..PlannedCalls
      BY <2>9, <3>1 DEF Kept, Of
    <3>3. Cardinality(Kept(t)) = PlannedCalls
      <4>1. PICK n \in Nat : n = PlannedCalls
        BY DEF PlannedCalls
      <4>2. Cardinality(1..n) = IF 1 > n THEN 0 ELSE n - 1 + 1
        BY FS_Interval
      <4>3. Cardinality(1..n) = n
        BY <4>2
      <4> QED
        BY <3>2, <4>1, <4>3
    <3>4. PICK made \in [1..PlannedCalls -> 1..PlannedCalls] :
             /\ \A i, j \in DOMAIN made : i < j => made[i] < made[j]
             /\ DOMAIN steps = DOMAIN made
             /\ \A i \in DOMAIN made : steps[i].call = planned_message(made[i])
      BY <2>2, <2>3, <2>4, <3>2, <3>3, StepsShown DEF IInv
    <3>5. \A i \in 1..PlannedCalls : made[i] = i
      <4>1. \A i \in 1..5 : made[i] \in 1..5
        BY <3>4 DEF PlannedCalls
      <4>2. made[1] < made[2] /\ made[2] < made[3] /\ made[3] < made[4] /\ made[4] < made[5]
        BY <3>4 DEF PlannedCalls
      <4>3. made[1] = 1 /\ made[2] = 2 /\ made[3] = 3 /\ made[4] = 4 /\ made[5] = 5
        BY <4>1, <4>2
      <4>4. \A i \in 1..5 : i = 1 \/ i = 2 \/ i = 3 \/ i = 4 \/ i = 5
        OBVIOUS
      <4> QED
        BY <4>3, <4>4 DEF PlannedCalls
    <3>6. DOMAIN steps = 1..PlannedCalls
          /\ \A i \in 1..PlannedCalls : steps[i].call = planned_message(i)
      BY <3>4, <3>5
    <3> QED
      BY <2>6, <3>6, WholeChain
  <2> QED
    BY <2>1, <2>9, <2>10 DEF ApprovalHasEvidence
<1> QED
  BY <1>1, Invariance, PTL
================================================================================
