-------------------------- MODULE EventStreamProofs --------------------------
(***************************************************************************)
(* Lemmas about events, logs and readers that both deployments' proofs     *)
(* rest on (JobRunProofs, ArqWorkersProofs).                               *)
(***************************************************************************)
EXTENDS EventStream, TLAPS

USE RecordsAssumption, StreamAssumption

LEMMA EventFacts ==
    /\ \A s \in {"running"} \cup Terminal : StatusEvent(s) \in Event
    /\ \A n \in 1..MaxProgress : ProgressEvent(n) \in Event
BY DEF StatusEvent, ProgressEvent, Event

\* Handing an event on keeps a reader's stream well typed.
LEMMA HandOnType ==
    ASSUME ReaderOK, NEW r \in Readers, NEW e \in Event, NEW n \in Nat,
           NEW rest \in Seq(Event), NEW feed \in Seq(Delivery),
           HandOn(r, e, n, rest, feed)
    PROVE  ReaderOK'
<1>1. Append(seen[r], e) \in Seq(Event)
  BY DEF ReaderOK
<1>2. <<>> \in Seq(Event) /\ <<>> \in Seq(Delivery)
  OBVIOUS
<1>3. reading' \in [Readers -> Jobs \cup {NoJob}] /\ replayed' \in [Readers -> Nat]
  BY DEF HandOn, ReaderOK
<1>4. history' \in [Readers -> Seq(Event)]
  BY <1>2 DEF HandOn, ReaderOK
<1>5. queue' \in [Readers -> Seq(Delivery)]
  BY <1>2 DEF HandOn, ReaderOK
<1>6. seen' \in [Readers -> Seq(Event)]
  BY <1>1 DEF HandOn, ReaderOK
<1> QED
  BY <1>3, <1>4, <1>5, <1>6 DEF ReaderOK

LEMMA VerdictsInAppend ==
    ASSUME NEW s \in Seq(Event), NEW e \in Event
    PROVE  /\ VerdictsIn(Append(s, e)) =
                VerdictsIn(s) \cup (IF IsTerminal(e) THEN {Len(s) + 1} ELSE {})
           /\ \A i \in VerdictsIn(s) : Append(s, e)[i] = s[i]
<1>1. /\ DOMAIN Append(s, e) = 1..Len(s) + 1 /\ DOMAIN s = 1..Len(s) /\ Len(s) \in Nat
      /\ Append(s, e)[Len(s) + 1] = e
      /\ \A i \in 1..Len(s) : Append(s, e)[i] = s[i]
  OBVIOUS
<1> QED
  BY <1>1 DEF VerdictsIn

LEMMA SaidBefore ==
    ASSUME NEW s \in Seq(Event), NEW e \in Event, NEW k \in 0..Len(s)
    PROVE  ProgressUpTo(Append(s, e), k) = ProgressUpTo(s, k)
<1>1. \A i \in 1..k : Append(s, e)[i] = s[i]
  OBVIOUS
<1> QED
  BY <1>1 DEF ProgressUpTo

LEMMA SaidNow ==
    ASSUME NEW s \in Seq(Event), NEW e \in Event
    PROVE  ProgressUpTo(Append(s, e), Len(s) + 1) =
             ProgressUpTo(s, Len(s)) \cup (IF IsProgress(e) THEN {e.iteration} ELSE {})
<1> DEFINE l == Append(s, e)
           M(t, k) == {m \in 1..k : IsProgress(t[m])}
<1>1. Len(s) \in Nat /\ l[Len(s) + 1] = e /\ \A i \in 1..Len(s) : l[i] = s[i]
  OBVIOUS
<1>2. 1..(Len(s) + 1) = (1..Len(s)) \cup {Len(s) + 1}
  BY <1>1
<1> HIDE DEF l
<1>3. M(l, Len(s) + 1) = M(s, Len(s)) \cup (IF IsProgress(e) THEN {Len(s) + 1} ELSE {})
  BY <1>1, <1>2
<1>4. {l[i].iteration : i \in M(l, Len(s) + 1)} =
        {s[i].iteration : i \in M(s, Len(s))} \cup (IF IsProgress(e) THEN {e.iteration} ELSE {})
  BY <1>1, <1>3
<1> QED
  BY <1>4 DEF ProgressUpTo, l

LEMMA HeadTail ==
    ASSUME NEW S, NEW s \in Seq(S), s # <<>>
    PROVE  Head(s) \in S /\ Tail(s) \in Seq(S)
OBVIOUS

LEMMA RangeAppend ==
    ASSUME NEW S, NEW s \in Seq(S), NEW x \in S
    PROVE  Range(Append(s, x)) = Range(s) \cup {x}
<1>1. /\ DOMAIN Append(s, x) = 1..Len(s) + 1 /\ DOMAIN s = 1..Len(s) /\ Len(s) \in Nat
      /\ Append(s, x)[Len(s) + 1] = x
      /\ \A i \in 1..Len(s) : Append(s, x)[i] = s[i]
  OBVIOUS
<1>2. 1..(Len(s) + 1) = (1..Len(s)) \cup {Len(s) + 1}
  BY <1>1
<1> QED
  BY <1>1, <1>2 DEF Range

LEMMA RangeHeadTail ==
    ASSUME NEW S, NEW s \in Seq(S), s # <<>>
    PROVE  Range(s) = {Head(s)} \cup Range(Tail(s))
<1>1. /\ DOMAIN s = 1..Len(s) /\ Len(s) \in Nat \ {0} /\ Head(s) = s[1]
      /\ DOMAIN Tail(s) = 1..(Len(s) - 1)
      /\ \A i \in 1..(Len(s) - 1) : Tail(s)[i] = s[i + 1]
  OBVIOUS
<1>2. \A i \in 1..Len(s) : i = 1 \/ (i - 1 \in 1..(Len(s) - 1) /\ Tail(s)[i - 1] = s[i])
  BY <1>1
<1>3. \A i \in DOMAIN s : s[i] \in {Head(s)} \cup Range(Tail(s))
  BY <1>1, <1>2 DEF Range
<1>4. Head(s) \in Range(s)
  BY <1>1 DEF Range
<1>5. ASSUME NEW i \in DOMAIN Tail(s) PROVE Tail(s)[i] \in Range(s)
  <2>1. i + 1 \in DOMAIN s /\ Tail(s)[i] = s[i + 1]
    BY <1>1
  <2> QED
    BY <2>1 DEF Range
<1> QED
  BY <1>3, <1>4, <1>5 DEF Range

-----------------------------------------------------------------------------
(* A stream that covers its log *)

\* A stream that has just been opened covers the log it read.
LEMMA CoversOpen ==
    ASSUME NEW l \in Seq(Event)
    PROVE  Covers(l, <<>>, l, 0, <<>>)
BY DEF Covers

\* Recording an event and queueing it under its number keeps a stream complete.
LEMMA CoversRecord ==
    ASSUME NEW l \in Seq(Event), NEW s \in Seq(Event), NEW h \in Seq(Event), NEW n \in Nat,
           NEW q \in Seq(Delivery), NEW e \in Event, NEW d \in Delivery,
           d.seq = Len(l) + 1, d.event = e, Covers(l, s, h, n, q)
    PROVE  Covers(Append(l, e), s, h, n, Append(q, d))
<1> DEFINE k == Len(s) + Len(h)
<1>1. /\ Len(l) = k + Len(q) /\ Len(s) \in Nat /\ Len(h) \in Nat /\ Len(q) \in Nat
      /\ Len(Append(l, e)) = Len(l) + 1 /\ Len(Append(q, d)) = Len(q) + 1
  BY DEF Covers
<1>2. \A i \in 1..Len(l) : Append(l, e)[i] = l[i]
  OBVIOUS
<1>3. \A i \in 1..Len(s) : s[i] = Append(l, e)[i]
  BY <1>1, <1>2 DEF Covers
<1>4. \A i \in 1..Len(h) : h[i] = Append(l, e)[Len(s) + i]
  BY <1>1, <1>2 DEF Covers
<1>5. ASSUME NEW i \in 1..Len(Append(q, d))
      PROVE  Append(q, d)[i].seq = k + i /\ Append(q, d)[i].event = Append(l, e)[k + i]
  <2>1. CASE i \in 1..Len(q)
    <3>1. Append(q, d)[i] = q[i] /\ k + i \in 1..Len(l)
      BY <1>1, <2>1
    <3> QED
      BY <1>2, <2>1, <3>1 DEF Covers
  <2>2. CASE i = Len(q) + 1
    BY <1>1, <2>2
  <2> QED
    BY <1>1, <2>1, <2>2
<1> QED
  BY <1>1, <1>3, <1>4, <1>5 DEF Covers

\* Replaying the next stored event keeps it complete, and that event is the one
\* the log holds next.
LEMMA CoversReplay ==
    ASSUME NEW l \in Seq(Event), NEW s \in Seq(Event), NEW h \in Seq(Event), NEW n \in Nat,
           NEW q \in Seq(Delivery), h # <<>>, Covers(l, s, h, n, q)
    PROVE  /\ Covers(l, Append(s, Head(h)), Tail(h), n + 1, q)
           /\ Len(s) < Len(l) /\ Head(h) = l[Len(s) + 1]
<1>1. /\ Len(s) \in Nat /\ Len(h) \in Nat /\ Len(h) > 0 /\ Len(q) \in Nat
      /\ Len(Append(s, Head(h))) = Len(s) + 1 /\ Len(Tail(h)) = Len(h) - 1
  OBVIOUS
<1>2. Head(h) = h[1] /\ \A i \in 1..Len(Tail(h)) : Tail(h)[i] = h[i + 1]
  OBVIOUS
<1>3. Head(h) = l[Len(s) + 1]
  BY <1>1, <1>2 DEF Covers
<1>4. \A i \in 1..Len(s) + 1 : Append(s, Head(h))[i] = l[i]
  BY <1>1, <1>3 DEF Covers
<1>5. \A i \in 1..Len(Tail(h)) : Tail(h)[i] = l[Len(s) + 1 + i]
  BY <1>1, <1>2 DEF Covers
<1>6. \A i \in 1..Len(q) : q[i].seq = Len(s) + Len(h) + i /\ q[i].event = l[Len(s) + Len(h) + i]
  BY DEF Covers
<1>7. Len(l) = Len(s) + Len(h) + Len(q) /\ n = Len(s)
  BY DEF Covers
<1>8. Len(s) + 1 + Len(Tail(h)) = Len(s) + Len(h)
  BY <1>1
<1> QED
  BY <1>1, <1>3, <1>4, <1>5, <1>6, <1>7, <1>8 DEF Covers

\* With nothing left to replay, the head of the queue is the next event of the
\* log under the next number, and taking it keeps the stream complete.
LEMMA CoversReceive ==
    ASSUME NEW l \in Seq(Event), NEW s \in Seq(Event), NEW n \in Nat,
           NEW q \in Seq(Delivery), q # <<>>, Covers(l, s, <<>>, n, q)
    PROVE  /\ Head(q).seq = n + 1 /\ n \in Nat
           /\ Covers(l, Append(s, Head(q).event), <<>>, Head(q).seq, Tail(q))
           /\ Len(s) < Len(l) /\ Head(q).event = l[Len(s) + 1]
<1>1. /\ Len(s) \in Nat /\ Len(q) \in Nat /\ Len(q) > 0 /\ Len(<<>>) = 0
      /\ Len(Tail(q)) = Len(q) - 1 /\ Len(Append(s, Head(q).event)) = Len(s) + 1
  OBVIOUS
<1>2. Head(q) = q[1] /\ \A i \in 1..Len(Tail(q)) : Tail(q)[i] = q[i + 1]
  OBVIOUS
<1>3. n = Len(s) /\ Len(l) = Len(s) + Len(q)
  BY <1>1 DEF Covers
<1>4. \A i \in 1..Len(q) : q[i].seq = Len(s) + i /\ q[i].event = l[Len(s) + i]
  BY <1>1 DEF Covers
<1>5. Head(q).seq = n + 1 /\ Head(q).event = l[Len(s) + 1]
  BY <1>1, <1>2, <1>3, <1>4
<1>6. \A i \in 1..Len(s) + 1 : Append(s, Head(q).event)[i] = l[i]
  BY <1>1, <1>5 DEF Covers
<1>7. \A i \in 1..Len(Tail(q)) :
         Tail(q)[i].seq = Len(s) + 1 + i /\ Tail(q)[i].event = l[Len(s) + 1 + i]
  BY <1>1, <1>2, <1>4
<1>8. Covers(l, Append(s, Head(q).event), <<>>, Head(q).seq, Tail(q))
  BY <1>1, <1>3, <1>5, <1>6, <1>7 DEF Covers
<1> QED
  BY <1>1, <1>3, <1>5, <1>8
=============================================================================
