------------------------------ MODULE EdgesProofs ------------------------------
(***************************************************************************)
(* Proofs about what runs in a browser.                                    *)
(*                                                                         *)
(* The client's stream (ClientStream): ClientIsTold.  Its invariant says   *)
(* where in the job's record everything was that is in the log, on its     *)
(* way, brought by the present socket, or handed out: three numbers, how   *)
(* many events the sweep took, how many of the socket's and how many of    *)
(* those handed out came before it.  A stream that was open when the sweep *)
(* came needs a description of its own (CoversSwept), for its queue holds  *)
(* events under two numberings.                                            *)
(*                                                                         *)
(* The geometry editor (GeometryEditor): EditorIsSound.  Its invariant     *)
(* says that the undo and redo stacks are the two ends of the line of      *)
(* outlines, index by index, and what a pressed handle has pushed ahead.   *)
(*                                                                         *)
(* The viewer (Viewer): ViewerIsSound.  A cached layer was computed from   *)
(* the present result and from what its key says; a pan or a drag is some  *)
(* pointer's that is down, and at most two are.                            *)
(***************************************************************************)
EXTENDS ClientStream, GeometryEditor, Viewer, EventStreamProofs, SequenceTheorems, FiniteSetTheorems,
        TLAPS

-----------------------------------------------------------------------------
(* The client's stream *)

TheJob == CHOOSE j \in Jobs : TRUE
TheReader == CHOOSE r \in Readers : TRUE

\* The job's log, and what the client's present socket brought.
Log == log[TheJob]
Seen == seen[TheReader]
Open == reading[TheReader] # NoJob
History == history[TheReader]
Replayed == replayed[TheReader]
Queue == queue[TheReader]

Places == {"idle", "connecting", "streaming", "done", "threw", "abandoned"}
Iterators ==
    [at : Places, seen : Nat, delivered : Nat, attempt : Nat, handed : Seq(Event \cup {Refusal})]

ClientTypeOK ==
    /\ ReaderOK
    /\ log \in [Jobs -> Seq(Event)]
    /\ recorded \in Seq(Event)
    /\ iterator \in Iterators
    /\ losses \in Nat

\* The n-th progress event is recorded n-th, and a terminal one ends the record.
RecordIsOrdered ==
    \A i \in DOMAIN recorded :
        \/ recorded[i] = ProgressEvent(i)
        \/ IsTerminal(recorded[i]) /\ i = Len(recorded)

\* Where the n-th event was recorded, if the first `old` of them were read before the
\* sweep and the others after it, from a log that begins behind the first `base`.
At(base, old, n) == IF n <= old THEN n ELSE base + n

\* The log is what was recorded behind the first `base` events; nothing is missing of it
\* until the job is over.
LogIs(base) ==
    /\ base + Len(Log) <= Len(recorded)
    /\ ~Over \/ ~swept => base + Len(Log) = Len(recorded)
    /\ \A i \in 1..Len(Log) : Log[i] = recorded[base + i]
    /\ IF swept THEN base > 0 ELSE base = 0
    /\ ~swept => row

\* What was handed out, one for each that was counted: the first `early` of it before the
\* sweep, and a refusal only in the first place.
HandedIs(base, early) ==
    LET handed == iterator.handed IN
    /\ Len(handed) = iterator.delivered
    /\ early <= base /\ early <= iterator.delivered
    /\ \A n \in 1..Len(handed) :
         \/ handed[n] = Refusal /\ n = 1 /\ early = 0 /\ swept
         \/ /\ At(base, early, n) <= Len(recorded) /\ handed[n] = recorded[At(base, early, n)]
            /\ iterator.at \in {"idle", "connecting", "streaming"} => ~IsTerminal(handed[n])

\* What the present socket brought, `old` events of it before the sweep.
SeenIs(base, old, early) ==
    iterator.at = "streaming" =>
        /\ iterator.seen <= Len(Seen) /\ iterator.seen <= iterator.delivered
        /\ \A n \in 1..Len(Seen) :
             At(base, old, n) <= Len(recorded) /\ Seen[n] = recorded[At(base, old, n)]
        /\ old > 0 => old = base /\ early = IF iterator.delivered <= base THEN iterator.delivered ELSE base

\* A stream that was open when the sweep came.  Of the first `base` events some are handed
\* on, some are still to be replayed, and the others are queued under their old numbers;
\* behind them are those of the new log, numbered from 1.
StillOld(base, rec, l, s, h, q, m) ==
    LET a == Len(s) + Len(h) IN
    /\ base = a + m /\ Len(q) = m + Len(l)
    /\ \A i \in 1..Len(h) : h[i] = rec[Len(s) + i]
    /\ \A i \in 1..m : q[i].seq = a + i /\ q[i].event = rec[a + i]
    /\ \A i \in 1..Len(l) : q[m + i].seq = i /\ q[m + i].event = rec[base + i]

\* Later only those are queued; what has an old number is going to be dropped.
AllNew(base, rec, l, s, h, q, k) ==
    /\ Len(h) = 0 /\ base <= Len(s) /\ k <= Len(s) /\ Len(l) = k + Len(q)
    /\ \A i \in 1..Len(q) : q[i].seq = k + i /\ q[i].event = rec[base + (k + i)]

CoversSwept(base, rec, l, s, h, n, q) ==
    /\ n = Len(s)
    /\ \E k \in Nat : StillOld(base, rec, l, s, h, q, k) \/ AllNew(base, rec, l, s, h, q, k)

StreamIs(base, old) ==
    Open =>
        /\ iterator.at = "streaming"
        /\ \A n \in 1..Len(Seen) : ~IsTerminal(Seen[n])
        /\ IF old = 0
           THEN Covers(Log, Seen, History, Replayed, Queue)
           ELSE CoversSwept(base, recorded, Log, Seen, History, Replayed, Queue)

\* Before the sweep, every time the iterator reattached a socket was lost.
LossesCounted ==
    ~swept =>
        /\ IF iterator.at = "threw" THEN losses > MaxReconnects ELSE losses >= iterator.attempt
        /\ iterator.at = "streaming" /\ ~Open /\ (\A n \in 1..Len(Seen) : ~IsTerminal(Seen[n]))
             => losses > iterator.attempt

Told(base, old, early) ==
    LogIs(base) /\ HandedIs(base, early) /\ SeenIs(base, old, early) /\ StreamIs(base, old)

Traced == \E base, old, early \in Nat : Told(base, old, early)

ClientInv == ClientTypeOK /\ RecordIsOrdered /\ LossesCounted /\ Traced

LEMMA TheOnes ==
    /\ TheJob \in Jobs /\ Jobs = {TheJob} /\ TheJob # NoJob
    /\ TheReader \in Readers /\ Readers = {TheReader}
BY StreamAssumption, ClientAssumption DEF TheJob, TheReader

LEMMA RefusalIsNoEvent == Refusal \notin Event
BY DEF Refusal, Event

\* The next progress event has a number the bound allows.
LEMMA EmittedIsEvent ==
    ASSUME recorded \in Seq(Event),
           NEW e \in Verdict \cup (IF Progressed < MaxProgress
                                   THEN {ProgressEvent(Progressed + 1)} ELSE {})
    PROVE  e \in Event
<1> DEFINE P == {i \in DOMAIN recorded : IsProgress(recorded[i])}
<1>1. IsFiniteSet(P)
  <2>1. DOMAIN recorded = 1..Len(recorded) /\ Len(recorded) \in Nat
    OBVIOUS
  <2>2. IsFiniteSet(DOMAIN recorded)
    BY <2>1, FS_Interval
  <2> QED
    BY <2>2, FS_Subset
<1>2. Progressed \in Nat
  BY <1>1, FS_CardinalityType DEF Progressed
<1>3. CASE e \in Verdict
  BY <1>3 DEF Verdict
<1>4. CASE Progressed < MaxProgress /\ e = ProgressEvent(Progressed + 1)
  BY <1>2, <1>4, RecordsAssumption, EventFacts
<1> QED
  BY <1>3, <1>4

LEMMA ClientInitInv == ClientInit => ClientInv
<1> SUFFICES ASSUME ClientInit PROVE ClientInv
  OBVIOUS
<1>1. /\ Log = <<>> /\ Seen = <<>> /\ recorded = <<>> /\ ~Open /\ swept = FALSE /\ row = TRUE
      /\ iterator = [at |-> "idle", seen |-> 0, delivered |-> 0, attempt |-> 0, handed |-> <<>>]
      /\ losses = 0
  BY TheOnes DEF ClientInit, ReaderInit, Log, Seen, Open
<1>2. ClientTypeOK
  <2>1. ReaderOK
    BY DEF ClientInit, ReaderInit, ReaderOK
  <2>2. log \in [Jobs -> Seq(Event)] /\ recorded \in Seq(Event)
    BY DEF ClientInit
  <2> QED
    BY <1>1, <2>1, <2>2 DEF ClientTypeOK, Iterators, Places
<1>3. RecordIsOrdered
  BY <1>1 DEF RecordIsOrdered
<1>4. LossesCounted
  BY <1>1 DEF LossesCounted
<1>5. Told(0, 0, 0)
  BY <1>1 DEF Told, LogIs, HandedIs, SeenIs, StreamIs
<1> QED
  BY <1>2, <1>3, <1>4, <1>5 DEF ClientInv, Traced

-----------------------------------------------------------------------------
(* Types *)

LEMMA DetachType == ASSUME ReaderOK, Detach(Readers) PROVE ReaderOK'
<1>1. <<>> \in Seq(Event) /\ <<>> \in Seq(Delivery)
  OBVIOUS
<1> QED
  BY <1>1 DEF Detach, ReaderOK

LEMMA AttachType ==
    ASSUME ReaderOK, NEW r \in Readers, NEW j \in Jobs, NEW events \in Seq(Event),
           Attach(r, j, events)
    PROVE  ReaderOK'
<1>1. <<>> \in Seq(Event) /\ <<>> \in Seq(Delivery)
  OBVIOUS
<1> QED
  BY <1>1 DEF Attach, ReaderOK

LEMMA SendsType ==
    ASSUME ReaderOK, NEW r \in Readers, ReplayNext(r) \/ ReceiveNext(r)
    PROVE  ReaderOK'
<1>1. CASE ReplayNext(r)
  <2>1. history[r] \in Seq(Event) /\ history[r] # <<>> /\ replayed[r] + 1 \in Nat
        /\ queue[r] \in Seq(Delivery)
    BY <1>1 DEF ReaderOK, ReplayNext
  <2>2. Head(history[r]) \in Event /\ Tail(history[r]) \in Seq(Event)
    BY <2>1
  <2> QED
    BY <1>1, <2>1, <2>2, HandOnType DEF ReplayNext
<1>2. CASE ReceiveNext(r)
  <2>1. queue[r] \in Seq(Delivery) /\ queue[r] # <<>> /\ <<>> \in Seq(Event)
    BY <1>2 DEF ReaderOK, ReceiveNext
  <2>2. Head(queue[r]) \in Delivery /\ Tail(queue[r]) \in Seq(Delivery)
    BY <2>1
  <2>3. Head(queue[r]).seq \in Nat /\ Head(queue[r]).event \in Event
    BY <2>2 DEF Delivery
  <2>4. CASE Head(queue[r]).seq <= replayed[r]
    <3>1. /\ queue' = [queue EXCEPT ![r] = Tail(queue[r])]
          /\ UNCHANGED <<reading, history, replayed, seen>>
      BY <1>2, <2>4 DEF ReceiveNext
    <3>2. queue' \in [Readers -> Seq(Delivery)]
      BY <2>2, <3>1 DEF ReaderOK
    <3> QED
      BY <3>1, <3>2 DEF ReaderOK
  <2>5. CASE ~(Head(queue[r]).seq <= replayed[r])
    BY <1>2, <2>1, <2>2, <2>3, <2>5, HandOnType DEF ReceiveNext
  <2> QED
    BY <2>4, <2>5
<1> QED
  BY <1>1, <1>2

LEMMA IteratorType ==
    ASSUME iterator \in Iterators, NEW n \in Nat, NEW e \in Event \cup {Refusal}
    PROVE  Counted(n, e) \in Iterators
<1>1. Append(iterator.handed, e) \in Seq(Event \cup {Refusal})
  BY DEF Iterators
<1> DEFINE at == IF e # Refusal /\ IsTerminal(e) THEN "done" ELSE iterator.at
<1>2. at \in Places
  BY DEF Iterators, Places
<1>3. Counted(n, e) = IF n <= iterator.delivered THEN [iterator EXCEPT !.seen = n]
        ELSE [iterator EXCEPT !.seen = n, !.delivered = n, !.handed = Append(iterator.handed, e), !.at = at]
  BY DEF Counted
<1> HIDE DEF at
<1> QED
  BY <1>1, <1>2, <1>3 DEF Iterators

\* Every step keeps the types.
LEMMA ClientTypeNext ==
    ASSUME ClientTypeOK, [ClientNext]_clientVars
    PROVE  ClientTypeOK'
<1>1. /\ ReaderOK /\ log \in [Jobs -> Seq(Event)] /\ recorded \in Seq(Event)
      /\ iterator \in Iterators /\ losses \in Nat
  BY DEF ClientTypeOK
<1>2. CASE UNCHANGED clientVars
  BY <1>1, <1>2 DEF clientVars, ClientTypeOK, ReaderOK
<1>3. CASE Begin
  BY <1>1, <1>3 DEF Begin, streamVars, ClientTypeOK, ReaderOK, Iterators, Places
<1>4. CASE Abandon
  <2>1. ReaderOK'
    BY <1>1, <1>4, DetachType DEF Abandon
  <2> QED
    BY <1>1, <1>4, <2>1 DEF Abandon, ClientTypeOK, Iterators, Places
<1>5. ASSUME NEW j \in Jobs, JobEmits(j) PROVE ClientTypeOK'
  <2>1. PICK e \in Verdict \cup (IF Progressed < MaxProgress
                                 THEN {ProgressEvent(Progressed + 1)} ELSE {}) :
          /\ log' = [log EXCEPT ![j] = SqliteAddEvent(@, e)]
          /\ Publish(j, Len(log[j]) + 1, e)
          /\ recorded' = Append(recorded, e)
    BY <1>5 DEF JobEmits
  <2>2. e \in Event
    BY <1>1, EmittedIsEvent
  <2>3. log[j] \in Seq(Event) /\ Len(log[j]) + 1 \in Nat /\ Append(log[j], e) \in Seq(Event)
    BY <1>1, <2>2
  <2>4. log' \in [Jobs -> Seq(Event)] /\ recorded' \in Seq(Event)
    BY <1>1, <2>1, <2>2, <2>3 DEF SqliteAddEvent
  <2>5. [seq |-> Len(log[j]) + 1, event |-> e] \in Delivery
    BY <2>2, <2>3 DEF Delivery
  <2>6. queue' \in [Readers -> Seq(Delivery)]
    BY <1>1, <2>1, <2>5 DEF Publish, ReaderOK
  <2> QED
    BY <1>1, <1>5, <2>4, <2>6 DEF JobEmits, ClientTypeOK, ReaderOK
<1>6. ASSUME NEW j \in Jobs, Swept(j) PROVE ClientTypeOK'
  <2>1. <<>> \in Seq(Event)
    OBVIOUS
  <2> QED
    BY <1>1, <1>6, <2>1 DEF Swept, streamVars, ClientTypeOK, ReaderOK
<1>7. ASSUME NEW j \in Jobs, ServerDies(j) PROVE ClientTypeOK'
  <2>1. ReaderOK'
    BY <1>1, <1>7, DetachType DEF ServerDies
  <2>2. StatusEvent("failed") \in Event
    BY EventFacts DEF Terminal
  <2>3. log[j] \in Seq(Event) /\ Append(log[j], StatusEvent("failed")) \in Seq(Event)
        /\ Append(recorded, StatusEvent("failed")) \in Seq(Event)
    BY <1>1, <2>2
  <2>4. CASE Over
    BY <1>1, <1>7, <2>1, <2>4 DEF ServerDies, ClientTypeOK
  <2>5. CASE ~Over
    <3>1. recorded' \in Seq(Event)
      BY <1>7, <2>3, <2>5 DEF ServerDies
    <3>2. log' \in [Jobs -> Seq(Event)]
      BY <1>1, <1>7, <2>3, <2>5 DEF ServerDies
    <3> QED
      BY <1>1, <1>7, <2>1, <3>1, <3>2 DEF ServerDies, ClientTypeOK
  <2> QED
    BY <2>4, <2>5
<1>8. ASSUME NEW r \in Readers, SocketDrops(r) PROVE ClientTypeOK'
  <2>1. <<>> \in Seq(Event) /\ <<>> \in Seq(Delivery)
    OBVIOUS
  <2>2. /\ reading' \in [Readers -> Jobs \cup {NoJob}]
        /\ history' \in [Readers -> Seq(Event)]
        /\ replayed' \in [Readers -> Nat]
        /\ queue' \in [Readers -> Seq(Delivery)]
    BY <1>1, <1>8, <2>1 DEF SocketDrops, ReaderOK
  <2>3. seen' \in [Readers -> Seq(Event)]
    <3>1. PICK k \in iterator.seen..Len(seen[r]) : seen' = [seen EXCEPT ![r] = SubSeq(@, 1, k)]
      BY <1>8 DEF SocketDrops
    <3>2. seen[r] \in Seq(Event) /\ k \in Int /\ k <= Len(seen[r])
      BY <1>1 DEF ReaderOK, Iterators
    <3>3. SubSeq(seen[r], 1, k) \in Seq(Event)
      BY <3>2, SubSeqProperties
    <3> QED
      BY <1>1, <3>1, <3>3 DEF ReaderOK
  <2> QED
    BY <1>1, <1>8, <2>2, <2>3 DEF SocketDrops, ClientTypeOK, ReaderOK
<1>9. ASSUME NEW r \in Readers, ClientStep(r) PROVE ClientTypeOK'
  <2>1. CASE TakeNext(r)
    <3>1. iterator.seen + 1 \in Nat /\ seen[r][iterator.seen + 1] \in Event \cup {Refusal}
      BY <1>1, <2>1 DEF TakeNext, ReaderOK, Iterators
    <3> QED
      BY <1>1, <2>1, <3>1, IteratorType DEF TakeNext, streamVars, ClientTypeOK, ReaderOK
  <2>2. CASE Reattach(r)
    <3>1. iterator.attempt \in Nat /\ iterator.attempt + 1 \in Nat
      BY <1>1 DEF Iterators
    <3>2. iterator' \in Iterators
      <4>1. [iterator EXCEPT !.at = "threw"] \in Iterators
        BY <1>1 DEF Iterators, Places
      <4>2. [iterator EXCEPT !.at = "connecting", !.attempt = iterator.attempt + 1] \in Iterators
        BY <1>1, <3>1 DEF Iterators, Places
      <4> QED
        BY <2>2, <4>1, <4>2 DEF Reattach
    <3> QED
      BY <1>1, <2>2, <3>2 DEF Reattach, streamVars, ClientTypeOK, ReaderOK
  <2>3. CASE ConnectRefused(r)
    <3>1. Counted(1, Refusal) \in Iterators
      BY <1>1, IteratorType
    <3>2. iterator' \in Iterators
      BY <2>3, <3>1 DEF ConnectRefused, Iterators, Places
    <3>3. <<>> \in Seq(Event)
      OBVIOUS
    <3> QED
      BY <1>1, <2>3, <3>2, <3>3 DEF ConnectRefused, ClientTypeOK, ReaderOK
  <2>4. CASE ServerSends(r)
    <3>1. ReaderOK'
      BY <1>1, <2>4, SendsType DEF ServerSends
    <3> QED
      BY <1>1, <2>4, <3>1 DEF ServerSends, ClientTypeOK
  <2>5. ASSUME NEW j \in Jobs, Connect(r, j) PROVE ClientTypeOK'
    <3>1. ReaderOK'
      BY <1>1, <2>5, AttachType DEF Connect
    <3> QED
      BY <1>1, <2>5, <3>1 DEF Connect, ClientTypeOK, Iterators, Places
  <2> QED
    BY <1>9, <2>1, <2>2, <2>3, <2>4, <2>5 DEF ClientStep
<1> QED
  BY <1>2, <1>3, <1>4, <1>5, <1>6, <1>7, <1>8, <1>9 DEF ClientNext

-----------------------------------------------------------------------------
(* A stream that was open when the sweep came *)

\* Arithmetic that the steps below use.
LEMMA LenBehind ==
    ASSUME NEW base \in Nat, NEW m \in Nat, NEW n \in Nat, base + m = n
    PROVE  base + (m + 1) = n + 1
OBVIOUS

LEMMA SweptRecord ==
    ASSUME NEW base \in Nat, NEW rec \in Seq(Event), NEW l \in Seq(Event), NEW s \in Seq(Event),
           NEW h \in Seq(Event), NEW n \in Nat, NEW q \in Seq(Delivery),
           NEW e \in Event, NEW d \in Delivery,
           d.seq = Len(l) + 1, d.event = e, base + Len(l) = Len(rec),
           CoversSwept(base, rec, l, s, h, n, q)
    PROVE  CoversSwept(base, Append(rec, e), Append(l, e), s, h, n, Append(q, d))
<1> DEFINE rec1 == Append(rec, e)
           q1 == Append(q, d)
           l1 == Append(l, e)
<1>1. Len(rec1) = Len(rec) + 1 /\ rec1[Len(rec) + 1] = e /\ \A i \in 1..Len(rec) : rec1[i] = rec[i]
  OBVIOUS
<1>2. Len(q1) = Len(q) + 1 /\ q1[Len(q) + 1] = d /\ \A i \in 1..Len(q) : q1[i] = q[i]
  OBVIOUS
<1>3. /\ Len(l1) = Len(l) + 1 /\ Len(s) \in Nat /\ Len(h) \in Nat /\ Len(q) \in Nat
      /\ Len(l) \in Nat /\ Len(rec) \in Nat /\ base + Len(l) = Len(rec)
  OBVIOUS
<1> HIDE DEF rec1, q1, l1
<1>8. base + (Len(l) + 1) = Len(rec) + 1
  BY ONLY <1>3, LenBehind, base \in Nat
<1>4. ASSUME NEW m \in Nat, StillOld(base, rec, l, s, h, q, m)
      PROVE  StillOld(base, rec1, l1, s, h, q1, m)
  <2> DEFINE a == Len(s) + Len(h)
  <2>1. base = a + m /\ Len(q) = m + Len(l) /\ a \in Nat
    BY <1>3, <1>4 DEF StillOld
  <2>2. \A i \in 1..Len(h) : h[i] = rec1[Len(s) + i]
    <3>1. \A i \in 1..Len(h) : Len(s) + i \in 1..Len(rec)
      BY <1>3, <2>1
    <3> QED
      BY <1>1, <1>4, <3>1 DEF StillOld
  <2>3. \A i \in 1..m : q1[i].seq = a + i /\ q1[i].event = rec1[a + i]
    <3>1. \A i \in 1..m : a + i \in 1..Len(rec) /\ i \in 1..Len(q)
      BY <1>3, <2>1
    <3> QED
      BY <1>1, <1>2, <1>4, <3>1 DEF StillOld
  <2>4. ASSUME NEW i \in 1..Len(l1)
        PROVE  q1[m + i].seq = i /\ q1[m + i].event = rec1[base + i]
    <3>1. CASE i = Len(l) + 1
      <4>1. m + (Len(l) + 1) = Len(q) + 1
        BY <1>3, <2>1
      <4>3. m + i = Len(q) + 1 /\ base + i = Len(rec) + 1
        BY <1>8, <3>1, <4>1
      <4>4. q1[m + i] = d /\ rec1[base + i] = e
        BY <1>1, <1>2, <4>3
      <4> QED
        BY <3>1, <4>4
    <3>2. CASE i \in 1..Len(l)
      <4>1. m + i \in 1..Len(q) /\ base + i \in 1..Len(rec)
        BY <1>3, <2>1, <3>2
      <4> QED
        BY <1>1, <1>2, <1>4, <3>2, <4>1 DEF StillOld
    <3> QED
      BY <1>3, <3>1, <3>2
  <2>5. Len(q1) = m + Len(l1)
    BY <1>2, <1>3, <2>1
  <2> QED
    BY <2>1, <2>2, <2>3, <2>4, <2>5 DEF StillOld
<1>5. ASSUME NEW k \in Nat, AllNew(base, rec, l, s, h, q, k)
      PROVE  AllNew(base, rec1, l1, s, h, q1, k)
  <2>1. Len(h) = 0 /\ base <= Len(s) /\ k <= Len(s) /\ Len(l) = k + Len(q)
    BY <1>5 DEF AllNew
  <2>2. Len(l1) = k + Len(q1)
    BY <1>2, <1>3, <2>1
  <2>3. ASSUME NEW i \in 1..Len(q1)
        PROVE  q1[i].seq = k + i /\ q1[i].event = rec1[base + (k + i)]
    <3>1. CASE i = Len(q) + 1
      <4>1. k + i = Len(l) + 1
        BY <1>3, <2>1, <3>1
      <4>3. base + (k + i) = Len(rec) + 1
        BY <1>8, <4>1
      <4>4. q1[i] = d /\ rec1[base + (k + i)] = e
        BY <1>1, <1>2, <3>1, <4>3
      <4> QED
        BY <4>1, <4>4
    <3>2. CASE i \in 1..Len(q)
      <4>1. base + (k + i) \in 1..Len(rec)
        BY <1>3, <2>1, <3>2
      <4> QED
        BY <1>1, <1>2, <1>5, <3>2, <4>1 DEF AllNew
    <3>3. i = Len(q) + 1 \/ i \in 1..Len(q)
      BY <1>2, <1>3
    <3> QED
      BY <3>1, <3>2, <3>3
  <2> QED
    BY <2>1, <2>2, <2>3 DEF AllNew
<1>6. n = Len(s) /\ \E k \in Nat : StillOld(base, rec, l, s, h, q, k) \/ AllNew(base, rec, l, s, h, q, k)
  BY DEF CoversSwept
<1>7. CoversSwept(base, rec1, l1, s, h, n, q1)
  BY <1>4, <1>5, <1>6 DEF CoversSwept
<1> QED
  BY <1>7 DEF rec1, l1, q1

LEMMA SweptReplay ==
    ASSUME NEW base \in Nat, NEW rec \in Seq(Event), NEW l \in Seq(Event), NEW s \in Seq(Event),
           NEW h \in Seq(Event), NEW n \in Nat, NEW q \in Seq(Delivery), h # <<>>,
           CoversSwept(base, rec, l, s, h, n, q)
    PROVE  /\ CoversSwept(base, rec, l, Append(s, Head(h)), Tail(h), n + 1, q)
           /\ Len(s) + 1 <= base /\ Head(h) = rec[Len(s) + 1]
<1> DEFINE t == Tail(h)
           s1 == Append(s, Head(h))
<1>1. /\ Len(h) \in Nat \ {0} /\ Len(t) = Len(h) - 1
      /\ Head(h) = h[1] /\ \A i \in 1..Len(t) : t[i] = h[i + 1]
  OBVIOUS
<1>2. Len(s) \in Nat /\ Len(s1) = Len(s) + 1
  OBVIOUS
<1> HIDE DEF t, s1
<1>3. PICK m \in Nat : StillOld(base, rec, l, s, h, q, m)
  BY <1>1 DEF CoversSwept, AllNew
<1>4. base = (Len(s) + Len(h)) + m /\ \A i \in 1..Len(h) : h[i] = rec[Len(s) + i]
  BY <1>3 DEF StillOld
<1>5. Len(s) + 1 <= base /\ Head(h) = rec[Len(s) + 1]
  BY <1>1, <1>2, <1>4
<1>6. \A i \in 1..Len(t) : t[i] = rec[Len(s1) + i]
  <2>1. \A i \in 1..Len(t) : i + 1 \in 1..Len(h) /\ Len(s) + (i + 1) = Len(s1) + i
    BY <1>1, <1>2
  <2> QED
    BY <1>1, <1>4, <2>1
<1>7. Len(s1) + Len(t) = Len(s) + Len(h)
  BY <1>1, <1>2
<1>8. StillOld(base, rec, l, s1, t, q, m)
  BY <1>3, <1>6, <1>7 DEF StillOld
<1>9. n + 1 = Len(s1)
  BY <1>2 DEF CoversSwept
<1> QED
  BY <1>5, <1>8, <1>9 DEF CoversSwept, s1, t

LEMMA SweptReceive ==
    ASSUME NEW base \in Nat, NEW rec \in Seq(Event), NEW l \in Seq(Event), NEW s \in Seq(Event),
           NEW n \in Nat, NEW q \in Seq(Delivery), q # <<>>,
           CoversSwept(base, rec, l, s, <<>>, n, q)
    PROVE  \/ Head(q).seq <= n /\ CoversSwept(base, rec, l, s, <<>>, n, Tail(q))
           \/ /\ Head(q).seq = n + 1
              /\ CoversSwept(base, rec, l, Append(s, Head(q).event), <<>>, n + 1, Tail(q))
              /\ At(base, base, Len(s) + 1) <= base + Len(l)
              /\ Head(q).event = rec[At(base, base, Len(s) + 1)]
<1> DEFINE t == Tail(q)
           s1 == Append(s, Head(q).event)
           none == <<>>
<1>1. /\ Len(q) \in Nat \ {0} /\ Len(t) = Len(q) - 1
      /\ Head(q) = q[1] /\ \A i \in 1..Len(t) : t[i] = q[i + 1]
  OBVIOUS
<1>2. Len(s) \in Nat /\ Len(s1) = Len(s) + 1 /\ Len(none) = 0 /\ Len(l) \in Nat
  OBVIOUS
<1>3. n = Len(s)
  BY DEF CoversSwept
<1>4. PICK k \in Nat : StillOld(base, rec, l, s, none, q, k) \/ AllNew(base, rec, l, s, none, q, k)
  BY DEF CoversSwept
<1> HIDE DEF t, s1, none
<1>5. CASE StillOld(base, rec, l, s, none, q, k) /\ k > 0
  <2>1. /\ base = Len(s) + k /\ Len(q) = k + Len(l)
        /\ \A i \in 1..k : q[i].seq = Len(s) + i /\ q[i].event = rec[Len(s) + i]
        /\ \A i \in 1..Len(l) : q[k + i].seq = i /\ q[k + i].event = rec[base + i]
    BY <1>2, <1>5 DEF StillOld
  <2>2. q[1].seq = n + 1 /\ q[1].event = rec[Len(s) + 1]
    <3>1. 1 \in 1..k
      BY <1>5
    <3> QED
      BY <1>3, <2>1, <3>1
  <2>3. At(base, base, Len(s) + 1) = Len(s) + 1
    BY <1>2, <1>5, <2>1 DEF At
  <2>4. ASSUME NEW i \in 1..(k - 1)
        PROVE  t[i].seq = Len(s1) + i /\ t[i].event = rec[Len(s1) + i]
    <3>1. i \in 1..Len(t) /\ i + 1 \in 1..k /\ Len(s) + (i + 1) = Len(s1) + i
      BY <1>1, <1>2, <1>5, <2>1
    <3>2. t[i] = q[i + 1]
      BY <1>1, <3>1
    <3>3. q[i + 1].seq = Len(s) + (i + 1) /\ q[i + 1].event = rec[Len(s) + (i + 1)]
      BY <2>1, <3>1
    <3> QED
      BY <3>1, <3>2, <3>3
  <2>5. ASSUME NEW i \in 1..Len(l)
        PROVE  t[(k - 1) + i].seq = i /\ t[(k - 1) + i].event = rec[base + i]
    <3>1. (k - 1) + i \in 1..Len(t) /\ ((k - 1) + i) + 1 = k + i
      BY <1>1, <1>2, <1>5, <2>1
    <3>2. t[(k - 1) + i] = q[k + i]
      BY <1>1, <3>1
    <3> QED
      BY <2>1, <3>2
  <2>6. base = Len(s1) + (k - 1) /\ Len(t) = (k - 1) + Len(l) /\ k - 1 \in Nat /\ Len(s1) + 0 = Len(s1)
    BY <1>1, <1>2, <1>5, <2>1
  <2>7. StillOld(base, rec, l, s1, none, t, k - 1)
    BY <1>2, <2>4, <2>5, <2>6 DEF StillOld
  <2>8. CoversSwept(base, rec, l, s1, none, n + 1, t)
    BY <1>2, <1>3, <2>6, <2>7 DEF CoversSwept
  <2>9. Len(s) + 1 <= base + Len(l)
    BY <1>2, <1>5, <2>1
  <2> QED
    BY <1>1, <2>2, <2>3, <2>8, <2>9 DEF s1, t, none
<1>6. CASE \E i \in Nat : AllNew(base, rec, l, s, none, q, i)
  <2>1. PICK c \in Nat : AllNew(base, rec, l, s, none, q, c)
    BY <1>6
  <2>2. /\ base <= Len(s) /\ c <= Len(s) /\ Len(l) = c + Len(q)
        /\ \A i \in 1..Len(q) : q[i].seq = c + i /\ q[i].event = rec[base + (c + i)]
    BY <2>1 DEF AllNew
  <2>3. q[1].seq = c + 1 /\ q[1].event = rec[base + (c + 1)]
    <3>1. 1 \in 1..Len(q)
      BY <1>1
    <3> QED
      BY <2>2, <3>1
  <2>4. Len(l) = (c + 1) + Len(t)
    BY <1>1, <2>2
  <2>5. ASSUME NEW i \in 1..Len(t)
        PROVE  t[i].seq = (c + 1) + i /\ t[i].event = rec[base + ((c + 1) + i)]
    <3>1. i + 1 \in 1..Len(q) /\ c + (i + 1) = (c + 1) + i
      BY <1>1
    <3>2. t[i] = q[i + 1]
      BY <1>1
    <3>3. q[i + 1].seq = c + (i + 1) /\ q[i + 1].event = rec[base + (c + (i + 1))]
      BY <2>2, <3>1
    <3> QED
      BY <3>1, <3>2, <3>3
  <2>6. CASE c < Len(s)
    <3>1. c + 1 <= Len(s) /\ c + 1 \in Nat
      BY <1>2, <2>6
    <3>2. AllNew(base, rec, l, s, none, t, c + 1)
      BY <1>2, <2>2, <2>4, <2>5, <3>1 DEF AllNew
    <3>3. CoversSwept(base, rec, l, s, none, n, t)
      BY <1>3, <3>1, <3>2 DEF CoversSwept
    <3>4. Head(q).seq <= n
      BY <1>1, <1>2, <1>3, <2>3, <2>6
    <3> QED
      BY <3>3, <3>4 DEF t, none
  <2>7. CASE c = Len(s)
    <3>1. /\ c + 1 = Len(s1) /\ c + 1 \in Nat /\ base <= Len(s1)
      BY <1>2, <2>2, <2>7
    <3>2. AllNew(base, rec, l, s1, none, t, c + 1)
      BY <1>2, <2>4, <2>5, <3>1 DEF AllNew
    <3>3. CoversSwept(base, rec, l, s1, none, n + 1, t)
      BY <1>2, <1>3, <3>1, <3>2 DEF CoversSwept
    <3>4. At(base, base, Len(s) + 1) = base + (c + 1) /\ c + 1 <= Len(l)
      BY <1>1, <1>2, <2>2, <2>7 DEF At
    <3>5. Head(q).seq = n + 1 /\ Head(q).event = rec[At(base, base, Len(s) + 1)]
      BY <1>1, <1>3, <2>3, <2>7, <3>4
    <3>6. At(base, base, Len(s) + 1) <= base + Len(l)
      BY <1>2, <3>4
    <3> QED
      BY <3>3, <3>5, <3>6 DEF s1, t, none
  <2> QED
    BY <1>2, <2>2, <2>6, <2>7
<1>7. CASE StillOld(base, rec, l, s, none, q, k) /\ k = 0
  <2>1. /\ base = Len(s) + Len(none) + k /\ Len(q) = k + Len(l)
        /\ \A i \in 1..Len(l) : q[k + i].seq = i /\ q[k + i].event = rec[base + i]
    BY <1>7 DEF StillOld
  <2>4. base = Len(s) /\ Len(q) = Len(l)
    BY <1>2, <1>7, <2>1
  <2>2. ASSUME NEW i \in 1..Len(q)
        PROVE  q[i].seq = 0 + i /\ q[i].event = rec[base + (0 + i)]
    <3>1. k + i = i /\ 0 + i = i /\ i \in 1..Len(l)
      BY <1>2, <1>7, <2>4
    <3> QED
      BY <2>1, <3>1
  <2>3. AllNew(base, rec, l, s, none, q, 0)
    BY <1>2, <2>2, <2>4 DEF AllNew
  <2> QED
    BY <1>6, <2>3
<1> QED
  BY <1>4, <1>5, <1>6, <1>7

LEMMA Parts ==
    ASSUME ClientTypeOK
    PROVE  /\ Log \in Seq(Event) /\ recorded \in Seq(Event) /\ Seen \in Seq(Event)
           /\ History \in Seq(Event) /\ Replayed \in Nat /\ Queue \in Seq(Delivery)
           /\ iterator \in Iterators /\ losses \in Nat
           /\ reading[TheReader] \in {TheJob, NoJob}
BY TheOnes DEF ClientTypeOK, ReaderOK, Log, Seen, History, Replayed, Queue

LEMMA IteratorParts ==
    ASSUME iterator \in Iterators
    PROVE  /\ iterator.at \in Places /\ iterator.seen \in Nat /\ iterator.delivered \in Nat
           /\ iterator.attempt \in Nat /\ iterator.handed \in Seq(Event \cup {Refusal})
BY DEF Iterators

\* A place a record has is between 1 and its length.
LEMMA AtIs ==
    ASSUME NEW base \in Nat, NEW old \in Nat, NEW n \in Nat \ {0}
    PROVE  At(base, old, n) \in Nat \ {0}
BY DEF At

\* The record grows by the next progress event or by the one that ends it.
LEMMA RecordGrows ==
    ASSUME RecordIsOrdered, recorded \in Seq(Event), ~Over, NEW e \in Event,
           recorded' = Append(recorded, e),
           IsTerminal(e) \/ e = ProgressEvent(Len(recorded) + 1)
    PROVE  RecordIsOrdered'
<1> DEFINE n == Len(recorded)
<1>1. n \in Nat /\ Len(recorded') = n + 1 /\ recorded'[n + 1] = e
      /\ \A i \in 1..n : recorded'[i] = recorded[i]
  OBVIOUS
<1>2. DOMAIN recorded = 1..n /\ DOMAIN recorded' = 1..(n + 1)
  OBVIOUS
<1>3. ASSUME NEW i \in 1..n PROVE recorded[i] = ProgressEvent(i)
  <2>1. CASE IsTerminal(recorded[i]) /\ i = n
    <3>1. recorded # <<>>
      BY <1>1
    <3> QED
      BY <2>1, <3>1 DEF Over
  <2> QED
    BY <1>2, <2>1 DEF RecordIsOrdered
<1> HIDE DEF n
<1>4. ASSUME NEW i \in 1..(n + 1)
      PROVE  \/ recorded'[i] = ProgressEvent(i)
             \/ IsTerminal(recorded'[i]) /\ i = n + 1
  <2>1. CASE i = n + 1
    BY <1>1, <2>1 DEF n
  <2>2. CASE i \in 1..n
    <3>1. recorded'[i] = recorded[i]
      BY <1>1, <2>2
    <3>2. recorded[i] = ProgressEvent(i)
      BY <1>3, <2>2
    <3> QED
      BY <3>1, <3>2
  <2>3. i = n + 1 \/ i \in 1..n
    BY <1>1
  <2> QED
    BY <2>1, <2>2, <2>3
<1> QED
  BY <1>1, <1>2, <1>4 DEF RecordIsOrdered

\* While the job runs, every event of the record is a progress event.
LEMMA ProgressedIsLength ==
    ASSUME RecordIsOrdered, recorded \in Seq(Event), ~Over
    PROVE  Progressed = Len(recorded)
<1> DEFINE n == Len(recorded)
<1>1. n \in Nat /\ DOMAIN recorded = 1..n
  OBVIOUS
<1>2. ASSUME NEW i \in 1..n PROVE recorded[i] = ProgressEvent(i)
  <2>1. CASE IsTerminal(recorded[i]) /\ i = n
    <3>1. recorded # <<>>
      BY <1>1
    <3> QED
      BY <2>1, <3>1 DEF Over
  <2> QED
    BY <1>1, <2>1 DEF RecordIsOrdered
<1>3. {i \in DOMAIN recorded : IsProgress(recorded[i])} = 1..n
  BY <1>1, <1>2 DEF IsProgress, ProgressEvent
<1>4. Cardinality(1..n) = n
  <2>1. 1 \in Int /\ n \in Int
    BY <1>1
  <2>2. Cardinality(1..n) = IF 1 > n THEN 0 ELSE n - 1 + 1
    BY <2>1, FS_Interval
  <2> QED
    BY <1>1, <2>2
<1> QED
  BY <1>3, <1>4 DEF Progressed

\* What was handed out and brought stays where it is recorded.
LEMMA HandedStays ==
    ASSUME ClientTypeOK, NEW base \in Nat, NEW early \in Nat, HandedIs(base, early),
           UNCHANGED iterator, swept => swept', NEW e \in Event,
           recorded' = recorded \/ recorded' = Append(recorded, e)
    PROVE  HandedIs(base, early)'
<1>1. recorded \in Seq(Event) /\ iterator.handed \in Seq(Event \cup {Refusal})
  BY Parts, IteratorParts
<1>2. Len(recorded) \in Nat /\ Len(recorded) <= Len(recorded') /\ Len(recorded') \in Nat
      /\ \A i \in 1..Len(recorded) : recorded'[i] = recorded[i]
  BY <1>1
<1>3. \A n \in 1..Len(iterator.handed) : At(base, early, n) \in Nat \ {0}
  BY <1>1 DEF At
<1>4. \A n \in 1..Len(iterator.handed) :
        At(base, early, n) <= Len(recorded) =>
            At(base, early, n) <= Len(recorded')
              /\ recorded'[At(base, early, n)] = recorded[At(base, early, n)]
  BY <1>2, <1>3
<1> QED
  BY <1>4 DEF HandedIs, At

LEMMA SeenStays ==
    ASSUME ClientTypeOK, NEW base \in Nat, NEW old \in Nat, NEW early \in Nat,
           SeenIs(base, old, early), UNCHANGED iterator, UNCHANGED Seen, NEW e \in Event,
           recorded' = recorded \/ recorded' = Append(recorded, e)
    PROVE  SeenIs(base, old, early)'
<1>1. recorded \in Seq(Event) /\ Seen \in Seq(Event)
  BY Parts
<1>2. Len(recorded) \in Nat /\ Len(recorded) <= Len(recorded') /\ Len(recorded') \in Nat
      /\ \A i \in 1..Len(recorded) : recorded'[i] = recorded[i]
  BY <1>1
<1>3. \A n \in 1..Len(Seen) : At(base, old, n) \in Nat \ {0}
  BY <1>1 DEF At
<1>4. \A n \in 1..Len(Seen) :
        At(base, old, n) <= Len(recorded) =>
            At(base, old, n) <= Len(recorded')
              /\ recorded'[At(base, old, n)] = recorded[At(base, old, n)]
  BY <1>2, <1>3
<1> QED
  BY <1>4 DEF SeenIs, At

\* The iterator leaves a stream, or has not begun one.
LEMMA IteratorMoves ==
    ASSUME NEW base \in Nat, NEW old \in Nat, NEW early \in Nat, Told(base, old, early),
           UNCHANGED <<log, row, recorded, swept>>,
           iterator'.handed = iterator.handed, iterator'.delivered = iterator.delivered,
           iterator.at \in {"idle", "connecting", "streaming"}, iterator'.at # "streaming", ~Open'
    PROVE  Told(base, old, early)'
<1>1. Log' = Log /\ Over' = Over
  BY DEF Log, Over
<1>2. LogIs(base)'
  BY <1>1 DEF Told, LogIs
<1>3. HandedIs(base, early)'
  BY DEF Told, HandedIs, At
<1> QED
  BY <1>2, <1>3 DEF Told, SeenIs, StreamIs

LEMMA BeginKeeps == ClientInv /\ Begin => RecordIsOrdered' /\ LossesCounted' /\ Traced'
<1> SUFFICES ASSUME ClientInv, Begin PROVE RecordIsOrdered' /\ LossesCounted' /\ Traced'
  OBVIOUS
<1>1. PICK base, old, early \in Nat : Told(base, old, early)
  BY DEF ClientInv, Traced
<1>2. /\ iterator.at = "idle" /\ iterator'.at = "connecting"
      /\ iterator'.handed = iterator.handed /\ iterator'.delivered = iterator.delivered
      /\ iterator'.attempt = iterator.attempt
  BY DEF Begin, ClientInv, ClientTypeOK, Iterators
<1>3. ~Open'
  BY <1>1, <1>2 DEF Told, StreamIs, Open, Begin, streamVars
<1>4. UNCHANGED <<log, row, recorded, swept, losses>>
  BY DEF Begin
<1>5. Told(base, old, early)'
  BY <1>1, <1>2, <1>3, <1>4, IteratorMoves
<1>6. RecordIsOrdered'
  BY <1>4 DEF ClientInv, RecordIsOrdered
<1>7. LossesCounted'
  BY <1>2, <1>4 DEF ClientInv, LossesCounted
<1> QED
  BY <1>5, <1>6, <1>7 DEF Traced

LEMMA AbandonKeeps == ClientInv /\ Abandon => RecordIsOrdered' /\ LossesCounted' /\ Traced'
<1> SUFFICES ASSUME ClientInv, Abandon PROVE RecordIsOrdered' /\ LossesCounted' /\ Traced'
  OBVIOUS
<1>1. PICK base, old, early \in Nat : Told(base, old, early)
  BY DEF ClientInv, Traced
<1>2. /\ iterator.at \in {"connecting", "streaming"} /\ iterator'.at = "abandoned"
      /\ iterator'.handed = iterator.handed /\ iterator'.delivered = iterator.delivered
      /\ iterator'.attempt = iterator.attempt
  BY DEF Abandon, ClientInv, ClientTypeOK, Iterators
<1>3. ~Open'
  BY TheOnes DEF Open, Abandon, Detach
<1>4. UNCHANGED <<log, row, recorded, swept, losses>>
  BY DEF Abandon
<1>5. Told(base, old, early)'
  BY <1>1, <1>2, <1>3, <1>4, IteratorMoves
<1>6. RecordIsOrdered'
  BY <1>4 DEF ClientInv, RecordIsOrdered
<1>7. LossesCounted'
  BY <1>2, <1>4 DEF ClientInv, LossesCounted
<1> QED
  BY <1>5, <1>6, <1>7 DEF Traced

\* Everything the socket brought is counted, so none of it was terminal; then, before the
\* sweep, the socket was lost.
LEMMA ReattachKeeps ==
    ASSUME ClientInv, NEW r \in Readers, Reattach(r)
    PROVE  RecordIsOrdered' /\ LossesCounted' /\ Traced'
<1>1. PICK base, old, early \in Nat : Told(base, old, early)
  BY DEF ClientInv, Traced
<1>2. r = TheReader
  BY TheOnes
<1>3. /\ iterator.at = "streaming" /\ ~Open /\ iterator.seen = Len(Seen)
      /\ iterator'.handed = iterator.handed /\ iterator'.delivered = iterator.delivered
      /\ IF iterator.attempt >= MaxReconnects
         THEN iterator'.at = "threw" /\ iterator'.attempt = iterator.attempt
         ELSE iterator'.at = "connecting" /\ iterator'.attempt = iterator.attempt + 1
  BY <1>2 DEF Reattach, ClientInv, ClientTypeOK, Iterators, Open, Seen
<1>4. UNCHANGED <<log, row, recorded, swept, losses, reading>>
  BY DEF Reattach, streamVars
<1>5. ~Open'
  BY <1>3, <1>4 DEF Open
<1>6. Told(base, old, early)'
  BY <1>1, <1>3, <1>4, <1>5, IteratorMoves
<1>7. RecordIsOrdered'
  BY <1>4 DEF ClientInv, RecordIsOrdered
<1>8. ASSUME ~swept PROVE losses > iterator.attempt
  <2>1. base = 0 /\ early = 0
    BY <1>1, <1>8 DEF Told, LogIs, HandedIs
  <2>2. ASSUME NEW n \in 1..Len(Seen) PROVE ~IsTerminal(Seen[n])
    <3>1. Seen \in Seq(Event) /\ iterator \in Iterators
      BY Parts DEF ClientInv
    <3>2. n \in Nat \ {0} /\ n \in 1..Len(iterator.handed)
      BY <1>1, <1>3, <3>1 DEF Told, SeenIs, HandedIs, Iterators
    <3>3. At(base, old, n) = n /\ At(base, early, n) = n
      BY <2>1, <3>2 DEF At
    <3>4. Seen[n] = recorded[n]
      BY <1>1, <1>3, <3>3 DEF Told, SeenIs
    <3>5. iterator.handed[n] = recorded[n] /\ ~IsTerminal(iterator.handed[n])
      BY <1>1, <1>3, <1>8, <3>2, <3>3 DEF Told, HandedIs
    <3> QED
      BY <3>4, <3>5
  <2> QED
    BY <1>3, <1>8, <2>2 DEF ClientInv, LossesCounted
<1>9. LossesCounted'
  <2>1. iterator.attempt \in Nat /\ losses \in Nat /\ MaxReconnects \in Nat
    BY ClientAssumption DEF ClientInv, ClientTypeOK, Iterators
  <2> QED
    BY <1>3, <1>4, <1>8, <2>1 DEF LossesCounted
<1> QED
  BY <1>6, <1>7, <1>9 DEF Traced

LEMMA ConnectKeeps ==
    ASSUME ClientInv, NEW r \in Readers, NEW j \in Jobs, Connect(r, j)
    PROVE  RecordIsOrdered' /\ LossesCounted' /\ Traced'
<1>1. PICK base, old, early \in Nat : Told(base, old, early)
  BY DEF ClientInv, Traced
<1>2. r = TheReader /\ j = TheJob /\ TheJob # NoJob
  BY TheOnes
<1>3. /\ iterator.at = "connecting" /\ iterator'.at = "streaming" /\ iterator'.seen = 0
      /\ iterator'.handed = iterator.handed /\ iterator'.delivered = iterator.delivered
      /\ iterator'.attempt = iterator.attempt
  BY <1>2 DEF Connect, ClientInv, ClientTypeOK, Iterators
<1>4. UNCHANGED <<log, row, recorded, swept, losses>>
  BY DEF Connect
<1>5. Seen' = <<>> /\ History' = Log /\ Replayed' = 0 /\ Queue' = <<>> /\ Open'
  BY <1>2 DEF Connect, Attach, ClientInv, ClientTypeOK, ReaderOK, Seen, History, Replayed, Queue, Open, Log
<1>6. Log' = Log /\ Over' = Over /\ Log \in Seq(Event)
  BY <1>4, Parts DEF Log, Over, ClientInv
<1>7. LogIs(base)'
  BY <1>1, <1>4, <1>6 DEF Told, LogIs
<1>8. HandedIs(base, early)'
  BY <1>1, <1>3, <1>4 DEF Told, HandedIs, At
<1>9. SeenIs(base, 0, early)'
  <2>1. Len(Seen') = 0 /\ iterator.delivered \in Nat
    BY <1>5 DEF ClientInv, ClientTypeOK, Iterators
  <2> QED
    BY <1>3, <2>1 DEF SeenIs
<1>10. StreamIs(base, 0)'
  <2>1. Covers(Log, <<>>, Log, 0, <<>>)
    BY <1>6, CoversOpen
  <2> QED
    BY <1>3, <1>5, <1>6, <2>1 DEF StreamIs
<1>11. LossesCounted'
  BY <1>3, <1>4, <1>5 DEF ClientInv, LossesCounted
<1>12. RecordIsOrdered'
  BY <1>4 DEF ClientInv, RecordIsOrdered
<1> QED
  BY <1>7, <1>8, <1>9, <1>10, <1>11, <1>12 DEF Traced, Told

\* A job the route does not find: the refusal is handed out if nothing was before.
LEMMA ConnectRefusedKeeps ==
    ASSUME ClientInv, NEW r \in Readers, ConnectRefused(r)
    PROVE  RecordIsOrdered' /\ LossesCounted' /\ Traced'
<1>1. PICK base, old, early \in Nat : Told(base, old, early)
  BY DEF ClientInv, Traced
<1>2. r = TheReader
  BY TheOnes
<1>3. /\ iterator.at = "connecting" /\ iterator'.at = "streaming" /\ iterator'.seen = 0 /\ swept
      /\ IF 1 <= iterator.delivered
         THEN iterator'.handed = iterator.handed /\ iterator'.delivered = iterator.delivered
         ELSE iterator'.handed = Append(iterator.handed, Refusal) /\ iterator'.delivered = 1
  <2>1. swept
    BY <1>1 DEF ConnectRefused, Told, LogIs
  <2> QED
    BY <2>1 DEF ConnectRefused, Counted, ClientInv, ClientTypeOK, Iterators
<1>4. UNCHANGED <<log, row, recorded, swept, losses, reading, history, replayed, queue>>
  BY DEF ConnectRefused
<1>5. Seen' = <<>> /\ ~Open'
  BY <1>1, <1>2, <1>3, <1>4 DEF ConnectRefused, ClientInv, ClientTypeOK, ReaderOK, Told, StreamIs, Open, Seen
<1>6. Log' = Log /\ Over' = Over
  BY <1>4 DEF Log, Over
<1>7. LogIs(base)'
  BY <1>1, <1>4, <1>6 DEF Told, LogIs
<1>8. iterator.delivered \in Nat /\ iterator.handed \in Seq(Event \cup {Refusal})
      /\ iterator.delivered = Len(iterator.handed)
  BY <1>1 DEF ClientInv, ClientTypeOK, Iterators, Told, HandedIs
<1>9. HandedIs(base, early)'
  <2>1. CASE 1 <= iterator.delivered
    BY <1>1, <1>3, <1>4, <2>1 DEF Told, HandedIs, At
  <2>2. CASE iterator.delivered = 0
    <3>1. early = 0
      BY <1>1, <2>2 DEF Told, HandedIs
    <3>2. Len(iterator'.handed) = 1 /\ iterator'.handed[1] = Refusal /\ iterator'.delivered = 1
      <4>1. Refusal \in Event \cup {Refusal}
        OBVIOUS
      <4>2. Len(iterator.handed) = 0
        BY <1>8, <2>2
      <4>3. Len(Append(iterator.handed, Refusal)) = 1 /\ Append(iterator.handed, Refusal)[1] = Refusal
        BY <1>8, <4>1, <4>2
      <4>4. ~(1 <= iterator.delivered)
        BY <2>2
      <4>5. iterator'.handed = Append(iterator.handed, Refusal) /\ iterator'.delivered = 1
        BY <1>3, <4>4
      <4> QED
        BY <4>3, <4>5
    <3>3. \A n \in 1..Len(iterator'.handed) : n = 1
      BY <3>2
    <3> QED
      BY <1>3, <1>4, <3>1, <3>2, <3>3 DEF HandedIs
  <2> QED
    BY <1>8, <2>1, <2>2
<1>10. SeenIs(base, 0, early)'
  <2>1. Len(Seen') = 0 /\ iterator'.delivered >= 0
    BY <1>3, <1>5, <1>8
  <2> QED
    BY <1>3, <2>1 DEF SeenIs
<1>11. StreamIs(base, 0)' /\ LossesCounted' /\ RecordIsOrdered'
  BY <1>3, <1>4, <1>5 DEF StreamIs, LossesCounted, RecordIsOrdered, ClientInv
<1> QED
  BY <1>7, <1>9, <1>10, <1>11 DEF Traced, Told

\* An event off the socket is the one recorded in its place, and it is counted there.
LEMMA TakeNextKeeps ==
    ASSUME ClientInv, NEW r \in Readers, TakeNext(r)
    PROVE  RecordIsOrdered' /\ LossesCounted' /\ Traced'
<1>1. PICK base, old, early \in Nat : Told(base, old, early)
  BY DEF ClientInv, Traced
<1>2. r = TheReader
  BY TheOnes
<1>3. /\ iterator \in Iterators /\ Seen \in Seq(Event) /\ recorded \in Seq(Event)
      /\ iterator.seen \in Nat /\ iterator.delivered \in Nat
      /\ iterator.handed \in Seq(Event \cup {Refusal}) /\ iterator.at = "streaming"
  BY Parts, IteratorParts DEF ClientInv, TakeNext
<1>4. UNCHANGED <<log, row, recorded, swept, losses, reading, history, replayed, queue, seen>>
  BY DEF TakeNext, streamVars
<1> DEFINE n == iterator.seen + 1
           e == Seen[n]
<1>5. /\ n \in 1..Len(Seen) /\ n \in Nat \ {0} /\ e \in Event /\ n <= iterator.delivered + 1
  BY <1>1, <1>2, <1>3 DEF TakeNext, Told, SeenIs, Seen
<1>6. iterator' = Counted(n, e) /\ e # Refusal
  BY <1>2, <1>5, RefusalIsNoEvent DEF TakeNext, Seen
<1>7. /\ At(base, old, n) <= Len(recorded) /\ e = recorded[At(base, old, n)]
      /\ Open => ~IsTerminal(e)
  BY <1>1, <1>3, <1>5 DEF Told, SeenIs, StreamIs
<1>8. /\ Log' = Log /\ Over' = Over /\ Seen' = Seen /\ Open' = Open /\ History' = History
      /\ Replayed' = Replayed /\ Queue' = Queue
  BY <1>4 DEF Log, Over, Seen, Open, History, Replayed, Queue
<1>9. LogIs(base)' /\ RecordIsOrdered'
  BY <1>1, <1>4, <1>8 DEF Told, LogIs, ClientInv, RecordIsOrdered
<1> HIDE DEF e
<1>10. /\ iterator'.seen = n /\ iterator'.attempt = iterator.attempt
       /\ IF n <= iterator.delivered
          THEN /\ iterator'.delivered = iterator.delivered /\ iterator'.handed = iterator.handed
               /\ iterator'.at = "streaming"
          ELSE /\ iterator'.delivered = n /\ iterator'.handed = Append(iterator.handed, e)
               /\ iterator'.at = IF IsTerminal(e) THEN "done" ELSE "streaming"
  BY <1>3, <1>6 DEF Counted, Iterators
<1> HIDE DEF n
<1>11. LossesCounted'
  BY <1>3, <1>4, <1>8, <1>10 DEF ClientInv, LossesCounted
<1>12. CASE n <= iterator.delivered
  <2>1. HandedIs(base, early)'
    BY <1>1, <1>3, <1>4, <1>10, <1>12 DEF Told, HandedIs, At
  <2>2. SeenIs(base, old, early)'
    BY <1>1, <1>3, <1>4, <1>5, <1>8, <1>10, <1>12 DEF Told, SeenIs, At
  <2>3. StreamIs(base, old)'
    BY <1>1, <1>3, <1>4, <1>8, <1>10, <1>12 DEF Told, StreamIs
  <2> QED
    BY <1>9, <1>11, <2>1, <2>2, <2>3 DEF Traced, Told
<1>13. CASE n = iterator.delivered + 1
  <2>0. PICK now \in Nat : now = IF old > 0 /\ n <= base THEN n ELSE early
    BY <1>5
  <2>1. /\ iterator'.delivered = n /\ iterator'.handed = Append(iterator.handed, e)
        /\ iterator'.at = IF IsTerminal(e) THEN "done" ELSE "streaming"
    <3>1. ~(n <= iterator.delivered)
      BY <1>3, <1>13
    <3> QED
      BY <1>10, <3>1
  <2>2. /\ Len(iterator.handed) = iterator.delivered
        /\ early <= base /\ early <= iterator.delivered
        /\ old > 0 => old = base /\ early = IF iterator.delivered <= base THEN iterator.delivered ELSE base
    BY <1>1, <1>3 DEF Told, HandedIs, SeenIs
  <2>3. /\ now \in Nat /\ now <= base /\ now <= n
        /\ At(base, now, n) = At(base, old, n)
        /\ old > 0 => now = IF n <= base THEN n ELSE base
    BY <1>5, <1>13, <2>0, <2>2 DEF At
  <2>4. \A i \in 1..iterator.delivered : At(base, now, i) = At(base, early, i)
    BY <1>3, <1>13, <2>0, <2>2 DEF At
  <2>5. iterator.delivered >= 1 => (now = 0 <=> early = 0)
    BY <1>3, <1>5, <1>13, <2>0, <2>2
  <2>6. /\ Len(iterator'.handed) = n /\ iterator'.handed[n] = e
        /\ \A i \in 1..iterator.delivered : iterator'.handed[i] = iterator.handed[i]
    BY <1>3, <1>5, <1>13, <2>1, <2>2
  <2>7. ASSUME NEW i \in 1..n
        PROVE  \/ iterator'.handed[i] = Refusal /\ i = 1 /\ now = 0 /\ swept
               \/ /\ At(base, now, i) <= Len(recorded)
                  /\ iterator'.handed[i] = recorded[At(base, now, i)]
                  /\ iterator'.at \in {"idle", "connecting", "streaming"}
                       => ~IsTerminal(iterator'.handed[i])
    <3>1. CASE i = n
      BY <1>7, <2>1, <2>3, <2>6, <3>1
    <3>2. CASE i \in 1..iterator.delivered
      <4>1. iterator'.handed[i] = iterator.handed[i] /\ At(base, now, i) = At(base, early, i)
        BY <2>4, <2>6, <3>2
      <4>2. iterator.delivered >= 1
        BY <1>3, <3>2
      <4>3. \/ iterator.handed[i] = Refusal /\ i = 1 /\ early = 0 /\ swept
            \/ /\ At(base, early, i) <= Len(recorded)
               /\ iterator.handed[i] = recorded[At(base, early, i)]
               /\ ~IsTerminal(iterator.handed[i])
        BY <1>1, <1>3, <2>2, <3>2 DEF Told, HandedIs
      <4> QED
        BY <2>5, <4>1, <4>2, <4>3
    <3>3. i = n \/ i \in 1..iterator.delivered
      BY <1>3, <1>5, <1>13
    <3> QED
      BY <3>1, <3>2, <3>3
  <2>8. HandedIs(base, now)'
    BY <1>4, <2>1, <2>3, <2>6, <2>7 DEF HandedIs, At
  <2>9. SeenIs(base, old, now)'
    BY <1>1, <1>3, <1>4, <1>5, <1>8, <1>10, <2>1, <2>2, <2>3 DEF Told, SeenIs, At
  <2>10. StreamIs(base, old)'
    BY <1>1, <1>3, <1>4, <1>7, <1>8, <2>1 DEF Told, StreamIs
  <2> QED
    BY <1>9, <1>11, <2>3, <2>8, <2>9, <2>10 DEF Traced, Told
<1> QED
  BY <1>3, <1>5, <1>12, <1>13

\* The server hands on the event recorded in the next place.
LEMMA HandedOn ==
    ASSUME ClientInv, NEW base \in Nat, NEW old \in Nat, NEW early \in Nat,
           Told(base, old, early), Open,
           UNCHANGED <<log, row, recorded, swept, iterator, losses>>, NEW e \in Event,
           Seen' = Append(Seen, e), At(base, old, Len(Seen) + 1) <= Len(recorded),
           e = recorded[At(base, old, Len(Seen) + 1)], Open' <=> ~IsTerminal(e),
           ~IsTerminal(e) => IF old = 0
                             THEN Covers(Log', Seen', History', Replayed', Queue')
                             ELSE CoversSwept(base, recorded', Log', Seen', History', Replayed', Queue')
    PROVE  RecordIsOrdered' /\ LossesCounted' /\ Traced'
<1>1. Seen \in Seq(Event) /\ iterator \in Iterators
  BY Parts DEF ClientInv
<1> DEFINE k == Len(Seen)
<1>2. /\ k \in Nat /\ Len(Seen') = k + 1 /\ Seen'[k + 1] = e
      /\ \A n \in 1..k : Seen'[n] = Seen[n]
  BY <1>1
<1>3. Log' = Log /\ Over' = Over
  BY DEF Log, Over
<1>4. LogIs(base)' /\ HandedIs(base, early)' /\ RecordIsOrdered'
  BY <1>3 DEF Told, LogIs, HandedIs, At, ClientInv, RecordIsOrdered
<1>5. /\ iterator.at = "streaming" /\ iterator.seen <= k /\ iterator.seen <= iterator.delivered
      /\ \A n \in 1..k : /\ At(base, old, n) <= Len(recorded) /\ Seen[n] = recorded[At(base, old, n)]
                         /\ ~IsTerminal(Seen[n])
  BY DEF Told, StreamIs, SeenIs
<1> HIDE DEF k
<1>6. ASSUME NEW n \in 1..(k + 1) PROVE n = k + 1 \/ n \in 1..k
  BY <1>2
<1>7. SeenIs(base, old, early)'
  <2>1. iterator.seen \in Nat /\ iterator.seen <= k + 1
    BY <1>1, <1>2, <1>5, IteratorParts
  <2>2. \A n \in 1..(k + 1) : At(base, old, n) <= Len(recorded) /\ Seen'[n] = recorded[At(base, old, n)]
    BY <1>2, <1>5, <1>6 DEF k
  <2> QED
    BY <1>2, <1>5, <2>1, <2>2 DEF Told, SeenIs, At
<1>8. StreamIs(base, old)'
  <2>1. Open' => \A n \in 1..(k + 1) : ~IsTerminal(Seen'[n])
    BY <1>2, <1>5, <1>6
  <2> QED
    BY <1>2, <1>5, <2>1 DEF StreamIs
<1>9. LossesCounted'
  <2>1. CASE IsTerminal(e)
    <3>1. k + 1 \in 1..Len(Seen') /\ IsTerminal(Seen'[k + 1])
      BY <1>2, <2>1
    <3> QED
      BY <1>5, <3>1 DEF ClientInv, LossesCounted
  <2>2. CASE ~IsTerminal(e)
    BY <1>5, <2>2 DEF ClientInv, LossesCounted
  <2> QED
    BY <2>1, <2>2
<1> QED
  BY <1>4, <1>7, <1>8, <1>9 DEF Traced, Told

LEMMA ServerSendsKeeps ==
    ASSUME ClientInv, NEW r \in Readers, ServerSends(r)
    PROVE  RecordIsOrdered' /\ LossesCounted' /\ Traced'
<1>1. PICK base, old, early \in Nat : Told(base, old, early)
  BY DEF ClientInv, Traced
<1>2. r = TheReader
  BY TheOnes
<1>3. /\ Log \in Seq(Event) /\ recorded \in Seq(Event) /\ Seen \in Seq(Event)
      /\ History \in Seq(Event) /\ Replayed \in Nat /\ Queue \in Seq(Delivery)
      /\ iterator \in Iterators /\ Len(Seen) \in Nat /\ Len(recorded) \in Nat /\ Len(Log) \in Nat
  BY Parts DEF ClientInv
<1>4. UNCHANGED <<log, row, recorded, swept, iterator, losses>>
  BY DEF ServerSends
<1>5. Log' = Log /\ Over' = Over
  BY <1>4 DEF Log, Over
<1>6. Open /\ (ReplayNext(r) \/ ReceiveNext(r))
  BY <1>2 DEF ServerSends, ReplayNext, ReceiveNext, Open
<1>7. /\ iterator.at = "streaming"
      /\ IF old = 0 THEN Covers(Log, Seen, History, Replayed, Queue)
         ELSE CoversSwept(base, recorded, Log, Seen, History, Replayed, Queue)
      /\ old > 0 => old = base
      /\ base + Len(Log) <= Len(recorded)
      /\ \A i \in 1..Len(Log) : Log[i] = recorded[base + i]
  BY <1>1, <1>6 DEF Told, LogIs, StreamIs, SeenIs
<1>8. ASSUME NEW e \in Event, NEW n \in Nat, NEW rest \in Seq(Event), NEW feed \in Seq(Delivery),
             HandOn(r, e, n, rest, feed),
             At(base, old, Len(Seen) + 1) <= Len(recorded),
             e = recorded[At(base, old, Len(Seen) + 1)],
             IF old = 0 THEN Covers(Log, Append(Seen, e), rest, n, feed)
             ELSE CoversSwept(base, recorded, Log, Append(Seen, e), rest, n, feed)
      PROVE  RecordIsOrdered' /\ LossesCounted' /\ Traced'
  <2>1. /\ Seen' = Append(Seen, e) /\ (Open' <=> ~IsTerminal(e))
        /\ ~IsTerminal(e) => Replayed' = n /\ History' = rest /\ Queue' = feed
    BY <1>2, <1>6, <1>8 DEF HandOn, ClientInv, ClientTypeOK, ReaderOK, Seen, Open, Replayed, History, Queue
  <2>2. ~IsTerminal(e) => IF old = 0
                          THEN Covers(Log', Seen', History', Replayed', Queue')
                          ELSE CoversSwept(base, recorded', Log', Seen', History', Replayed', Queue')
    BY <1>4, <1>5, <1>8, <2>1
  <2> QED
    BY <1>1, <1>4, <1>6, <1>8, <2>1, <2>2, HandedOn
<1>9. CASE ReplayNext(r)
  <2>1. /\ History # <<>>
        /\ HandOn(r, Head(History), Replayed + 1, Tail(History), Queue)
    BY <1>2, <1>9 DEF ReplayNext, History, Replayed, Queue
  <2>2. Head(History) \in Event /\ Tail(History) \in Seq(Event) /\ Replayed + 1 \in Nat
    BY <1>3, <2>1
  <2>3. CASE old = 0
    <3>1. /\ Covers(Log, Append(Seen, Head(History)), Tail(History), Replayed + 1, Queue)
          /\ Len(Seen) < Len(Log) /\ Head(History) = Log[Len(Seen) + 1]
      BY <1>3, <1>7, <2>1, <2>3, CoversReplay
    <3>2. At(base, old, Len(Seen) + 1) = base + (Len(Seen) + 1) /\ Len(Seen) + 1 \in 1..Len(Log)
      BY <1>3, <2>3, <3>1 DEF At
    <3>3. base + (Len(Seen) + 1) <= Len(recorded)
      BY <1>3, <1>7, <3>2
    <3> QED
      BY <1>3, <1>7, <1>8, <2>1, <2>2, <2>3, <3>1, <3>2, <3>3
  <2>4. CASE old > 0
    <3>0. CoversSwept(base, recorded, Log, Seen, History, Replayed, Queue) /\ ~(old = 0)
      BY <1>7, <2>4
    <3>1. /\ CoversSwept(base, recorded, Log, Append(Seen, Head(History)), Tail(History), Replayed + 1, Queue)
          /\ Len(Seen) + 1 <= base /\ Head(History) = recorded[Len(Seen) + 1]
      BY <1>3, <2>1, <3>0, SweptReplay
    <3>2. At(base, old, Len(Seen) + 1) = Len(Seen) + 1 /\ Len(Seen) + 1 <= Len(recorded)
      BY <1>3, <1>7, <2>4, <3>1 DEF At
    <3>3. /\ At(base, old, Len(Seen) + 1) <= Len(recorded)
          /\ Head(History) = recorded[At(base, old, Len(Seen) + 1)]
      BY <3>1, <3>2
    <3> QED
      BY <1>3, <1>8, <2>1, <2>2, <3>0, <3>1, <3>3
  <2> QED
    BY <2>3, <2>4
<1>10. CASE ReceiveNext(r)
  <2>1. History = <<>> /\ Queue # <<>>
    BY <1>2, <1>10 DEF ReceiveNext, History, Queue
  <2>2. /\ Head(Queue) \in Delivery /\ Tail(Queue) \in Seq(Delivery) /\ <<>> \in Seq(Event)
        /\ Head(Queue).seq \in Nat /\ Head(Queue).event \in Event
    <3>1. Head(Queue) \in Delivery /\ Tail(Queue) \in Seq(Delivery)
      BY <1>3, <2>1
    <3> QED
      BY <3>1 DEF Delivery
  <2>3. CASE old = 0
    <3>1. /\ Head(Queue).seq = Replayed + 1
          /\ Covers(Log, Append(Seen, Head(Queue).event), <<>>, Head(Queue).seq, Tail(Queue))
          /\ Len(Seen) < Len(Log) /\ Head(Queue).event = Log[Len(Seen) + 1]
      BY <1>3, <1>7, <2>1, <2>3, CoversReceive
    <3>2. ~(Head(Queue).seq <= Replayed)
      BY <1>3, <3>1
    <3>3. HandOn(r, Head(Queue).event, Head(Queue).seq, <<>>, Tail(Queue))
      BY <1>2, <1>10, <3>2 DEF ReceiveNext, Replayed, Queue
    <3>4. At(base, old, Len(Seen) + 1) = base + (Len(Seen) + 1) /\ Len(Seen) + 1 \in 1..Len(Log)
      BY <1>3, <2>3, <3>1 DEF At
    <3>5. base + (Len(Seen) + 1) <= Len(recorded)
      BY <1>3, <1>7, <3>4
    <3> QED
      BY <1>3, <1>7, <1>8, <2>2, <2>3, <3>1, <3>3, <3>4, <3>5
  <2>4. CASE old > 0
    <3>1. CoversSwept(base, recorded, Log, Seen, <<>>, Replayed, Queue)
      BY <1>7, <2>1, <2>4
    <3>2. CASE /\ Head(Queue).seq <= Replayed
               /\ CoversSwept(base, recorded, Log, Seen, <<>>, Replayed, Tail(Queue))
      <4>1. /\ queue' = [queue EXCEPT ![r] = Tail(@)]
            /\ UNCHANGED <<reading, history, replayed, seen>>
        BY <1>2, <1>10, <3>2 DEF ReceiveNext, Replayed, Queue
      <4>2. Queue' = Tail(Queue) /\ Seen' = Seen /\ History' = <<>> /\ Replayed' = Replayed /\ Open' = Open
        BY <1>2, <2>1, <4>1 DEF ClientInv, ClientTypeOK, ReaderOK, Queue, Seen, History, Replayed, Open
      <4>3. CoversSwept(base, recorded, Log, Seen, History, Replayed, Queue)'
        BY <1>4, <1>5, <3>2, <4>2 DEF CoversSwept, StillOld, AllNew
      <4>4. StreamIs(base, old)'
        BY <1>1, <1>4, <2>4, <4>2, <4>3 DEF Told, StreamIs
      <4>5. LogIs(base)' /\ HandedIs(base, early)' /\ SeenIs(base, old, early)'
        BY <1>1, <1>4, <1>5, <4>2 DEF Told, LogIs, HandedIs, SeenIs, At
      <4>6. RecordIsOrdered' /\ LossesCounted'
        BY <1>4, <4>2 DEF ClientInv, RecordIsOrdered, LossesCounted
      <4> QED
        BY <4>4, <4>5, <4>6 DEF Traced, Told
    <3>3. CASE /\ Head(Queue).seq = Replayed + 1
               /\ CoversSwept(base, recorded, Log, Append(Seen, Head(Queue).event), <<>>, Replayed + 1, Tail(Queue))
               /\ At(base, base, Len(Seen) + 1) <= base + Len(Log)
               /\ Head(Queue).event = recorded[At(base, base, Len(Seen) + 1)]
      <4>1. ~(Head(Queue).seq <= Replayed)
        BY <1>3, <3>3
      <4>2. HandOn(r, Head(Queue).event, Head(Queue).seq, <<>>, Tail(Queue))
        BY <1>2, <1>10, <4>1 DEF ReceiveNext, Replayed, Queue
      <4>3. old = base /\ At(base, old, Len(Seen) + 1) = At(base, base, Len(Seen) + 1)
        BY <1>7, <2>4
      <4>4. At(base, base, Len(Seen) + 1) <= Len(recorded)
        <5>1. At(base, base, Len(Seen) + 1) \in Nat /\ base + Len(Log) \in Nat
          BY <1>3 DEF At
        <5> QED
          BY <1>3, <1>7, <3>3, <5>1
      <4>5. CoversSwept(base, recorded, Log, Append(Seen, Head(Queue).event), <<>>, Head(Queue).seq, Tail(Queue))
        BY <3>3
      <4>6. /\ ~(old = 0) /\ At(base, old, Len(Seen) + 1) <= Len(recorded)
            /\ Head(Queue).event = recorded[At(base, old, Len(Seen) + 1)]
        BY <2>4, <3>3, <4>3, <4>4
      <4> QED
        BY <1>8, <2>2, <4>2, <4>5, <4>6
    <3> QED
      BY <1>3, <2>1, <3>1, <3>2, <3>3, SweptReceive
  <2> QED
    BY <2>3, <2>4
<1> QED
  BY <1>6, <1>9, <1>10

LEMMA JobEmitsKeeps ==
    ASSUME ClientInv, NEW j \in Jobs, JobEmits(j)
    PROVE  RecordIsOrdered' /\ LossesCounted' /\ Traced'
<1>1. PICK base, old, early \in Nat : Told(base, old, early)
  BY DEF ClientInv, Traced
<1>2. j = TheJob /\ TheJob # NoJob
  BY TheOnes
<1>3. /\ Log \in Seq(Event) /\ recorded \in Seq(Event) /\ Seen \in Seq(Event)
      /\ History \in Seq(Event) /\ Replayed \in Nat /\ Queue \in Seq(Delivery)
      /\ Len(recorded) \in Nat /\ Len(Log) \in Nat
  BY Parts DEF ClientInv
<1>4. PICK e \in Verdict \cup (IF Progressed < MaxProgress
                               THEN {ProgressEvent(Progressed + 1)} ELSE {}) :
        /\ log' = [log EXCEPT ![j] = SqliteAddEvent(@, e)]
        /\ Publish(j, Len(log[j]) + 1, e)
        /\ recorded' = Append(recorded, e)
        /\ row' = (row \/ IsTerminal(e))
  BY DEF JobEmits
<1>5. e \in Event
  BY <1>3, EmittedIsEvent
<1>6. UNCHANGED <<reading, history, replayed, seen, iterator, losses, swept>> /\ ~Over
  BY DEF JobEmits
<1>7. Seen' = Seen /\ History' = History /\ Replayed' = Replayed /\ Open' = Open
  BY <1>6 DEF Seen, History, Replayed, Open
<1>8. Log' = Append(Log, e)
  BY <1>2, <1>4 DEF ClientInv, ClientTypeOK, Log, SqliteAddEvent
<1> DEFINE d == [seq |-> Len(Log) + 1, event |-> e]
<1>9. Open => Queue' = Append(Queue, d)
  BY <1>2, <1>4, TheOnes, Parts DEF ClientInv, Publish, Open, Queue, Log
<1>10. d \in Delivery /\ d.seq = Len(Log) + 1 /\ d.event = e
  BY <1>3, <1>5 DEF Delivery
<1>11. base + Len(Log) = Len(recorded) /\ \A i \in 1..Len(Log) : Log[i] = recorded[base + i]
  BY <1>1, <1>6 DEF Told, LogIs
<1>12. RecordIsOrdered'
  <2>1. IsTerminal(e) \/ e = ProgressEvent(Len(recorded) + 1)
    BY <1>3, <1>6, ProgressedIsLength DEF ClientInv, Verdict
  <2> QED
    BY <1>3, <1>4, <1>5, <1>6, <2>1, RecordGrows DEF ClientInv
<1>13. LossesCounted'
  BY <1>6, <1>7 DEF ClientInv, LossesCounted
<1>14. LogIs(base)'
  <2>1. /\ Len(Log') = Len(Log) + 1 /\ Len(recorded') = Len(recorded) + 1
        /\ base + Len(Log') = Len(recorded') /\ Len(recorded') \in Nat
    BY <1>3, <1>4, <1>5, <1>8, <1>11
  <2>2. ASSUME NEW i \in 1..Len(Log') PROVE Log'[i] = recorded'[base + i]
    <3>1. CASE i \in 1..Len(Log)
      <4>1. base + i \in 1..Len(recorded)
        BY <1>3, <1>11, <3>1
      <4>2. Log'[i] = Log[i] /\ recorded'[base + i] = recorded[base + i]
        BY <1>3, <1>4, <1>5, <1>8, <3>1, <4>1
      <4> QED
        BY <1>11, <3>1, <4>2
    <3>2. CASE i = Len(Log) + 1
      <4>0. base + (Len(Log) + 1) = Len(recorded) + 1
        BY ONLY <1>3, <1>11, LenBehind, base \in Nat
      <4>1. base + i = Len(recorded) + 1
        BY <3>2, <4>0
      <4>2. Log'[i] = e /\ recorded'[base + i] = e
        BY <1>3, <1>4, <1>5, <1>8, <3>2, <4>1
      <4> QED
        BY <4>2
    <3>3. i \in 1..Len(Log) \/ i = Len(Log) + 1
      BY <1>3, <2>1
    <3> QED
      BY <3>1, <3>2, <3>3
  <2>3. /\ IF swept' THEN base > 0 ELSE base = 0
        /\ ~swept' => row'
    BY <1>1, <1>4, <1>6 DEF Told, LogIs
  <2>4. base + Len(Log') <= Len(recorded')
    BY <2>1
  <2> QED
    BY <2>1, <2>2, <2>3, <2>4 DEF LogIs
<1>15. HandedIs(base, early)'
  BY <1>1, <1>4, <1>5, <1>6, HandedStays DEF ClientInv, Told
<1>16. SeenIs(base, old, early)'
  BY <1>1, <1>4, <1>5, <1>6, <1>7, SeenStays DEF ClientInv, Told
<1>17. StreamIs(base, old)'
  <2>1. SUFFICES ASSUME Open PROVE StreamIs(base, old)'
    BY <1>7 DEF StreamIs
  <2>2. CASE old = 0
    <3>1. Covers(Log, Seen, History, Replayed, Queue)
      BY <1>1, <2>1, <2>2 DEF Told, StreamIs
    <3>2. Covers(Append(Log, e), Seen, History, Replayed, Append(Queue, d))
      BY <1>3, <1>5, <1>10, <3>1, CoversRecord
    <3>3. Covers(Log', Seen', History', Replayed', Queue')
      BY <1>7, <1>8, <1>9, <2>1, <3>2
    <3> QED
      BY <1>1, <1>6, <1>7, <2>1, <2>2, <3>3 DEF Told, StreamIs
  <2>3. CASE old > 0
    <3>1. CoversSwept(base, recorded, Log, Seen, History, Replayed, Queue)
      BY <1>1, <2>1, <2>3 DEF Told, StreamIs
    <3>2. CoversSwept(base, Append(recorded, e), Append(Log, e), Seen, History, Replayed, Append(Queue, d))
      BY <1>3, <1>5, <1>10, <1>11, <3>1, SweptRecord
    <3>3. CoversSwept(base, recorded', Log', Seen', History', Replayed', Queue')
      BY <1>4, <1>7, <1>8, <1>9, <2>1, <3>2
    <3> QED
      BY <1>1, <1>6, <1>7, <2>1, <2>3, <3>3 DEF Told, StreamIs
  <2> QED
    BY <2>2, <2>3
<1> QED
  BY <1>12, <1>13, <1>14, <1>15, <1>16, <1>17 DEF Traced, Told

\* The sweep takes the log under a stream that was complete.
LEMMA SweptOpens ==
    ASSUME NEW rec \in Seq(Event), NEW l \in Seq(Event), NEW s \in Seq(Event),
           NEW h \in Seq(Event), NEW n \in Nat, NEW q \in Seq(Delivery),
           Len(l) = Len(rec), \A i \in 1..Len(l) : l[i] = rec[i],
           Covers(l, s, h, n, q)
    PROVE  CoversSwept(Len(rec), rec, <<>>, s, h, n, q)
<1> DEFINE a == Len(s) + Len(h)
           none == <<>>
<1>1. /\ Len(s) \in Nat /\ Len(h) \in Nat /\ Len(q) \in Nat /\ Len(l) \in Nat /\ Len(none) = 0
  OBVIOUS
<1>2. /\ n = Len(s) /\ Len(l) = a + Len(q)
      /\ \A i \in 1..Len(h) : h[i] = l[Len(s) + i]
      /\ \A i \in 1..Len(q) : q[i].seq = a + i /\ q[i].event = l[a + i]
  BY DEF Covers
<1>3. \A i \in 1..Len(h) : Len(s) + i \in 1..Len(l)
  BY <1>1, <1>2
<1>4. \A i \in 1..Len(q) : a + i \in 1..Len(l)
  BY <1>1, <1>2
<1>5. \A i \in 1..Len(h) : h[i] = rec[Len(s) + i]
  BY <1>2, <1>3
<1>6. \A i \in 1..Len(q) : q[i].seq = a + i /\ q[i].event = rec[a + i]
  BY <1>2, <1>4
<1>7. Len(q) = Len(q) + Len(none) /\ \A i \in 1..Len(none) : FALSE
  BY <1>1
<1> HIDE DEF none
<1>8. StillOld(Len(rec), rec, none, s, h, q, Len(q))
  BY <1>2, <1>5, <1>6, <1>7 DEF StillOld
<1> QED
  BY <1>1, <1>2, <1>8 DEF CoversSwept, none

LEMMA SweptKeeps ==
    ASSUME ClientInv, NEW j \in Jobs, Swept(j)
    PROVE  RecordIsOrdered' /\ LossesCounted' /\ Traced'
<1>1. PICK base, old, early \in Nat : Told(base, old, early)
  BY DEF ClientInv, Traced
<1>2. j = TheJob
  BY TheOnes
<1>3. /\ Log \in Seq(Event) /\ recorded \in Seq(Event) /\ Seen \in Seq(Event)
      /\ History \in Seq(Event) /\ Replayed \in Nat /\ Queue \in Seq(Delivery)
      /\ Len(recorded) \in Nat \ {0} /\ Len(Log) \in Nat
      /\ iterator.handed \in Seq(Event \cup {Refusal}) /\ iterator.delivered \in Nat
  BY Parts, IteratorParts DEF ClientInv, Swept
<1>4. /\ UNCHANGED <<recorded, iterator, losses, reading, history, replayed, queue, seen>>
      /\ ~swept /\ swept'
  BY DEF Swept, streamVars
<1>5. Seen' = Seen /\ History' = History /\ Replayed' = Replayed /\ Queue' = Queue /\ Open' = Open
  BY <1>4 DEF Seen, History, Replayed, Queue, Open
<1>6. Log' = <<>>
  BY <1>2 DEF Swept, ClientInv, ClientTypeOK, Log
<1>7. /\ base = 0 /\ early = 0 /\ Len(Log) = Len(recorded)
      /\ \A i \in 1..Len(Log) : Log[i] = recorded[i]
  <2>1. base = 0 /\ early = 0 /\ base + Len(Log) = Len(recorded)
    BY <1>1, <1>4 DEF Told, LogIs, HandedIs
  <2>2. \A i \in 1..Len(Log) : base + i = i
    BY <2>1
  <2> QED
    BY <1>1, <1>3, <2>1, <2>2 DEF Told, LogIs
<1>8. PICK b \in Nat : b = Len(recorded)
  BY <1>3
<1>9. PICK d \in Nat : d = iterator.delivered
  BY <1>3
<1>10. \A n \in 1..d : /\ n <= b /\ iterator.handed[n] = recorded[n]
                       /\ iterator.at \in {"idle", "connecting", "streaming"}
                            => ~IsTerminal(iterator.handed[n])
  <2>1. Len(iterator.handed) = d
    BY <1>1, <1>9 DEF Told, HandedIs
  <2>2. \A n \in 1..d : At(base, early, n) = n
    BY <1>7 DEF At
  <2> QED
    BY <1>1, <1>4, <1>8, <2>1, <2>2 DEF Told, HandedIs
<1>11. d <= b
  <2>1. CASE d = 0
    BY <2>1
  <2>2. CASE d > 0
    <3>1. d \in 1..d
      BY <2>2
    <3> QED
      BY <1>10, <3>1
  <2> QED
    BY <2>1, <2>2
<1>12. \A n \in 1..Len(Seen) : At(base, old, n) = n
  BY <1>3, <1>7 DEF At
<1>13. iterator.at = "streaming" =>
          \A n \in 1..Len(Seen) : n <= b /\ Seen[n] = recorded[n]
  BY <1>1, <1>8, <1>12 DEF Told, SeenIs
<1>14. RecordIsOrdered' /\ LossesCounted'
  BY <1>4 DEF ClientInv, RecordIsOrdered, LossesCounted
<1>15. LogIs(b)'
  <2>1. /\ Len(Log') = 0 /\ \A i \in 1..Len(Log') : FALSE
    BY <1>6
  <2>2. b + Len(Log') = Len(recorded') /\ b > 0
    BY <1>3, <1>4, <1>8, <2>1
  <2> QED
    BY <1>4, <1>8, <2>1, <2>2 DEF LogIs
<1>16. HandedIs(b, d)'
  <2>1. \A n \in 1..d : At(b, d, n) = n
    BY DEF At
  <2>2. Len(iterator.handed) = d
    BY <1>1, <1>9 DEF Told, HandedIs
  <2> QED
    BY <1>4, <1>8, <1>9, <1>10, <1>11, <2>1, <2>2 DEF HandedIs, At
<1>17. SeenIs(b, b, d)'
  <2>1. \A n \in 1..Len(Seen) : n <= b => At(b, b, n) = n
    BY <1>3 DEF At
  <2>2. iterator.at = "streaming" =>
           \A n \in 1..Len(Seen) : At(b, b, n) <= Len(recorded) /\ Seen[n] = recorded[At(b, b, n)]
    BY <1>8, <1>13, <2>1
  <2>3. d = IF iterator.delivered <= b THEN iterator.delivered ELSE b
    BY <1>9, <1>11
  <2>4. iterator.at = "streaming" => iterator.seen <= Len(Seen) /\ iterator.seen <= iterator.delivered
    BY <1>1 DEF Told, SeenIs
  <2> QED
    BY <1>4, <1>5, <2>2, <2>3, <2>4 DEF SeenIs, At
<1>18. StreamIs(b, b)'
  <2>1. SUFFICES ASSUME Open PROVE StreamIs(b, b)'
    BY <1>5 DEF StreamIs
  <2>2. old = 0
    BY <1>1, <1>7, <2>1 DEF Told, StreamIs, SeenIs
  <2>3. Covers(Log, Seen, History, Replayed, Queue)
    BY <1>1, <2>1, <2>2 DEF Told, StreamIs
  <2>4. CoversSwept(Len(recorded), recorded, <<>>, Seen, History, Replayed, Queue)
    BY <1>3, <1>7, <2>3, SweptOpens
  <2>5. CoversSwept(b, recorded', Log', Seen', History', Replayed', Queue') /\ b # 0
    BY <1>3, <1>4, <1>5, <1>6, <1>8, <2>4
  <2> QED
    BY <1>1, <1>4, <1>5, <2>1, <2>5 DEF Told, StreamIs
<1> QED
  BY <1>14, <1>15, <1>16, <1>17, <1>18 DEF Traced, Told

LEMMA ServerDiesKeeps ==
    ASSUME ClientInv, NEW j \in Jobs, ServerDies(j)
    PROVE  RecordIsOrdered' /\ LossesCounted' /\ Traced'
<1>1. PICK base, old, early \in Nat : Told(base, old, early)
  BY DEF ClientInv, Traced
<1>2. j = TheJob
  BY TheOnes
<1> DEFINE e == StatusEvent("failed")
<1>3. /\ Log \in Seq(Event) /\ recorded \in Seq(Event) /\ losses \in Nat
      /\ Len(recorded) \in Nat /\ Len(Log) \in Nat /\ iterator.attempt \in Nat
      /\ MaxReconnects \in Nat
  BY Parts, IteratorParts, ClientAssumption DEF ClientInv
<1>4. e \in Event /\ IsTerminal(e)
  BY EventFacts DEF Terminal, IsTerminal, IsStatus, StatusEvent
<1>5. /\ UNCHANGED <<row, iterator, swept, seen>> /\ losses' = losses + 1
      /\ Seen' = Seen /\ ~Open'
  BY TheOnes DEF ServerDies, Detach, Seen, Open
<1> HIDE DEF e
<1>6. IF Over THEN recorded' = recorded /\ Log' = Log
      ELSE /\ recorded' = Append(recorded, e)
           /\ Log' = IF row THEN Append(Log, e) ELSE Log
  BY <1>2 DEF ServerDies, ClientInv, ClientTypeOK, Log, e
<1>7. /\ base + Len(Log) <= Len(recorded)
      /\ ~Over \/ ~swept => base + Len(Log) = Len(recorded)
      /\ \A i \in 1..Len(Log) : Log[i] = recorded[base + i]
      /\ IF swept THEN base > 0 ELSE base = 0
      /\ ~swept => row
  BY <1>1 DEF Told, LogIs
<1>8. RecordIsOrdered'
  <2>1. CASE Over
    BY <1>6, <2>1 DEF ClientInv, RecordIsOrdered
  <2>2. CASE ~Over
    BY <1>3, <1>4, <1>6, <2>2, RecordGrows DEF ClientInv
  <2> QED
    BY <2>1, <2>2
<1>9. LossesCounted'
  <2>1. losses + 1 > losses /\ (losses >= iterator.attempt => losses + 1 > iterator.attempt)
        /\ (losses > MaxReconnects => losses + 1 > MaxReconnects)
        /\ (losses + 1 > iterator.attempt => losses + 1 >= iterator.attempt)
    BY <1>3
  <2> QED
    BY <1>5, <2>1 DEF ClientInv, LossesCounted
<1>10. LogIs(base)'
  <2>1. CASE Over
    <3>1. Over' = Over
      BY <1>6, <2>1 DEF Over
    <3> QED
      BY <1>5, <1>6, <1>7, <2>1, <3>1 DEF LogIs
  <2>2. CASE ~Over
    <3>1. /\ recorded' = Append(recorded, e) /\ Len(recorded') = Len(recorded) + 1
          /\ recorded'[Len(recorded) + 1] = e
          /\ \A i \in 1..Len(recorded) : recorded'[i] = recorded[i]
      <4>1. recorded' = Append(recorded, e)
        BY <1>6, <2>2
      <4> QED
        BY <1>3, <1>4, <4>1
    <3>2. Over'
      <4>1. recorded' # <<>> /\ IsTerminal(recorded'[Len(recorded')])
        BY <1>3, <1>4, <3>1
      <4> QED
        BY <4>1 DEF Over
    <3>3. base + Len(Log) = Len(recorded)
      BY <1>7, <2>2
    <3>4. \A i \in 1..Len(Log) : base + i \in 1..Len(recorded)
      BY <1>3, <3>3
    <3>5. \A i \in 1..Len(Log) : Log[i] = recorded'[base + i]
      BY <1>7, <3>1, <3>4
    <3>6. CASE row
      <4>1. /\ Len(Log') = Len(Log) + 1 /\ Log'[Len(Log) + 1] = e
            /\ \A i \in 1..Len(Log) : Log'[i] = Log[i]
        BY <1>3, <1>4, <1>6, <2>2, <3>6
      <4>2. base + (Len(Log) + 1) = Len(recorded) + 1
        BY <1>3, <3>3, LenBehind
      <4>3. ASSUME NEW i \in 1..Len(Log') PROVE Log'[i] = recorded'[base + i]
        <5>1. CASE i \in 1..Len(Log)
          BY <3>5, <4>1, <5>1
        <5>2. CASE i = Len(Log) + 1
          BY <3>1, <4>1, <4>2, <5>2
        <5>3. i \in 1..Len(Log) \/ i = Len(Log) + 1
          BY <1>3, <4>1
        <5> QED
          BY <5>1, <5>2, <5>3
      <4>4. base + Len(Log') = Len(recorded') /\ Len(recorded') \in Nat
        BY <1>3, <3>1, <4>1, <4>2
      <4>5. base + Len(Log') <= Len(recorded')
        BY <4>4
      <4> QED
        BY <1>5, <1>7, <4>3, <4>4, <4>5 DEF LogIs
    <3>7. CASE ~row
      <4>1. Log' = Log /\ swept
        BY <1>6, <1>7, <2>2, <3>7
      <4>2. base + Len(Log) <= Len(recorded')
        BY <1>3, <3>1, <3>3
      <4> QED
        BY <1>5, <1>7, <3>2, <3>5, <4>1, <4>2 DEF LogIs
    <3> QED
      BY <3>6, <3>7
  <2> QED
    BY <2>1, <2>2
<1>11. HandedIs(base, early)' /\ SeenIs(base, old, early)'
  BY <1>1, <1>4, <1>5, <1>6, HandedStays, SeenStays DEF ClientInv, Told
<1>12. StreamIs(base, old)'
  BY <1>5 DEF StreamIs
<1> QED
  BY <1>8, <1>9, <1>10, <1>11, <1>12 DEF Traced, Told

LEMMA SocketDropsKeeps ==
    ASSUME ClientInv, NEW r \in Readers, SocketDrops(r)
    PROVE  RecordIsOrdered' /\ LossesCounted' /\ Traced'
<1>1. PICK base, old, early \in Nat : Told(base, old, early)
  BY DEF ClientInv, Traced
<1>2. r = TheReader
  BY TheOnes
<1>3. /\ Seen \in Seq(Event) /\ Len(Seen) \in Nat /\ losses \in Nat
      /\ iterator.attempt \in Nat /\ iterator.seen \in Nat /\ MaxReconnects \in Nat
  BY Parts, IteratorParts, ClientAssumption DEF ClientInv
<1>4. UNCHANGED <<log, row, recorded, iterator, swept>> /\ losses' = losses + 1
  BY DEF SocketDrops
<1>5. Log' = Log /\ Over' = Over
  BY <1>4 DEF Log, Over
<1>6. Open /\ ~Open'
  BY <1>2 DEF SocketDrops, ClientInv, ClientTypeOK, ReaderOK, Open
<1>7. PICK k \in iterator.seen..Len(Seen) : Seen' = SubSeq(Seen, 1, k)
  BY <1>2 DEF SocketDrops, ClientInv, ClientTypeOK, ReaderOK, Seen
<1>8. /\ k \in Nat /\ k <= Len(Seen) /\ iterator.seen <= k /\ Len(Seen') = k
      /\ \A n \in 1..k : Seen'[n] = Seen[n] /\ n \in 1..Len(Seen)
  <2>1. k \in Nat /\ k <= Len(Seen) /\ iterator.seen <= k
    BY <1>3
  <2>2. Len(SubSeq(Seen, 1, k)) = k /\ \A n \in 1..k : SubSeq(Seen, 1, k)[n] = Seen[n]
    BY <1>3, <2>1
  <2> QED
    BY <1>3, <1>7, <2>1, <2>2
<1>9. LogIs(base)' /\ HandedIs(base, early)' /\ RecordIsOrdered' /\ StreamIs(base, old)'
  BY <1>1, <1>4, <1>5, <1>6 DEF Told, LogIs, HandedIs, At, ClientInv, RecordIsOrdered, StreamIs
<1>10. SeenIs(base, old, early)'
  <2>1. iterator.at = "streaming" => \A n \in 1..k :
           At(base, old, n) <= Len(recorded) /\ Seen'[n] = recorded[At(base, old, n)]
    BY <1>1, <1>8 DEF Told, SeenIs
  <2> QED
    BY <1>1, <1>4, <1>8, <2>1 DEF Told, SeenIs, At
<1>11. LossesCounted'
  <2>1. losses + 1 > losses /\ (losses >= iterator.attempt => losses + 1 > iterator.attempt)
        /\ (losses > MaxReconnects => losses + 1 > MaxReconnects)
        /\ (losses + 1 > iterator.attempt => losses + 1 >= iterator.attempt)
    BY <1>3
  <2> QED
    BY <1>4, <2>1 DEF ClientInv, LossesCounted
<1> QED
  BY <1>9, <1>10, <1>11 DEF Traced, Told

LEMMA ClientNextInv == ClientInv /\ [ClientNext]_clientVars => ClientInv'
<1> SUFFICES ASSUME ClientInv, [ClientNext]_clientVars PROVE ClientInv'
  OBVIOUS
<1>1. ClientTypeOK'
  BY ClientTypeNext DEF ClientInv
<1>2. RecordIsOrdered' /\ LossesCounted' /\ Traced'
  <2>1. CASE UNCHANGED clientVars
    <3>1. PICK base, old, early \in Nat : Told(base, old, early)
      BY DEF ClientInv, Traced
    <3>2. UNCHANGED <<log, row, recorded, swept, iterator, losses, reading, history, replayed, queue, seen>>
      BY <2>1 DEF clientVars
    <3>3. /\ Log' = Log /\ Over' = Over /\ Seen' = Seen /\ Open' = Open /\ History' = History
          /\ Replayed' = Replayed /\ Queue' = Queue
      BY <3>2 DEF Log, Over, Seen, Open, History, Replayed, Queue
    <3>4. LogIs(base)' /\ HandedIs(base, early)' /\ SeenIs(base, old, early)' /\ StreamIs(base, old)'
      BY <3>1, <3>2, <3>3 DEF Told, LogIs, HandedIs, SeenIs, StreamIs, At
    <3>5. RecordIsOrdered' /\ LossesCounted'
      BY <3>2, <3>3 DEF ClientInv, RecordIsOrdered, LossesCounted
    <3> QED
      BY <3>4, <3>5 DEF Traced, Told
  <2>2. ASSUME NEW r \in Readers, ClientStep(r)
        PROVE  RecordIsOrdered' /\ LossesCounted' /\ Traced'
    BY <2>2, TakeNextKeeps, ReattachKeeps, ConnectRefusedKeeps, ServerSendsKeeps, ConnectKeeps
       DEF ClientStep
  <2> QED
    BY <2>1, <2>2, BeginKeeps, AbandonKeeps, JobEmitsKeeps, SweptKeeps, ServerDiesKeeps,
       SocketDropsKeeps DEF ClientNext
<1> QED
  BY <1>1, <1>2 DEF ClientInv

\* Nothing is recorded twice, so an event's place is where it was recorded.
LEMMA PlaceIs ==
    ASSUME RecordIsOrdered, recorded \in Seq(Event), NEW i \in DOMAIN recorded
    PROVE  Place(recorded[i]) = i
<1>1. ASSUME NEW k \in DOMAIN recorded, recorded[k] = recorded[i] PROVE k = i
  <2>1. DOMAIN recorded = 1..Len(recorded) /\ Len(recorded) \in Nat
    OBVIOUS
  <2>2. /\ recorded[k] = ProgressEvent(k) \/ (IsTerminal(recorded[k]) /\ k = Len(recorded))
        /\ recorded[i] = ProgressEvent(i) \/ (IsTerminal(recorded[i]) /\ i = Len(recorded))
    BY DEF RecordIsOrdered
  <2>3. \A n \in DOMAIN recorded : ProgressEvent(n).type = "progress" /\ ProgressEvent(n).iteration = n
                                   /\ ~IsTerminal(ProgressEvent(n))
    BY DEF ProgressEvent, IsTerminal, IsStatus
  <2>4. CASE recorded[k] = ProgressEvent(k) /\ recorded[i] = ProgressEvent(i)
    BY <1>1, <2>3, <2>4
  <2> QED
    BY <1>1, <2>2, <2>3, <2>4
<1> QED
  BY <1>1 DEF Place

LEMMA ClientInvTells == ClientInv => ClientIsTold
<1> SUFFICES ASSUME ClientInv PROVE ClientIsTold
  OBVIOUS
<1>1. PICK base, old, early \in Nat : Told(base, old, early)
  BY DEF ClientInv, Traced
<1> DEFINE handed == iterator.handed
<1>2. /\ recorded \in Seq(Event) /\ handed \in Seq(Event \cup {Refusal})
      /\ Len(recorded) \in Nat /\ Len(handed) \in Nat
      /\ DOMAIN recorded = 1..Len(recorded) /\ DOMAIN handed = 1..Len(handed)
  BY Parts, IteratorParts DEF ClientInv
<1>3. /\ early <= base
      /\ \A n \in 1..Len(handed) :
           \/ handed[n] = Refusal /\ swept
           \/ At(base, early, n) <= Len(recorded) /\ handed[n] = recorded[At(base, early, n)]
  BY <1>1 DEF Told, HandedIs
<1>4. ~swept => base = 0 /\ early = 0
  BY <1>1 DEF Told, LogIs, HandedIs
<1> HIDE DEF handed
<1>5. ASSUME NEW n \in 1..Len(handed), handed[n] # Refusal
      PROVE  Place(handed[n]) = At(base, early, n)
  <2>1. At(base, early, n) \in DOMAIN recorded /\ handed[n] = recorded[At(base, early, n)]
    <3>1. At(base, early, n) <= Len(recorded) /\ handed[n] = recorded[At(base, early, n)]
      BY <1>3, <1>5
    <3>2. At(base, early, n) \in Nat \ {0}
      BY <1>2 DEF At
    <3> QED
      BY <1>2, <3>1, <3>2
  <2> QED
    BY <1>2, <2>1, PlaceIs DEF ClientInv
<1>6. ASSUME NEW i \in 1..Len(handed), NEW k \in 1..Len(handed), i < k
      PROVE  At(base, early, i) < At(base, early, k)
  BY <1>2, <1>3, <1>6 DEF At
<1>7. ~swept => IsPrefix(handed, recorded)
  <2>1. SUFFICES ASSUME ~swept PROVE IsPrefix(handed, recorded)
    OBVIOUS
  <2>2. \A n \in 1..Len(handed) : n <= Len(recorded) /\ handed[n] = recorded[n]
    <3>1. \A n \in 1..Len(handed) : At(base, early, n) = n
      BY <1>4, <2>1 DEF At
    <3> QED
      BY <1>3, <2>1, <3>1
  <2>3. Len(handed) <= Len(recorded)
    <3>1. CASE Len(handed) = 0
      BY <1>2, <3>1
    <3>2. CASE Len(handed) > 0
      <4>1. Len(handed) \in 1..Len(handed)
        BY <1>2, <3>2
      <4> QED
        BY <2>2, <4>1
    <3> QED
      BY <1>2, <3>1, <3>2
  <2> DEFINE x == SubSeq(handed, 1, Len(handed))
             y == SubSeq(recorded, 1, Len(handed))
  <2>4. /\ x = [n \in 1..Len(handed) |-> handed[n]]
        /\ y = [n \in 1..Len(handed) |-> recorded[n]]
    BY <1>2, <2>3
  <2>5. x = y
    BY <2>2, <2>4
  <2> QED
    BY <2>3, <2>5 DEF IsPrefix
<1>8. DeliveredOnce
  BY <1>2, <1>5, <1>6, <1>7 DEF DeliveredOnce, handed
<1>9. GivesUpLate
  BY DEF ClientInv, LossesCounted, GivesUpLate
<1> QED
  BY <1>8, <1>9 DEF ClientIsTold, ClientInv, ClientTypeOK

\* Whatever drops, dies or is swept: an event is handed out once and in order, none is
\* left out before the sweep, and the iterator gives up only when it may (client.ts:
\* events).
THEOREM ClientTold == ClientSpec => []ClientIsTold
<1>1. ClientInit => ClientInv
  BY ClientInitInv
<1>2. ClientInv /\ [ClientNext]_clientVars => ClientInv'
  BY ClientNextInv
<1>3. ClientInv => ClientIsTold
  BY ClientInvTells
<1> QED
  BY <1>1, <1>2, <1>3, PTL DEF ClientSpec

-----------------------------------------------------------------------------
(* The geometry editor *)

USE GeometryEditorAssumption

\* An outline without a gap, inside the domain.
Whole(b) == {s \in Seq(1..b) : Len(s) >= 3}
Gapped(b) == {s \in Seq(0..b) : Len(s) >= 3}

EditorTypeOK ==
    /\ bounds \in Widths
    /\ points \in Gapped(bounds)
    /\ undo \in Seq(Whole(bounds)) /\ redo \in Seq(Whole(bounds))
    /\ dragging \in Nat /\ dragMoved \in BOOLEAN /\ spoilt \in BOOLEAN
    /\ edits \in Nat

\* In a drag that nothing spoilt, the handle held down is a point of the outline.
HandleIsHeld ==
    ~spoilt => /\ points \in Whole(bounds)
               /\ dragging # 0 => dragging \in DOMAIN points

\* The handle was pressed and has not moved: undo holds its step already.
Pressed == dragging # 0 /\ ~dragMoved

\* The stacks are the two ends of the line, by their indices; what a handle that is
\* pressed pushed is the outline it would move.
StacksAreTheLine ==
    ~spoilt =>
        /\ line \in Seq(Whole(bounds)) /\ here \in 1..Len(line) /\ points = line[here]
        /\ Len(redo) = Len(line) - here
        /\ \A k \in 1..Len(redo) : redo[k] = line[Len(line) + 1 - k]
        /\ Len(undo) = IF Pressed /\ ~Full THEN here ELSE here - 1
        /\ \A k \in 1..Len(undo) : undo[k] = line[IF Pressed /\ Full THEN k + 1 ELSE k]

EditorInv == EditorTypeOK /\ HandleIsHeld /\ StacksAreTheLine

LEMMA MaxIsThere ==
    /\ Max(Widths) \in Widths
    /\ \A a, b \in Int : Max({a, b}) = IF a <= b THEN b ELSE a
    /\ \A a, b \in Int : Min({a, b}) = IF a <= b THEN a ELSE b
<1>1. Max(Widths) \in Widths
  BY DEF Max
<1>2. ASSUME NEW a \in Int, NEW b \in Int
      PROVE  Max({a, b}) = IF a <= b THEN b ELSE a
  BY <1>2 DEF Max
<1>3. ASSUME NEW a \in Int, NEW b \in Int
      PROVE  Min({a, b}) = IF a <= b THEN a ELSE b
  BY <1>3 DEF Min
<1> QED
  BY <1>1, <1>2, <1>3

LEMMA WholeFacts ==
    ASSUME NEW b \in Nat \ {0}
    PROVE  /\ Whole(b) \subseteq Gapped(b)
           /\ \A s \in Gapped(b) : Hole \notin Range(s) => s \in Whole(b)
           /\ \A s \in Whole(b) : Hole \notin Range(s)
<1>1. ASSUME NEW s \in Whole(b) PROVE s \in Gapped(b) /\ Hole \notin Range(s)
  BY <1>1 DEF Whole, Gapped, Hole, Range
<1>2. ASSUME NEW s \in Gapped(b), Hole \notin Range(s) PROVE s \in Whole(b)
  BY <1>2 DEF Whole, Gapped, Hole, Range
<1> QED
  BY <1>1, <1>2

LEMMA WholeIsPositive ==
    ASSUME NEW b \in Nat \ {0}, NEW s \in Whole(b)
    PROVE  s \in Seq(Nat \ {0}) /\ Len(s) \in Nat /\ Len(s) >= 3 /\ DOMAIN s = 1..Len(s)
<1>1. s \in Seq(1..b) /\ 1..b \subseteq Nat \ {0}
  BY DEF Whole
<1>2. s \in Seq(Nat \ {0})
  BY <1>1, SeqMonotonic
<1> QED
  BY <1>1, <1>2 DEF Whole

LEMMA TriplesAreWhole ==
    ASSUME NEW b \in Nat \ {0}, NEW s \in Outlines(b)
    PROVE  s \in Whole(b)
<1>1. s \in [1..3 -> 1..b]
  BY DEF Outlines
<1>2. s \in Seq(1..b)
  BY <1>1, SeqDef
<1>3. Len(s) >= 3
  <2>1. Len(s) = 3
    BY <1>1, <1>2, LenProperties
  <2> QED
    BY <2>1
<1> QED
  BY <1>2, <1>3, Zenon DEF Whole

LEMMA ClampAllIsWhole ==
    ASSUME NEW b \in Nat \ {0}, NEW s \in Seq(Nat \ {0}), Len(s) >= 3
    PROVE  ClampAll(s, b) \in Whole(b)
BY DEF ClampAll, Clamp, Whole

\* Pushing the outline shown on the stack of those before it makes the stack of those
\* up to it, as far as the limit reaches.
LEMMA PushedIsPast ==
    ASSUME NEW S, undo \in Seq(S), NEW x \in S
    PROVE  /\ Pushed(undo, x) \in Seq(S)
           /\ here \in Nat \ {0} /\ x = line[here] /\ Len(undo) = here - 1
              /\ (\A k \in 1..Len(undo) : undo[k] = line[k])
              =>
              /\ Len(Pushed(undo, x)) = IF Full THEN here - 1 ELSE here
              /\ \A k \in 1..Len(Pushed(undo, x)) :
                   Pushed(undo, x)[k] = line[IF Full THEN k + 1 ELSE k]
<1> DEFINE t == Append(undo, x)
<1>1. /\ t \in Seq(S) /\ Len(t) = Len(undo) + 1 /\ t # <<>>
      /\ \A k \in 1..Len(undo) : t[k] = undo[k]
      /\ t[Len(undo) + 1] = x /\ Len(undo) \in Nat
  OBVIOUS
<1>2. /\ Tail(t) \in Seq(S) /\ Len(Tail(t)) = Len(undo)
      /\ \A k \in 1..Len(undo) : Tail(t)[k] = t[k + 1]
  BY <1>1, HeadTailProperties
<1>3. Pushed(undo, x) = IF Len(t) > HistoryLimit THEN Tail(t) ELSE t
  BY DEF Pushed
<1> HIDE DEF t
<1>4. Pushed(undo, x) \in Seq(S)
  BY <1>1, <1>2, <1>3
<1>5. ASSUME here \in Nat \ {0}, x = line[here], Len(undo) = here - 1,
             \A k \in 1..Len(undo) : undo[k] = line[k]
      PROVE  /\ Len(Pushed(undo, x)) = IF Full THEN here - 1 ELSE here
             /\ \A k \in 1..Len(Pushed(undo, x)) :
                  Pushed(undo, x)[k] = line[IF Full THEN k + 1 ELSE k]
  <2>1. ASSUME NEW k \in 1..here PROVE t[k] = line[k]
    BY <1>1, <1>5
  <2>2. Len(t) = here
    BY <1>1, <1>5
  <2>3. CASE Full
    <3>1. Pushed(undo, x) = Tail(t)
      BY <1>3, <2>2, <2>3 DEF Full
    <3>2. \A k \in 1..(here - 1) : Tail(t)[k] = line[k + 1]
      BY <1>2, <1>5, <2>1
    <3> QED
      BY <1>2, <1>5, <2>3, <3>1, <3>2
  <2>4. CASE ~Full
    <3>1. Pushed(undo, x) = t
      BY <1>3, <2>2, <2>4, <1>5 DEF Full
    <3> QED
      BY <2>1, <2>2, <2>4, <3>1
  <2> QED
    BY <2>3, <2>4
<1> QED
  BY <1>4, <1>5

LEMMA OnwardIs ==
    ASSUME NEW S, line \in Seq(S), here \in 1..Len(line), NEW x \in S, Onward(x)
    PROVE  /\ line' \in Seq(S)
           /\ here' = IF Full THEN here ELSE here + 1
           /\ Len(line') = here'
           /\ line'[here'] = x
           /\ \A k \in 1..(here' - 1) : line'[k] = line[IF Full THEN k + 1 ELSE k]
<1> DEFINE past == SubSeq(line, 1, here)
           front == IF here > HistoryLimit THEN Tail(past) ELSE past
<1>1. /\ past \in Seq(S) /\ Len(past) = here /\ past # <<>>
      /\ \A k \in 1..here : past[k] = line[k]
  <2>1. \A i \in 1..here : line[i] \in S
    OBVIOUS
  <2> QED
    BY <2>1, SubSeqProperties
<1>2. /\ Tail(past) \in Seq(S) /\ Len(Tail(past)) = here - 1
      /\ \A k \in 1..(here - 1) : Tail(past)[k] = past[k + 1]
  BY <1>1, HeadTailProperties
<1>3. line' = Append(front, x) /\ here' = Len(front) + 1
  BY DEF Onward
<1> HIDE DEF past
<1>4. /\ front \in Seq(S) /\ Len(front) = IF Full THEN here - 1 ELSE here
      /\ \A k \in 1..Len(front) : front[k] = line[IF Full THEN k + 1 ELSE k]
  BY <1>1, <1>2 DEF Full
<1> HIDE DEF front
<1> QED
  BY <1>3, <1>4, AppendProperties

LEMMA EditorInitInv == EditorInit => EditorInv
<1> SUFFICES ASSUME EditorInit PROVE EditorInv
  OBVIOUS
<1>1. bounds \in Widths /\ bounds \in Nat \ {0}
  BY MaxIsThere DEF EditorInit
<1>2. points \in Whole(bounds)
  BY <1>1 DEF EditorInit, Whole
<1>3. EditorTypeOK
  <2>1. points \in Gapped(bounds) /\ <<>> \in Seq(Whole(bounds))
    BY <1>1, <1>2, WholeFacts
  <2>2. dragMoved \in BOOLEAN /\ spoilt \in BOOLEAN
    BY DEF EditorInit
  <2> QED
    BY <1>1, <2>1, <2>2 DEF EditorInit, EditorTypeOK
<1>4. HandleIsHeld
  BY <1>2 DEF EditorInit, HandleIsHeld
<1>5. line \in Seq(Whole(bounds)) /\ Len(line) = 1 /\ points = line[1]
  BY <1>2 DEF EditorInit
<1>6. StacksAreTheLine
  BY <1>5 DEF EditorInit, StacksAreTheLine, Pressed, Full
<1> QED
  BY <1>3, <1>4, <1>6 DEF EditorInv

\* A call comes when the outline has no gap.
LEMMA CalledOnWhole ==
    ASSUME EditorInv, Called
    PROVE  /\ points \in Whole(bounds) /\ bounds \in Nat \ {0} /\ edits' \in Nat
           /\ spoilt' \in BOOLEAN
           /\ ~spoilt' => ~spoilt /\ dragging = 0
<1>1. bounds \in Nat \ {0}
  BY DEF EditorInv, EditorTypeOK
<1>2. points \in Whole(bounds)
  BY <1>1, WholeFacts DEF EditorInv, EditorTypeOK, Called
<1>3. spoilt' \in BOOLEAN /\ (~spoilt' => ~spoilt /\ dragging = 0)
  BY DEF Called
<1>4. edits' \in Nat
  BY DEF EditorInv, EditorTypeOK, Called
<1> QED
  BY <1>1, <1>2, <1>3, <1>4

LEMMA CommitKeeps ==
    ASSUME EditorInv, Called, NEW s \in Seq(Nat \ {0}), Len(s) >= 3, Commit(s)
    PROVE  EditorInv'
<1>1. /\ points \in Whole(bounds) /\ bounds \in Nat \ {0} /\ bounds' = bounds /\ bounds \in Widths
      /\ ~spoilt' => ~spoilt /\ dragging = 0
      /\ undo \in Seq(Whole(bounds))
  BY CalledOnWhole DEF EditorInv, EditorTypeOK, Commit
<1>2. points' \in Whole(bounds)
  BY <1>1, ClampAllIsWhole DEF Commit
<1>3. EditorTypeOK'
  <2>1. Pushed(undo, points) \in Seq(Whole(bounds))
    BY <1>1, PushedIsPast
  <2> QED
    BY <1>1, <1>2, <2>1, WholeFacts, CalledOnWhole DEF EditorInv, EditorTypeOK, Commit
<1>4. HandleIsHeld'
  BY <1>1, <1>2 DEF HandleIsHeld, Commit
<1>5. StacksAreTheLine'
  <2> SUFFICES ASSUME ~spoilt' PROVE StacksAreTheLine'
    BY DEF StacksAreTheLine
  <2>1. /\ line \in Seq(Whole(bounds)) /\ here \in 1..Len(line) /\ points = line[here]
        /\ Len(undo) = here - 1 /\ \A k \in 1..Len(undo) : undo[k] = line[k]
        /\ dragging' = 0
    BY <1>1 DEF EditorInv, StacksAreTheLine, Pressed, Commit
  <2>2. undo' = Pushed(undo, points) /\ redo' = <<>> /\ Onward(points')
    BY DEF Commit
  <2>3. /\ line' \in Seq(Whole(bounds)) /\ here' = IF Full THEN here ELSE here + 1
        /\ Len(line') = here' /\ line'[here'] = points'
        /\ \A k \in 1..(here' - 1) : line'[k] = line[IF Full THEN k + 1 ELSE k]
    BY <1>2, <2>1, <2>2, OnwardIs
  <2>4. /\ Len(undo') = here' - 1
        /\ \A k \in 1..Len(undo') : undo'[k] = line[IF Full THEN k + 1 ELSE k]
    <3>1. here \in Nat \ {0}
      BY <2>1
    <3>2. /\ Len(Pushed(undo, points)) = IF Full THEN here - 1 ELSE here
          /\ \A k \in 1..Len(Pushed(undo, points)) :
               Pushed(undo, points)[k] = line[IF Full THEN k + 1 ELSE k]
      BY <1>1, <2>1, <3>1, PushedIsPast
    <3>3. here' - 1 = IF Full THEN here - 1 ELSE here
      BY <2>3, <3>1
    <3>4. undo' = Pushed(undo, points)
      BY <2>2
    <3> QED
      BY <3>2, <3>3, <3>4
  <2>5. here \in Nat \ {0} /\ here' \in Nat \ {0} /\ Len(redo') = 0
    BY <2>1, <2>2, <2>3
  <2> QED
    BY <1>1, <2>1, <2>3, <2>4, <2>5 DEF StacksAreTheLine, Pressed
<1> QED
  BY <1>3, <1>4, <1>5 DEF EditorInv

LEMMA AfreshKeeps ==
    ASSUME EditorInv, Called, bounds' \in Widths, points' \in Whole(bounds'),
           undo' = <<>>, redo' = <<>>, Afresh(points'),
           UNCHANGED <<dragging, dragMoved>>
    PROVE  EditorInv'
<1>1. bounds' \in Nat \ {0} /\ (~spoilt' => ~spoilt /\ dragging = 0)
  BY CalledOnWhole
<1>2. EditorTypeOK'
  <2>1. points' \in Gapped(bounds') /\ <<>> \in Seq(Whole(bounds'))
    BY <1>1, WholeFacts
  <2> QED
    BY <2>1, CalledOnWhole DEF EditorInv, EditorTypeOK
<1>3. HandleIsHeld'
  BY <1>1 DEF HandleIsHeld
<1>4. StacksAreTheLine'
  <2>1. line' \in Seq(Whole(bounds')) /\ Len(line') = 1 /\ line'[1] = points' /\ here' = 1
    BY DEF Afresh
  <2>2. Len(undo') = 0 /\ Len(redo') = 0
    OBVIOUS
  <2>3. ~spoilt' => ~Pressed'
    BY <1>1 DEF Pressed
  <2> HIDE DEF Afresh
  <2> QED
    BY <2>1, <2>2, <2>3 DEF StacksAreTheLine
<1> QED
  BY <1>2, <1>3, <1>4 DEF EditorInv

LEMMA SetValueKeeps == ASSUME EditorInv, SetValue PROVE EditorInv'
<1>1. bounds' \in Widths /\ points' \in Outlines(bounds')
  BY DEF SetValue
<1>2. points' \in Whole(bounds')
  BY <1>1, TriplesAreWhole
<1> QED
  BY <1>1, <1>2, AfreshKeeps DEF SetValue

LEMMA SetBoundsKeeps == ASSUME EditorInv, SetBounds PROVE EditorInv'
<1>1. bounds' \in Widths /\ bounds' \in Nat \ {0} /\ points' = ClampAll(points, bounds') /\ Called
  BY DEF SetBounds
<1>2. points \in Seq(Nat \ {0}) /\ Len(points) >= 3
  BY <1>1, CalledOnWhole DEF Whole
<1>3. \A b \in Nat \ {0} : ClampAll(points, b) \in Whole(b)
  BY <1>2, ClampAllIsWhole
<1>4. points' \in Whole(bounds')
  BY <1>1, <1>3
<1> QED
  BY <1>1, <1>4, AfreshKeeps DEF SetBounds

LEMMA SetControlPointsKeeps == ASSUME EditorInv, SetControlPoints PROVE EditorInv'
<1>1. PICK s \in Outlines(Max(Widths)) : Commit(s)
  BY DEF SetControlPoints
<1>2. s \in Seq(Nat \ {0}) /\ Len(s) >= 3
  BY MaxIsThere, TriplesAreWhole, WholeIsPositive
<1> QED
  BY <1>1, <1>2, CommitKeeps DEF SetControlPoints

\* The two parts of an outline before and behind a point.
LEMMA PartsOfOutline ==
    ASSUME NEW s \in Seq(Nat \ {0}), NEW i \in 1..Len(s)
    PROVE  /\ SubSeq(s, 1, i) \in Seq(Nat \ {0}) /\ Len(SubSeq(s, 1, i)) = i
           /\ SubSeq(s, 1, i - 1) \in Seq(Nat \ {0}) /\ Len(SubSeq(s, 1, i - 1)) = i - 1
           /\ SubSeq(s, i + 1, Len(s)) \in Seq(Nat \ {0})
           /\ Len(SubSeq(s, i + 1, Len(s))) = Len(s) - i
<1>1. Len(s) \in Nat /\ i \in Nat \ {0} /\ i <= Len(s) /\ \A k \in 1..Len(s) : s[k] \in Nat \ {0}
  OBVIOUS
<1>2. /\ \A k \in 1..i : s[k] \in Nat \ {0}
      /\ \A k \in 1..(i - 1) : s[k] \in Nat \ {0}
      /\ \A k \in (i + 1)..Len(s) : s[k] \in Nat \ {0}
  BY <1>1
<1>3. SubSeq(s, 1, i) \in Seq(Nat \ {0}) /\ Len(SubSeq(s, 1, i)) = i
  BY <1>1, <1>2, SubSeqProperties
<1>4. SubSeq(s, 1, i - 1) \in Seq(Nat \ {0}) /\ Len(SubSeq(s, 1, i - 1)) = i - 1
  BY <1>1, <1>2, SubSeqProperties
<1>5. /\ SubSeq(s, i + 1, Len(s)) \in Seq(Nat \ {0})
      /\ Len(SubSeq(s, i + 1, Len(s))) = Len(s) - i
  BY <1>1, <1>2, SubSeqProperties
<1> QED
  BY <1>3, <1>4, <1>5

LEMMA InsertPointKeeps ==
    ASSUME EditorInv, NEW i \in 1..MaxPoints, InsertPointAfter(i) PROVE EditorInv'
<1> DEFINE b == points[(i % Len(points)) + 1]
           x == (points[i] + b) \div 2
           s == InsertAt(points, i + 1, x)
<1>1. Called /\ i \in 1..Len(points) /\ Commit(s)
      /\ points \in Seq(Nat \ {0}) /\ Len(points) \in Nat /\ Len(points) >= 3
  <2>1. points \in Whole(bounds) /\ bounds \in Nat \ {0}
    BY CalledOnWhole DEF InsertPointAfter
  <2> QED
    BY <2>1, WholeIsPositive DEF InsertPointAfter
<1>2. x \in Nat \ {0}
  <2>1. points[i] \in Nat \ {0}
    BY <1>1
  <2>2. b \in Nat \ {0}
    BY <1>1
  <2> HIDE DEF b
  <2> QED
    BY <2>1, <2>2
<1> HIDE DEF x
<1>3. /\ SubSeq(points, 1, i) \in Seq(Nat \ {0}) /\ Len(SubSeq(points, 1, i)) = i
      /\ SubSeq(points, i + 1, Len(points)) \in Seq(Nat \ {0})
      /\ Len(SubSeq(points, i + 1, Len(points))) = Len(points) - i
  BY <1>1, PartsOfOutline
<1>4. s = SubSeq(points, 1, i) \o <<x>> \o SubSeq(points, i + 1, Len(points))
  <2>1. (i + 1) - 1 = i
    OBVIOUS
  <2> QED
    BY <2>1 DEF InsertAt
<1>5. s \in Seq(Nat \ {0}) /\ Len(s) >= 3
  <2>1. <<x>> \in Seq(Nat \ {0}) /\ Len(<<x>>) = 1
    BY <1>2
  <2>2. /\ SubSeq(points, 1, i) \o <<x>> \in Seq(Nat \ {0})
        /\ Len(SubSeq(points, 1, i) \o <<x>>) = i + 1
    BY <2>1, <1>3, ConcatProperties
  <2> DEFINE t == SubSeq(points, 1, i) \o <<x>>
  <2> HIDE DEF s, t
  <2>3. s = t \o SubSeq(points, i + 1, Len(points)) /\ t \in Seq(Nat \ {0}) /\ Len(t) = i + 1
    BY <1>4, <2>2 DEF t
  <2>4. s \in Seq(Nat \ {0}) /\ Len(s) = i + 1 + (Len(points) - i)
    <3>1. s \in Seq(Nat \ {0}) /\ Len(s) = Len(t) + Len(SubSeq(points, i + 1, Len(points)))
      BY <2>3, <1>3, ConcatProperties
    <3> QED
      BY <1>1, <1>3, <2>3, <3>1
  <2> QED
    BY <1>1, <2>4
<1> HIDE DEF s
<1> QED
  BY <1>1, <1>5, CommitKeeps

LEMMA RemovePointKeeps ==
    ASSUME EditorInv, NEW i \in 1..MaxPoints, RemovePoint(i) PROVE EditorInv'
<1> DEFINE s == RemoveAt(points, i)
<1>1. Called /\ i \in 1..Len(points) /\ Commit(s)
      /\ points \in Seq(Nat \ {0}) /\ Len(points) \in Nat /\ Len(points) > 3
  <2>1. points \in Whole(bounds) /\ bounds \in Nat \ {0}
    BY CalledOnWhole DEF RemovePoint
  <2> QED
    BY <2>1, WholeIsPositive DEF RemovePoint
<1>3. /\ SubSeq(points, 1, i - 1) \in Seq(Nat \ {0}) /\ Len(SubSeq(points, 1, i - 1)) = i - 1
      /\ SubSeq(points, i + 1, Len(points)) \in Seq(Nat \ {0})
      /\ Len(SubSeq(points, i + 1, Len(points))) = Len(points) - i
  BY <1>1, PartsOfOutline
<1>4. s = SubSeq(points, 1, i - 1) \o SubSeq(points, i + 1, Len(points))
  BY DEF RemoveAt
<1>5. s \in Seq(Nat \ {0}) /\ Len(s) >= 3
  <2> HIDE DEF s
  <2>1. /\ s \in Seq(Nat \ {0})
        /\ Len(s) = Len(SubSeq(points, 1, i - 1)) + Len(SubSeq(points, i + 1, Len(points)))
    BY <1>3, <1>4, ConcatProperties
  <2>2. Len(s) = (i - 1) + (Len(points) - i)
    BY <1>3, <2>1
  <2>3. i \in Nat /\ (i - 1) + (Len(points) - i) = Len(points) - 1
    BY <1>1
  <2>4. Len(s) = Len(points) - 1
    BY <2>2, <2>3
  <2>5. Len(s) >= 3
    BY <1>1, <2>4
  <2> QED
    BY <2>1, <2>5
<1> HIDE DEF s
<1> QED
  BY <1>1, <1>5, CommitKeeps

LEMMA MovePointKeeps ==
    ASSUME EditorInv, NEW i \in 1..MaxPoints, MovePoint(i) PROVE EditorInv'
<1>1. Called /\ i \in DOMAIN points /\ points \in Seq(Nat \ {0}) /\ Len(points) >= 3
  <2>1. points \in Whole(bounds) /\ bounds \in Nat \ {0}
    BY CalledOnWhole DEF MovePoint
  <2> QED
    BY <2>1, WholeIsPositive DEF MovePoint
<1>2. PICK x \in {points[i] + 1} \cup {Max({1, points[i] - 1})} :
        Commit([points EXCEPT ![i] = x])
  BY DEF MovePoint
<1>3. x \in Nat \ {0}
  <2>1. points[i] \in Nat \ {0}
    BY <1>1
  <2>2. Max({1, points[i] - 1}) = IF 1 <= points[i] - 1 THEN points[i] - 1 ELSE 1
    BY <2>1, MaxIsThere
  <2> QED
    BY <1>2, <2>1, <2>2
<1>4. [points EXCEPT ![i] = x] \in Seq(Nat \ {0}) /\ Len([points EXCEPT ![i] = x]) >= 3
  BY <1>1, <1>3
<1> QED
  BY <1>1, <1>2, <1>4, CommitKeeps

\* A stack without its last outline.
LEMMA FrontIs ==
    ASSUME NEW S, NEW s \in Seq(S), s # <<>>
    PROVE  /\ Front(s) \in Seq(S) /\ Last(s) \in S /\ Len(s) \in Nat \ {0}
           /\ Len(Front(s)) = Len(s) - 1
           /\ \A k \in 1..(Len(s) - 1) : Front(s)[k] = s[k]
<1>1. Len(s) \in Nat \ {0} /\ \A k \in 1..Len(s) : s[k] \in S
  OBVIOUS
<1>2. /\ SubSeq(s, 1, Len(s) - 1) \in Seq(S)
      /\ Len(SubSeq(s, 1, Len(s) - 1)) = Len(s) - 1
      /\ \A k \in 1..(Len(s) - 1) : SubSeq(s, 1, Len(s) - 1)[k] = s[k]
  <2>1. \A k \in 1..(Len(s) - 1) : s[k] \in S
    BY <1>1
  <2>2. Len(s) - 1 \in Int /\ (Len(s) - 1) - 1 + 1 = Len(s) - 1
    BY <1>1
  <2>3. /\ SubSeq(s, 1, Len(s) - 1) \in Seq(S)
        /\ Len(SubSeq(s, 1, Len(s) - 1)) =
             IF 1 <= Len(s) - 1 THEN (Len(s) - 1) - 1 + 1 ELSE 0
        /\ \A k \in 1..((Len(s) - 1) - 1 + 1) : SubSeq(s, 1, Len(s) - 1)[k] = s[1 + k - 1]
    BY <2>1, <2>2, SubSeqProperties
  <2>4. \A k \in 1..(Len(s) - 1) : 1 + k - 1 = k
    BY <1>1
  <2> QED
    BY <1>1, <2>2, <2>3, <2>4
<1> QED
  BY <1>1, <1>2 DEF Front, Last

LEMMA UndoKeeps == ASSUME EditorInv, Undo PROVE EditorInv'
<1>1. /\ Called /\ undo # <<>> /\ points \in Whole(bounds) /\ bounds \in Nat \ {0}
      /\ undo \in Seq(Whole(bounds)) /\ redo \in Seq(Whole(bounds)) /\ bounds' = bounds
      /\ ~spoilt' => ~spoilt /\ dragging = 0
  BY CalledOnWhole DEF Undo, EditorInv, EditorTypeOK
<1>2. /\ Front(undo) \in Seq(Whole(bounds)) /\ Last(undo) \in Whole(bounds)
      /\ Len(undo) \in Nat \ {0} /\ Len(Front(undo)) = Len(undo) - 1
      /\ \A k \in 1..(Len(undo) - 1) : Front(undo)[k] = undo[k]
  BY <1>1, FrontIs
<1>3. /\ Append(redo, points) \in Seq(Whole(bounds)) /\ Len(Append(redo, points)) = Len(redo) + 1
      /\ \A k \in 1..Len(redo) : Append(redo, points)[k] = redo[k]
      /\ Append(redo, points)[Len(redo) + 1] = points /\ Len(redo) \in Nat
  BY <1>1, AppendProperties
<1>4. EditorTypeOK'
  BY <1>1, <1>2, <1>3, WholeFacts, CalledOnWhole DEF EditorInv, EditorTypeOK, Undo
<1>5. HandleIsHeld'
  BY <1>1, <1>2 DEF HandleIsHeld, Undo
<1>6. StacksAreTheLine'
  <2> SUFFICES ASSUME ~spoilt' PROVE StacksAreTheLine'
    BY DEF StacksAreTheLine
  <2>1. /\ line \in Seq(Whole(bounds)) /\ here \in 1..Len(line) /\ points = line[here]
        /\ Len(undo) = here - 1 /\ \A k \in 1..Len(undo) : undo[k] = line[k]
        /\ Len(redo) = Len(line) - here
        /\ \A k \in 1..Len(redo) : redo[k] = line[Len(line) + 1 - k]
        /\ dragging' = 0 /\ line' = line
    BY <1>1 DEF EditorInv, StacksAreTheLine, Pressed, Undo
  <2>2. here \in Nat /\ here >= 2 /\ Len(line) \in Nat /\ here <= Len(line)
    BY <1>2, <2>1
  <2>3. here' = here - 1
    BY <2>2, MaxIsThere DEF Undo
  <2>4. points' = line[here - 1]
    BY <1>2, <2>1, <2>2 DEF Undo, Last
  <2>5. Len(undo') = here - 2 /\ \A k \in 1..(here - 2) : undo'[k] = line[k]
    BY <1>2, <2>1, <2>2 DEF Undo
  <2>6. /\ Len(redo') = Len(line) - (here - 1)
        /\ \A k \in 1..Len(redo') : redo'[k] = line[Len(line) + 1 - k]
    <3>1. redo' = Append(redo, points)
      BY DEF Undo
    <3>2. Len(redo') = Len(redo) + 1
      BY <1>3, <3>1
    <3>3. redo'[Len(redo) + 1] = line[Len(line) + 1 - (Len(redo) + 1)]
      BY <1>3, <2>1, <2>2, <3>1
    <3>4. \A k \in 1..Len(redo) : redo'[k] = line[Len(line) + 1 - k]
      BY <1>3, <2>1, <3>1
    <3>5. Len(redo) \in Nat /\ Len(redo) = Len(line) - here
      BY <1>3, <2>1
    <3>6. Len(redo') = Len(line) - (here - 1)
      BY ONLY <2>2, <3>2, <3>5
    <3>7. ASSUME NEW k \in 1..Len(redo') PROVE redo'[k] = line[Len(line) + 1 - k]
      <4>1. k \in 1..Len(redo) \/ k = Len(redo) + 1
        BY ONLY <3>2, <3>5, <3>7
      <4> QED
        BY ONLY <3>3, <3>4, <4>1
    <3> QED
      BY ONLY <3>6, <3>7
  <2>7. here' \in 1..Len(line') /\ points' = line'[here'] /\ Len(undo') = here' - 1 /\ ~Pressed'
    BY <2>1, <2>2, <2>3, <2>4, <2>5 DEF Pressed
  <2>8. \A k \in 1..Len(undo') : undo'[k] = line'[k]
    BY <2>1, <2>5
  <2>9. /\ Len(redo') = Len(line') - here'
        /\ \A k \in 1..Len(redo') : redo'[k] = line'[Len(line') + 1 - k]
    BY <2>1, <2>3, <2>6
  <2> QED
    BY <1>1, <2>1, <2>7, <2>8, <2>9 DEF StacksAreTheLine
<1> QED
  BY <1>4, <1>5, <1>6 DEF EditorInv

LEMMA RedoKeeps == ASSUME EditorInv, Redo PROVE EditorInv'
<1>1. /\ Called /\ redo # <<>> /\ points \in Whole(bounds) /\ bounds \in Nat \ {0}
      /\ undo \in Seq(Whole(bounds)) /\ redo \in Seq(Whole(bounds)) /\ bounds' = bounds
      /\ ~spoilt' => ~spoilt /\ dragging = 0
  BY CalledOnWhole DEF Redo, EditorInv, EditorTypeOK
<1>2. /\ Front(redo) \in Seq(Whole(bounds)) /\ Last(redo) \in Whole(bounds)
      /\ Len(redo) \in Nat \ {0} /\ Len(Front(redo)) = Len(redo) - 1
      /\ \A k \in 1..(Len(redo) - 1) : Front(redo)[k] = redo[k]
  BY <1>1, FrontIs
<1>3. /\ Append(undo, points) \in Seq(Whole(bounds)) /\ Len(Append(undo, points)) = Len(undo) + 1
      /\ \A k \in 1..Len(undo) : Append(undo, points)[k] = undo[k]
      /\ Append(undo, points)[Len(undo) + 1] = points /\ Len(undo) \in Nat
  BY <1>1, AppendProperties
<1>4. EditorTypeOK'
  BY <1>1, <1>2, <1>3, WholeFacts, CalledOnWhole DEF EditorInv, EditorTypeOK, Redo
<1>5. HandleIsHeld'
  BY <1>1, <1>2 DEF HandleIsHeld, Redo
<1>6. StacksAreTheLine'
  <2> SUFFICES ASSUME ~spoilt' PROVE StacksAreTheLine'
    BY DEF StacksAreTheLine
  <2>1. /\ line \in Seq(Whole(bounds)) /\ here \in 1..Len(line) /\ points = line[here]
        /\ Len(undo) = here - 1 /\ \A k \in 1..Len(undo) : undo[k] = line[k]
        /\ Len(redo) = Len(line) - here
        /\ \A k \in 1..Len(redo) : redo[k] = line[Len(line) + 1 - k]
        /\ dragging' = 0 /\ line' = line
    BY <1>1 DEF EditorInv, StacksAreTheLine, Pressed, Redo
  <2>2. here \in Nat \ {0} /\ Len(line) \in Nat /\ here < Len(line)
    BY <1>2, <2>1
  <2>3. here' = here + 1
    BY <2>2, MaxIsThere DEF Redo
  <2>4. points' = line[here + 1]
    <3>1. Len(redo) \in 1..Len(redo) /\ Len(line) + 1 - Len(redo) = here + 1
      BY <1>2, <2>1, <2>2
    <3>2. points' = redo[Len(redo)]
      BY DEF Redo, Last
    <3> QED
      BY <2>1, <3>1, <3>2
  <2>5. Len(redo') = Len(line) - (here + 1)
        /\ \A k \in 1..Len(redo') : redo'[k] = line[Len(line) + 1 - k]
    BY <1>2, <2>1, <2>2 DEF Redo
  <2>6. Len(undo') = here /\ \A k \in 1..here : undo'[k] = line[k]
    <3>1. undo' = Append(undo, points)
      BY DEF Redo
    <3>2. Len(undo') = here /\ undo'[here] = line[here]
      BY <1>3, <2>1, <2>2, <3>1
    <3>3. \A k \in 1..(here - 1) : undo'[k] = line[k]
      BY <1>3, <2>1, <3>1
    <3> QED
      BY <2>2, <3>2, <3>3
  <2> QED
    BY <1>1, <2>1, <2>2, <2>3, <2>4, <2>5, <2>6 DEF StacksAreTheLine, Pressed
<1> QED
  BY <1>4, <1>5, <1>6 DEF EditorInv

LEMMA SetReadOnlyKeeps == ASSUME EditorInv, SetReadOnly PROVE EditorInv'
<1>1. ~spoilt' => ~spoilt
  BY CalledOnWhole DEF SetReadOnly
<1>2. EditorTypeOK'
  BY CalledOnWhole DEF EditorInv, EditorTypeOK, SetReadOnly
<1>3. HandleIsHeld'
  BY <1>1 DEF EditorInv, HandleIsHeld, SetReadOnly
<1>4. StacksAreTheLine'
  BY <1>1 DEF EditorInv, StacksAreTheLine, Pressed, Full, SetReadOnly
<1> QED
  BY <1>2, <1>3, <1>4 DEF EditorInv

LEMMA PointerDownKeeps ==
    ASSUME EditorInv, NEW i \in 1..MaxPoints, PointerDown(i) PROVE EditorInv'
<1>1. /\ points \in Whole(bounds) /\ undo \in Seq(Whole(bounds)) /\ dragging = 0
      /\ i \in DOMAIN points /\ bounds \in Nat \ {0} /\ edits' \in Nat
  BY WholeFacts DEF EditorInv, EditorTypeOK, PointerDown
<1>2. /\ dragging' = i /\ dragMoved' = FALSE /\ undo' = Pushed(undo, points)
      /\ UNCHANGED <<bounds, points, redo, line, here, spoilt>>
  BY DEF PointerDown
<1>3. EditorTypeOK'
  <2>1. Pushed(undo, points) \in Seq(Whole(bounds))
    BY <1>1, PushedIsPast
  <2>2. dragging' \in Nat
    BY <1>2
  <2>3. dragMoved' \in BOOLEAN
    BY <1>2
  <2> QED
    BY <1>1, <1>2, <2>1, <2>2, <2>3 DEF EditorInv, EditorTypeOK
<1>4. HandleIsHeld'
  BY <1>1, <1>2 DEF HandleIsHeld
<1>5. StacksAreTheLine'
  <2> SUFFICES ASSUME ~spoilt' PROVE StacksAreTheLine'
    BY DEF StacksAreTheLine
  <2>1. /\ line \in Seq(Whole(bounds)) /\ here \in 1..Len(line) /\ points = line[here]
        /\ Len(undo) = here - 1 /\ \A k \in 1..Len(undo) : undo[k] = line[k]
        /\ Len(redo) = Len(line) - here
        /\ \A k \in 1..Len(redo) : redo[k] = line[Len(line) + 1 - k]
    BY <1>1, <1>2 DEF EditorInv, StacksAreTheLine, Pressed
  <2>2. here \in Nat \ {0}
    BY <2>1
  <2>3. /\ Len(undo') = IF Full THEN here - 1 ELSE here
        /\ \A k \in 1..Len(undo') : undo'[k] = line[IF Full THEN k + 1 ELSE k]
    BY <1>1, <1>2, <2>1, <2>2, PushedIsPast
  <2>4. Pressed' /\ (Full' <=> Full)
    BY <1>2 DEF Pressed, Full
  <2> QED
    BY <1>2, <2>1, <2>3, <2>4 DEF StacksAreTheLine
<1> QED
  BY <1>3, <1>4, <1>5 DEF EditorInv

\* Wherever the handle is, the outline keeps three points; it keeps its length if the
\* handle is one of its own.
LEMMA PutIs ==
    ASSUME NEW b \in Nat \ {0}, NEW s \in Gapped(b), NEW i \in Nat \ {0}, NEW x \in 1..b
    PROVE  /\ Put(s, i, x) \in Gapped(b)
           /\ s \in Whole(b) /\ i \in DOMAIN s => Put(s, i, x) \in Whole(b) /\ DOMAIN Put(s, i, x) = DOMAIN s
<1> DEFINE n == IF Len(s) <= i THEN i ELSE Len(s)
           e(k) == IF k = i THEN x ELSE IF k <= Len(s) THEN s[k] ELSE Hole
           t == [k \in 1..n |-> e(k)]
<1>1. s \in Seq(0..b) /\ Len(s) \in Nat /\ Len(s) >= 3 /\ \A k \in 1..Len(s) : s[k] \in 0..b
  BY DEF Gapped
<1>2. Put(s, i, x) = t
  BY <1>1, MaxIsThere DEF Put
<1>3. n \in Nat /\ n >= 3 /\ \A k \in 1..n : e(k) \in 0..b
  BY <1>1 DEF Hole
<1> HIDE DEF n
<1>4. t \in [1..n -> 0..b]
  BY <1>3
<1>5. t \in Seq(0..b)
  BY <1>3, <1>4, SeqDef
<1>6. Len(t) = n
  BY <1>3, <1>4, <1>5, LenProperties
<1>7. t \in Gapped(b)
  <2>1. Len(t) >= 3
    BY <1>3, <1>6
  <2> QED
    BY <1>5, <2>1, Zenon DEF Gapped
<1>8. ASSUME s \in Whole(b), i \in DOMAIN s PROVE t \in Whole(b) /\ DOMAIN t = DOMAIN s
  <2>1. s \in Seq(1..b) /\ i \in 1..Len(s) /\ DOMAIN s = 1..Len(s) /\ \A k \in 1..Len(s) : s[k] \in 1..b
    BY <1>8 DEF Whole
  <2>2. n = Len(s)
    <3>1. i <= Len(s) /\ Len(s) \in Nat
      BY <1>1, <2>1
    <3> QED
      BY <3>1 DEF n
  <2>3. t \in [1..n -> 1..b]
    BY <1>1, <2>1, <2>2
  <2>4. t \in Seq(1..b)
    BY <1>3, <2>3, SeqDef
  <2>5. Len(t) >= 3
    BY <1>3, <1>6
  <2>6. t \in Whole(b)
    BY <2>4, <2>5, Zenon DEF Whole
  <2> QED
    BY <2>1, <2>2, <2>3, <2>6
<1> QED
  BY <1>2, <1>7, <1>8

LEMMA PointerMoveKeeps == ASSUME EditorInv, PointerMove PROVE EditorInv'
<1>1. /\ bounds \in Nat \ {0} /\ points \in Gapped(bounds) /\ dragging \in Nat \ {0}
      /\ dragging' = dragging /\ dragMoved' = TRUE /\ undo' = undo
      /\ redo' = IF dragMoved THEN redo ELSE <<>>
      /\ bounds' = bounds /\ spoilt' = spoilt /\ edits' = edits
  BY DEF EditorInv, EditorTypeOK, PointerMove
<1>2. PICK x \in 1..bounds : points' = Put(points, dragging, x)
  <2>1. PICK y \in 1..(bounds + 1) : points' = Put(points, dragging, Clamp(y, bounds))
    BY DEF PointerMove
  <2>2. Clamp(y, bounds) \in 1..bounds
    BY <1>1 DEF Clamp
  <2> QED
    BY <2>1, <2>2
<1>3. points' \in Gapped(bounds)
  BY <1>1, <1>2, PutIs
<1>4. ~spoilt => points' \in Whole(bounds) /\ dragging \in DOMAIN points'
  BY <1>1, <1>2, PutIs DEF EditorInv, HandleIsHeld
<1>5. EditorTypeOK'
  <2>1. redo' \in Seq(Whole(bounds))
    BY <1>1 DEF EditorInv, EditorTypeOK
  <2>2. dragMoved' \in BOOLEAN
    BY <1>1
  <2> QED
    BY <1>1, <1>3, <2>1, <2>2 DEF EditorInv, EditorTypeOK
<1>6. HandleIsHeld'
  BY <1>1, <1>4 DEF HandleIsHeld
<1>7. StacksAreTheLine'
  <2> SUFFICES ASSUME ~spoilt' PROVE StacksAreTheLine'
    BY DEF StacksAreTheLine
  <2>1. /\ line \in Seq(Whole(bounds)) /\ here \in 1..Len(line)
        /\ Len(redo) = Len(line) - here
        /\ \A k \in 1..Len(redo) : redo[k] = line[Len(line) + 1 - k]
        /\ ~Pressed' /\ points' \in Whole(bounds)
    BY <1>1, <1>4 DEF EditorInv, StacksAreTheLine, Pressed
  <2>2. CASE dragMoved
    <3>1. line' = [line EXCEPT ![here] = points'] /\ here' = here /\ redo' = redo
      BY <1>1, <2>2 DEF PointerMove
    <3>2. Len(undo) = here - 1 /\ \A k \in 1..Len(undo) : undo[k] = line[k]
      BY <1>1, <2>2 DEF EditorInv, StacksAreTheLine, Pressed
    <3>3. /\ line' \in Seq(Whole(bounds)) /\ Len(line') = Len(line) /\ line'[here] = points'
          /\ \A k \in 1..Len(line) : k # here => line'[k] = line[k]
      BY <2>1, <3>1, ExceptSeq
    <3>4. here \in Nat \ {0} /\ Len(line) \in Nat /\ here <= Len(line)
      BY <2>1
    <3>5. \A k \in 1..Len(undo) : undo[k] = line'[k]
      BY <3>2, <3>3, <3>4
    <3>6. \A k \in 1..Len(redo) : redo[k] = line'[Len(line) + 1 - k]
      <4> SUFFICES ASSUME NEW k \in 1..Len(redo) PROVE redo[k] = line'[Len(line) + 1 - k]
        OBVIOUS
      <4>1. Len(line) + 1 - k \in 1..Len(line) /\ Len(line) + 1 - k # here
        BY <2>1, <3>4
      <4> QED
        BY <2>1, <3>3, <4>1
    <3> QED
      BY <1>1, <2>1, <3>1, <3>2, <3>3, <3>4, <3>5, <3>6 DEF StacksAreTheLine
  <2>3. CASE ~dragMoved
    <3>1. Onward(points') /\ redo' = <<>>
      BY <1>1, <2>3 DEF PointerMove
    <3>2. /\ Len(undo) = IF Full THEN here - 1 ELSE here
          /\ \A k \in 1..Len(undo) : undo[k] = line[IF Full THEN k + 1 ELSE k]
      BY <1>1, <2>3 DEF EditorInv, StacksAreTheLine, Pressed
    <3>3. /\ line' \in Seq(Whole(bounds)) /\ here' = IF Full THEN here ELSE here + 1
          /\ Len(line') = here' /\ line'[here'] = points'
          /\ \A k \in 1..(here' - 1) : line'[k] = line[IF Full THEN k + 1 ELSE k]
      BY <2>1, <3>1, OnwardIs
    <3>4. here \in Nat \ {0} /\ here' \in Nat \ {0} /\ Len(redo') = 0
      BY <2>1, <3>1, <3>3
    <3>5. Len(undo) = here' - 1
      BY <3>2, <3>3, <3>4
    <3> QED
      BY <1>1, <2>1, <3>2, <3>3, <3>4, <3>5 DEF StacksAreTheLine
  <2> QED
    BY <2>2, <2>3
<1> QED
  BY <1>5, <1>6, <1>7 DEF EditorInv

LEMMA PointerUpKeeps == ASSUME EditorInv, PointerUp PROVE EditorInv'
<1>1. /\ dragging # 0 /\ dragging' = 0 /\ dragMoved' = FALSE
      /\ undo' = IF dragMoved \/ undo = <<>> THEN undo ELSE Front(undo)
      /\ UNCHANGED <<bounds, points, redo, edits, line, here>>
      /\ undo \in Seq(Whole(bounds))
  BY DEF EditorInv, EditorTypeOK, PointerUp
<1>2. spoilt' \in BOOLEAN /\ (~spoilt' => ~spoilt /\ (dragMoved \/ ~Full))
  BY DEF PointerUp
<1>3. EditorTypeOK'
  <2>1. undo' \in Seq(Whole(bounds))
    BY <1>1, FrontIs
  <2>2. dragging' \in Nat /\ dragMoved' \in BOOLEAN
    BY <1>1
  <2> QED
    BY <1>1, <1>2, <2>1, <2>2 DEF EditorInv, EditorTypeOK
<1>4. HandleIsHeld'
  BY <1>1, <1>2 DEF EditorInv, HandleIsHeld
<1>5. StacksAreTheLine'
  <2> SUFFICES ASSUME ~spoilt' PROVE StacksAreTheLine'
    BY DEF StacksAreTheLine
  <2>1. /\ line \in Seq(Whole(bounds)) /\ here \in 1..Len(line) /\ points = line[here]
        /\ Len(redo) = Len(line) - here
        /\ \A k \in 1..Len(redo) : redo[k] = line[Len(line) + 1 - k]
        /\ ~Pressed'
    BY <1>1, <1>2 DEF EditorInv, StacksAreTheLine, Pressed
  <2>2. Len(undo') = here - 1 /\ \A k \in 1..(here - 1) : undo'[k] = line[k]
    <3>1. CASE dragMoved
      BY <1>1, <1>2, <3>1 DEF EditorInv, StacksAreTheLine, Pressed
    <3>2. CASE ~dragMoved
      <4>1. Len(undo) = here /\ \A k \in 1..here : undo[k] = line[k]
        BY <1>1, <1>2, <3>2 DEF EditorInv, StacksAreTheLine, Pressed
      <4>2. undo # <<>> /\ here \in Nat \ {0}
        BY <2>1, <4>1
      <4> QED
        BY <1>1, <3>2, <4>1, <4>2, FrontIs
    <3> QED
      BY <3>1, <3>2
  <2> QED
    BY <1>1, <2>1, <2>2 DEF StacksAreTheLine
<1> QED
  BY <1>3, <1>4, <1>5 DEF EditorInv

LEMMA EditorInvInvariant == EditorSpec => []EditorInv
<1>1. ASSUME EditorInv, [EditorNext]_editorVars PROVE EditorInv'
  <2>1. CASE UNCHANGED editorVars
    BY <1>1, <2>1 DEF editorVars, EditorInv, EditorTypeOK, HandleIsHeld, StacksAreTheLine, Pressed, Full
  <2>2. CASE SetValue \/ SetBounds \/ SetControlPoints \/ SetReadOnly
    BY <1>1, <2>2, SetValueKeeps, SetBoundsKeeps, SetControlPointsKeeps, SetReadOnlyKeeps
  <2>3. ASSUME NEW i \in 1..MaxPoints,
               InsertPointAfter(i) \/ RemovePoint(i) \/ MovePoint(i) \/ PointerDown(i)
        PROVE  EditorInv'
    BY <1>1, <2>3, InsertPointKeeps, RemovePointKeeps, MovePointKeeps, PointerDownKeeps
  <2>4. CASE Undo \/ Redo \/ PointerMove \/ PointerUp
    BY <1>1, <2>4, UndoKeeps, RedoKeeps, PointerMoveKeeps, PointerUpKeeps
  <2> QED
    BY <1>1, <2>1, <2>2, <2>3, <2>4 DEF EditorNext
<1> QED
  BY <1>1, EditorInitInv, PTL DEF EditorSpec

LEMMA EditorInvIsSound == EditorInv => EditorIsSound
<1> SUFFICES ASSUME EditorInv PROVE EditorIsSound
  OBVIOUS
<1>1. bounds \in Nat \ {0}
  BY DEF EditorInv, EditorTypeOK
<1>2. InBounds
  <2>1. \A s \in Gapped(bounds) : Inside(s)
    BY <1>1 DEF Gapped, Inside
  <2>2. Range(undo) \subseteq Gapped(bounds) /\ Range(redo) \subseteq Gapped(bounds)
    BY <1>1, WholeFacts DEF EditorInv, EditorTypeOK, Range
  <2> QED
    BY <2>1, <2>2 DEF InBounds, EditorInv, EditorTypeOK
<1>3. WholeOutline
  <2>1. Len(points) >= 3
    BY DEF EditorInv, EditorTypeOK, Gapped
  <2>2. ~spoilt => Hole \notin Range(points)
    BY <1>1, WholeFacts DEF EditorInv, HandleIsHeld
  <2> QED
    BY <2>1, <2>2 DEF WholeOutline
<1>4. LinearHistory
  <2> SUFFICES ASSUME ~spoilt, dragging = 0 \/ dragMoved
               PROVE  /\ points = line[here]
                      /\ undo = SubSeq(line, 1, here - 1)
                      /\ redo = Reverse(SubSeq(line, here + 1, Len(line)))
    BY DEF LinearHistory
  <2> DEFINE S == Whole(bounds)
             past == SubSeq(line, 1, here - 1)
             future == SubSeq(line, here + 1, Len(line))
  <2>1. /\ line \in Seq(S) /\ here \in 1..Len(line) /\ points = line[here]
        /\ Len(redo) = Len(line) - here
        /\ \A k \in 1..Len(redo) : redo[k] = line[Len(line) + 1 - k]
        /\ Len(undo) = here - 1 /\ \A k \in 1..Len(undo) : undo[k] = line[k]
        /\ undo \in Seq(S) /\ redo \in Seq(S)
    BY DEF EditorInv, EditorTypeOK, StacksAreTheLine, Pressed
  <2>2. here \in Nat \ {0} /\ Len(line) \in Nat /\ here <= Len(line)
        /\ \A k \in 1..Len(line) : line[k] \in S
    BY <2>1
  <2> HIDE DEF S
  <2>3. past \in Seq(S) /\ Len(past) = here - 1 /\ \A k \in 1..(here - 1) : past[k] = line[k]
    <3>1. \A k \in 1..(here - 1) : line[k] \in S
      BY <2>2
    <3>2. /\ past \in Seq(S)
          /\ Len(past) = IF 1 <= here - 1 THEN (here - 1) - 1 + 1 ELSE 0
          /\ \A k \in 1..((here - 1) - 1 + 1) : past[k] = line[1 + k - 1]
      BY <2>2, <3>1, SubSeqProperties
    <3>3. (here - 1) - 1 + 1 = here - 1 /\ \A k \in 1..(here - 1) : 1 + k - 1 = k
      BY <2>2
    <3> QED
      BY <2>2, <3>2, <3>3
  <2>4. undo = past
    BY <2>1, <2>3, SeqEqual
  <2>5. /\ future \in Seq(S) /\ Len(future) = Len(line) - here
        /\ \A k \in 1..(Len(line) - here) : future[k] = line[here + k]
    <3>1. \A k \in (here + 1)..Len(line) : line[k] \in S
      BY <2>2
    <3>2. /\ future \in Seq(S)
          /\ Len(future) = IF here + 1 <= Len(line) THEN Len(line) - (here + 1) + 1 ELSE 0
          /\ \A k \in 1..(Len(line) - (here + 1) + 1) : future[k] = line[(here + 1) + k - 1]
      BY <2>2, <3>1, SubSeqProperties
    <3>3. Len(line) - (here + 1) + 1 = Len(line) - here
          /\ \A k \in 1..(Len(line) - here) : (here + 1) + k - 1 = here + k
      BY <2>2
    <3>4. Len(future) = Len(line) - here
      <4>1. CASE here + 1 <= Len(line)
        BY <3>2, <3>3, <4>1
      <4>2. CASE ~(here + 1 <= Len(line))
        BY <2>2, <3>2, <4>2
      <4> QED
        BY <4>1, <4>2
    <3>5. \A k \in 1..(Len(line) - here) : future[k] = line[here + k]
      BY <3>2, <3>3
    <3> QED
      BY <3>2, <3>4, <3>5
  <2> HIDE DEF future, past
  <2>6. redo = Reverse(future)
    <3>1. Reverse(future) = [k \in 1..Len(redo) |-> line[Len(line) + 1 - k]]
      <4>1. \A k \in 1..Len(redo) :
               /\ Len(future) - k + 1 \in 1..(Len(line) - here)
               /\ here + (Len(future) - k + 1) = Len(line) + 1 - k
        <5>1. Len(redo) = Len(line) - here /\ Len(future) = Len(line) - here
          BY ONLY <2>1, <2>5
        <5> QED
          BY ONLY <2>2, <5>1
      <4>2. \A k \in 1..Len(redo) : future[Len(future) - k + 1] = line[Len(line) + 1 - k]
        BY <2>5, <4>1
      <4> QED
        BY <2>1, <2>5, <4>2 DEF Reverse
    <3>2. redo = [k \in 1..Len(redo) |-> redo[k]]
      BY <2>1
    <3> QED
      BY <2>1, <3>1, <3>2
  <2> QED
    BY <2>1, <2>4, <2>6 DEF future, past
<1> QED
  BY <1>2, <1>3, <1>4 DEF EditorIsSound

\* However keys, the page and the pointer interrupt each other: nothing lies outside
\* the domain, the outline stays whole, and undo and redo go along one line of outlines
\* (geometry-2d/src/element.ts).
THEOREM EditorSound == EditorSpec => []EditorIsSound
BY EditorInvInvariant, EditorInvIsSound, PTL

-----------------------------------------------------------------------------
(* The viewer *)

\* A cached layer was computed from the present result, and from what its key says.
CacheIsRight ==
    \A l \in Layers :
        cache[l] = Empty \/ \E i : cache[l] = [key |-> <<result.job, i>>, of |-> <<result.data, i>>]

PictureInv ==
    /\ DOMAIN cache = Layers
    /\ result # NoResult => CacheIsRight
    /\ PictureIsCurrent

\* What a layer is painted with is what it would be computed as.
LEMMA LookedIsTrue ==
    ASSUME PictureInv, result # NoResult, NEW l \in Layers
    PROVE  /\ Looked(l).of = Truth(l)
           /\ \E i : Looked(l) = [key |-> <<result.job, i>>, of |-> <<result.data, i>>]
<1>1. CASE cache[l].key # Key(l)
  <2>1. Looked(l) = [key |-> Key(l), of |-> Truth(l)]
    BY <1>1 DEF Looked
  <2>2. Looked(l) = [key |-> <<result.job, Inputs(l)>>, of |-> <<result.data, Inputs(l)>>]
    BY <2>1 DEF Key, Truth
  <2>3. Looked(l).of = Truth(l)
    BY <2>1
  <2> QED
    BY ONLY <2>2, <2>3
<1>2. CASE cache[l].key = Key(l)
  <2>1. Looked(l) = cache[l]
    BY <1>2 DEF Looked
  <2>2. cache[l] # Empty
    BY <1>2 DEF Empty, Key
  <2>3. PICK i : cache[l] = [key |-> <<result.job, i>>, of |-> <<result.data, i>>]
    BY <2>2 DEF PictureInv, CacheIsRight
  <2>4. i = Inputs(l)
    BY <1>2, <2>3 DEF Key
  <2>5. Looked(l).of = Truth(l)
    BY <2>1, <2>3, <2>4 DEF Truth
  <2> QED
    BY ONLY <2>1, <2>3, <2>5
<1> QED
  BY <1>1, <1>2

LEMMA PictureInitInv == PictureInit => PictureInv
<1> SUFFICES ASSUME PictureInit PROVE PictureInv
  OBVIOUS
<1>1. DOMAIN cache = Layers /\ CacheIsRight
  BY DEF PictureInit, CacheIsRight
<1>2. PictureIsCurrent
  BY DEF PictureInit, PictureIsCurrent, CanvasIsCurrent, ViewportBelongs, ButtonsAreCurrent
<1> QED
  BY <1>1, <1>2 DEF PictureInv

\* Layers forgotten or found again leave the rest of the cache right.
LEMMA CacheStays ==
    ASSUME PictureInv, UNCHANGED result, DOMAIN cache' = Layers,
           \A l \in Layers : cache'[l] \in {cache[l], Empty}
                             \/ (result # NoResult /\ cache'[l] = Looked(l))
    PROVE  result' # NoResult => CacheIsRight'
<1> SUFFICES ASSUME result # NoResult, NEW l \in Layers
             PROVE  cache'[l] = Empty
                    \/ \E i : cache'[l] = [key |-> <<result.job, i>>, of |-> <<result.data, i>>]
  BY DEF CacheIsRight
<1>1. CASE cache'[l] = cache[l]
  BY <1>1 DEF PictureInv, CacheIsRight
<1>2. CASE cache'[l] = Looked(l)
  BY <1>2, LookedIsTrue
<1> QED
  BY <1>1, <1>2

\* The buttons after #syncToolbar.
LEMMA SyncedButtons == ASSUME ButtonsAreCurrent, SyncToolbar PROVE setting'.toolbar = 0 \/ ButtonsAreCurrent'
BY DEF SyncToolbar, ButtonsAreCurrent

LEMMA PictureKeeps ==
    ASSUME PictureInv, [PictureNext]_pictureVars
    PROVE  PictureInv'
<1>0. CanvasIsCurrent /\ ViewportBelongs /\ ButtonsAreCurrent /\ DOMAIN cache = Layers
  BY DEF PictureInv, PictureIsCurrent
<1>1. ASSUME NEW a \in Attributes, SetAttribute(a) PROVE PictureInv'
  <2>1. UNCHANGED <<result, viewport, viewedOf>> /\ pending' = TRUE /\ SyncToolbar
    BY <1>1 DEF SetAttribute
  <2>2. /\ DOMAIN cache' = Layers
        /\ \A l \in Layers : cache'[l] \in {cache[l], Empty}
    BY <1>1 DEF SetAttribute, Drop
  <2>3. result' # NoResult => CacheIsRight'
    BY <2>1, <2>2, CacheStays
  <2>4. CanvasIsCurrent' /\ ViewportBelongs'
    BY <1>0, <2>1 DEF CanvasIsCurrent, ViewportBelongs
  <2>5. ButtonsAreCurrent'
    BY <1>0, <2>1, SyncedButtons DEF ButtonsAreCurrent
  <2> QED
    BY <2>2, <2>3, <2>4, <2>5 DEF PictureInv, PictureIsCurrent
<1>2. ASSUME NEW r \in Results \cup {NoResult}, SetResult(r) PROVE PictureInv'
  <2>1. /\ result' = r /\ viewport' = ViewportFor(r) /\ viewedOf' = viewedOf
        /\ pending' = TRUE /\ SyncToolbar
    BY <1>2 DEF SetResult
  <2>2. DOMAIN cache' = Layers /\ \A l \in Layers : cache'[l] = Empty
    BY <1>2 DEF SetResult, Drop
  <2>3. CanvasIsCurrent' /\ ViewportBelongs'
    BY <1>0, <2>1 DEF CanvasIsCurrent, ViewportBelongs, ViewportFor
  <2>4. ButtonsAreCurrent'
    BY <1>0, <2>1, SyncedButtons DEF ButtonsAreCurrent
  <2> QED
    BY <2>2, <2>3, <2>4 DEF PictureInv, PictureIsCurrent, CacheIsRight
<1>3. CASE SetSeries
  <2>1. result' = NoResult /\ pending' = TRUE /\ unsynced' = TRUE /\ DOMAIN cache' = Layers
    BY <1>3 DEF SetSeries, Drop
  <2> QED
    BY <2>1 DEF PictureInv, PictureIsCurrent, CanvasIsCurrent, ViewportBelongs, ButtonsAreCurrent
<1>4. CASE SetSeeds
  <2>1. UNCHANGED <<result, setting, geometry, viewport, toolbar, viewedOf, unsynced>> /\ pending' = TRUE
    BY <1>4 DEF SetSeeds
  <2>2. DOMAIN cache' = Layers /\ \A l \in Layers : cache'[l] \in {cache[l], Empty}
    BY <1>4 DEF SetSeeds, Drop
  <2>3. result' # NoResult => CacheIsRight'
    BY <2>1, <2>2, CacheStays
  <2>4. Capabilities' = Capabilities
    BY <2>1 DEF Capabilities, HasField
  <2> QED
    BY <1>0, <2>1, <2>2, <2>3, <2>4
    DEF PictureInv, PictureIsCurrent, CanvasIsCurrent, ViewportBelongs, ButtonsAreCurrent
<1>5. CASE SetGeometry
  <2>1. UNCHANGED <<result, viewport, viewedOf, cache>> /\ pending' = TRUE /\ SyncToolbar
    BY <1>5 DEF SetGeometry
  <2>2. result' # NoResult => CacheIsRight'
    BY <1>0, <2>1, CacheStays
  <2>3. CanvasIsCurrent' /\ ViewportBelongs'
    BY <1>0, <2>1 DEF CanvasIsCurrent, ViewportBelongs
  <2>4. ButtonsAreCurrent'
    BY <1>0, <2>1, SyncedButtons DEF ButtonsAreCurrent
  <2> QED
    BY <1>0, <2>1, <2>2, <2>3, <2>4 DEF PictureInv, PictureIsCurrent
<1>6. ASSUME NEW v \in Viewports, ApplyViewport(v) PROVE PictureInv'
  <2>1. /\ UNCHANGED <<result, setting, seeds, geometry, painted, toolbar, unsynced>>
        /\ viewport' = v /\ viewedOf' = IF result = NoResult THEN 0 ELSE result.bounds
        /\ v = View => UNCHANGED <<cache, pending>>
        /\ v # View => pending' = TRUE
    BY <1>6 DEF ApplyViewport
  <2>2. DOMAIN cache' = Layers /\ \A l \in Layers : cache'[l] \in {cache[l], Empty}
    BY <1>0, <1>6 DEF ApplyViewport, Drop
  <2>3. result' # NoResult => CacheIsRight'
    BY <2>1, <2>2, CacheStays
  <2>4. CanvasIsCurrent'
    <3>1. CASE v = View
      <4>1. View' = View
        BY <2>1, <3>1, ViewerAssumption DEF View
      <4>2. UpToDate' = UpToDate
        BY <2>1, <4>1 DEF UpToDate, HasField, Drawn, Truth, Inputs, ColourRange
      <4> QED
        BY <1>0, <2>1, <3>1, <4>2 DEF CanvasIsCurrent
    <3> QED
      BY <2>1, <3>1 DEF CanvasIsCurrent
  <2>5. ViewportBelongs'
    BY <2>1 DEF ViewportBelongs
  <2>6. ButtonsAreCurrent'
    BY <1>0, <2>1 DEF ButtonsAreCurrent, Capabilities, HasField
  <2> QED
    BY <2>2, <2>3, <2>4, <2>5, <2>6 DEF PictureInv, PictureIsCurrent
<1>7. CASE ResetView
  <2>1. /\ UNCHANGED <<result, setting, geometry, toolbar, unsynced>> /\ pending' = TRUE
        /\ viewport' = NoView
    BY <1>7 DEF ResetView
  <2>2. DOMAIN cache' = Layers /\ \A l \in Layers : cache'[l] \in {cache[l], Empty}
    BY <1>7 DEF ResetView, Drop
  <2>3. result' # NoResult => CacheIsRight'
    BY <2>1, <2>2, CacheStays
  <2>4. Capabilities' = Capabilities
    BY <2>1 DEF Capabilities, HasField
  <2> QED
    BY <1>0, <2>1, <2>2, <2>3, <2>4
    DEF PictureInv, PictureIsCurrent, CanvasIsCurrent, ViewportBelongs, ButtonsAreCurrent
<1>8. CASE ReadCurves
  <2>1. /\ UNCHANGED <<result, setting, seeds, geometry, viewport, pending, painted, toolbar,
                       viewedOf, unsynced>>
        /\ result # NoResult
    BY <1>8 DEF ReadCurves
  <2>2. /\ DOMAIN cache' = Layers
        /\ \A l \in Layers : cache'[l] = cache[l] \/ cache'[l] = Looked(l)
    BY <1>0, <1>8 DEF ReadCurves
  <2>3. result' # NoResult => CacheIsRight'
    BY <2>1, <2>2, CacheStays
  <2>4. UpToDate' = UpToDate /\ Capabilities' = Capabilities
    BY <2>1 DEF UpToDate, HasField, Drawn, Truth, Inputs, ColourRange, View, Capabilities
  <2> QED
    BY <1>0, <2>1, <2>2, <2>3, <2>4
    DEF PictureInv, PictureIsCurrent, CanvasIsCurrent, ViewportBelongs, ButtonsAreCurrent
<1>9. CASE Draw
  <2>1. UNCHANGED <<result, setting, seeds, geometry, viewport, toolbar, viewedOf, unsynced>>
    BY <1>9 DEF Draw
  <2>2. /\ UpToDate' = UpToDate /\ Capabilities' = Capabilities /\ HasField' = HasField
    BY <2>1 DEF UpToDate, HasField, Drawn, Truth, Inputs, ColourRange, View, Capabilities
  <2>3. CASE ~HasField
    <3>1. painted' = [blank |-> TRUE] /\ cache' = cache
      BY <1>9, <2>3 DEF Draw
    <3>2. painted' = UpToDate
      BY <2>3, <3>1 DEF UpToDate
    <3>3. result' # NoResult => CacheIsRight'
      BY <1>0, <2>1, <3>1, CacheStays
    <3> QED
      BY <1>0, <2>1, <2>2, <3>1, <3>2, <3>3
      DEF PictureInv, PictureIsCurrent, CanvasIsCurrent, ViewportBelongs, ButtonsAreCurrent
  <2>4. CASE HasField
    <3>1. /\ cache' = [l \in Layers |-> IF l \in Drawn THEN Looked(l) ELSE cache[l]]
          /\ painted' = [blank |-> FALSE, view |-> View, outline |-> geometry,
                         layers |-> [l \in Drawn |-> cache'[l].of]]
          /\ result # NoResult
      BY <1>9, <2>4 DEF Draw, HasField
    <3>2. /\ DOMAIN cache' = Layers
          /\ \A l \in Layers : cache'[l] = cache[l] \/ cache'[l] = Looked(l)
      BY <3>1
    <3>3. result' # NoResult => CacheIsRight'
      BY <2>1, <3>1, <3>2, CacheStays
    <3>4. Drawn \subseteq Layers
      BY DEF Drawn, Layers
    <3>5. \A l \in Drawn : cache'[l].of = Truth(l)
      BY <3>1, <3>4, LookedIsTrue
    <3>6. [l \in Drawn |-> cache'[l].of] = [l \in Drawn |-> Truth(l)]
      BY <3>5
    <3>7. painted' = UpToDate
      BY <2>4, <3>1, <3>6 DEF UpToDate
    <3> QED
      BY <1>0, <2>1, <2>2, <3>2, <3>3, <3>7
      DEF PictureInv, PictureIsCurrent, CanvasIsCurrent, ViewportBelongs, ButtonsAreCurrent
  <2> QED
    BY <2>3, <2>4
<1>10. CASE UNCHANGED pictureVars
  <2>1. UNCHANGED <<result, setting, seeds, geometry, viewport, cache, pending, painted, toolbar,
                    viewedOf, unsynced>>
    BY <1>10 DEF pictureVars
  <2>2. UpToDate' = UpToDate /\ Capabilities' = Capabilities
    BY <2>1 DEF UpToDate, HasField, Drawn, Truth, Inputs, ColourRange, View, Capabilities
  <2>3. CacheIsRight' = CacheIsRight
    BY <2>1 DEF CacheIsRight
  <2> QED
    BY <1>0, <2>1, <2>2, <2>3
    DEF PictureInv, PictureIsCurrent, CanvasIsCurrent, ViewportBelongs, ButtonsAreCurrent
<1> QED
  BY <1>1, <1>2, <1>3, <1>4, <1>5, <1>6, <1>7, <1>8, <1>9, <1>10 DEF PictureNext

\* A pointer whose gesture is claimed is down, at most two are, and a pan or a
\* drag is some pointer's.
GestureInv ==
    /\ IsFiniteSet(touching) /\ Cardinality(touching) <= 2
    /\ pointers \subseteq touching
    /\ panning \in BOOLEAN
    /\ panning \/ drag # <<>> => pointers # {}
    /\ GestureIsSound

\* The second pointer makes two, and the first does not.
LEMMA SecondPointer ==
    ASSUME GestureInv, NEW p, p \notin touching, Cardinality(touching) < 2
    PROVE  /\ IsFiniteSet(touching \cup {p}) /\ Cardinality(touching \cup {p}) <= 2
           /\ Cardinality(pointers \cup {p}) = 2 <=> pointers # {}
           /\ Cardinality(pointers) # 2
<1>1. /\ IsFiniteSet(touching) /\ Cardinality(touching) \in Nat
      /\ IsFiniteSet(pointers) /\ Cardinality(pointers) \in Nat
      /\ Cardinality(pointers) <= Cardinality(touching) /\ p \notin pointers
  BY FS_CardinalityType, FS_Subset DEF GestureInv
<1>2. /\ IsFiniteSet(touching \cup {p}) /\ Cardinality(touching \cup {p}) = Cardinality(touching) + 1
      /\ Cardinality(pointers \cup {p}) = Cardinality(pointers) + 1
  BY <1>1, FS_AddElement
<1>3. Cardinality(pointers) = 0 <=> pointers = {}
  BY <1>1, FS_EmptySet
<1> QED
  BY <1>1, <1>2, <1>3

LEMMA GesturesInitInv == GesturesInit => GestureInv
<1>1. IsFiniteSet({}) /\ Cardinality({}) = 0
  BY FS_EmptySet
<1> SUFFICES ASSUME GesturesInit PROVE GestureInv
  OBVIOUS
<1>2. touching = {} /\ pointers = {} /\ panning = FALSE /\ drag = <<>> /\ section = kept
  BY DEF GesturesInit
<1>3. AbandonedIsPutBack /\ OneGesture
  BY ONLY <1>1, <1>2 DEF AbandonedIsPutBack, OneGesture
<1>4. IsFiniteSet(touching) /\ Cardinality(touching) <= 2
  BY ONLY <1>1, <1>2
<1> QED
  BY ONLY <1>2, <1>3, <1>4 DEF GestureInv, GestureIsSound

LEMMA GestureKeeps ==
    ASSUME GestureInv, [GesturesNext]_gestureVars
    PROVE  GestureInv'
<1>0. /\ AbandonedIsPutBack /\ OneGesture
      /\ IsFiniteSet(touching) /\ Cardinality(touching) <= 2 /\ pointers \subseteq touching
      /\ panning \in BOOLEAN /\ (panning \/ drag # <<>> => pointers # {})
  BY DEF GestureInv, GestureIsSound
<1>1. ASSUME NEW p \in Fingers \cup {Mouse}, TouchDown(p) PROVE GestureInv'
  <2>1. p \notin touching /\ Cardinality(touching) < 2
    BY <1>1, FS_EmptySet DEF TouchDown, Reachable
  <2>2. /\ IsFiniteSet(touching') /\ Cardinality(touching') <= 2
        /\ pointers' \subseteq touching' /\ kept' = kept
    BY <1>0, <1>1, <2>1, SecondPointer DEF TouchDown
  <2>3. CASE UNCHANGED <<pointers, panning, drag, section>>
    BY <1>0, <2>2, <2>3 DEF GestureInv, GestureIsSound, AbandonedIsPutBack, OneGesture
  <2>4. CASE pointers' = pointers \cup {p} /\ Cardinality(pointers') = 2 /\ panning' = FALSE /\ CancelDrag
    BY <1>0, <2>2, <2>4 DEF CancelDrag, GestureInv, GestureIsSound, AbandonedIsPutBack, OneGesture
  <2>5. ASSUME pointers' = pointers \cup {p}, Cardinality(pointers') # 2
        PROVE  panning = FALSE /\ drag = <<>> /\ pointers' # {} /\ section = kept
    BY <1>0, <2>1, <2>5, SecondPointer DEF AbandonedIsPutBack
  <2>6. CASE /\ pointers' = pointers \cup {p} /\ Cardinality(pointers') # 2
             /\ panning' = TRUE /\ UNCHANGED <<drag, section>>
    BY <1>0, <2>2, <2>5, <2>6 DEF GestureInv, GestureIsSound, AbandonedIsPutBack, OneGesture
  <2>7. CASE /\ pointers' = pointers \cup {p} /\ Cardinality(pointers') # 2
             /\ drag' = <<section>> /\ UNCHANGED panning
    <3>1. drag'[1] = section /\ drag' # <<>>
      BY <2>7
    <3> QED
      BY <2>2, <2>5, <2>7, <3>1 DEF GestureInv, GestureIsSound, AbandonedIsPutBack, OneGesture
  <2>8. CASE /\ pointers' = pointers \cup {p} /\ Cardinality(pointers') # 2
             /\ UNCHANGED <<panning, drag, section>>
    BY <2>2, <2>5, <2>8 DEF GestureInv, GestureIsSound, AbandonedIsPutBack, OneGesture
  <2> QED
    BY <1>1, <2>3, <2>4, <2>6, <2>7, <2>8 DEF TouchDown
<1>2. ASSUME NEW p \in Fingers \cup {Mouse}, TouchUp(p) \/ TouchCancel(p) PROVE GestureInv'
  <2>1. /\ touching' = touching \ {p} /\ pointers' \subseteq touching'
        /\ panning' = FALSE /\ drag' = <<>>
    BY <1>0, <1>2 DEF TouchUp, TouchCancel, CancelDrag
  <2>2. IsFiniteSet(touching') /\ Cardinality(touching') <= 2
    <3>1. /\ IsFiniteSet(touching \ {p}) /\ Cardinality(touching \ {p}) <= Cardinality(touching)
          /\ Cardinality(touching \ {p}) \in Nat /\ Cardinality(touching) \in Nat
      BY <1>0, FS_Subset, FS_CardinalityType
    <3> QED
      BY <1>0, <2>1, <3>1
  <2>3. section' = kept'
    BY <1>0, <1>2 DEF TouchUp, TouchCancel, CancelDrag, AbandonedIsPutBack
  <2> QED
    BY <2>1, <2>2, <2>3 DEF GestureInv, GestureIsSound, AbandonedIsPutBack, OneGesture
<1>3. CASE TouchMove
  <2>1. UNCHANGED <<touching, pointers, panning, drag, kept>> /\ drag # <<>>
    BY <1>3 DEF TouchMove
  <2> QED
    BY <1>0, <2>1 DEF GestureInv, GestureIsSound, AbandonedIsPutBack, OneGesture
<1>4. CASE TouchLeave
  <2>1. /\ UNCHANGED <<touching, drag, section, kept>> /\ pointers' = {} /\ panning' = FALSE
        /\ pointers = {}
    BY <1>0, <1>4 DEF TouchLeave
  <2> QED
    BY <1>0, <2>1 DEF GestureInv, GestureIsSound, AbandonedIsPutBack, OneGesture
<1>5. ASSUME NEW drawing, AssignSection(drawing) PROVE GestureInv'
  BY <1>0, <1>5 DEF AssignSection, GestureInv, GestureIsSound, AbandonedIsPutBack, OneGesture
<1>6. CASE \/ \E s : SetSurface(s)
           \/ UNCHANGED gestureVars
  <2>1. UNCHANGED <<touching, pointers, panning, drag, section, kept>>
    BY <1>6 DEF SetSurface, gestureVars
  <2> QED
    BY <1>0, <2>1 DEF GestureInv, GestureIsSound, AbandonedIsPutBack, OneGesture
<1> QED
  BY <1>1, <1>2, <1>3, <1>4, <1>5, <1>6 DEF GesturesNext

\* The canvas shows the present result under the present settings whenever no
\* paint is to come, the buttons say so, and an abandoned section is put back:
\* for any results, any viewports and any fingers, two of them at a time.
THEOREM ViewerSound == ViewerSpec => []ViewerIsSound
<1>1. PictureInv => PictureIsCurrent
  BY DEF PictureInv
<1>2. GestureInv => GestureIsSound
  BY DEF GestureInv
<1>3. PictureSpec => []PictureIsCurrent
  BY <1>1, PictureInitInv, PictureKeeps, PTL DEF PictureSpec
<1>4. GesturesSpec => []GestureIsSound
  BY <1>2, GesturesInitInv, GestureKeeps, PTL DEF GesturesSpec
<1> QED
  BY <1>3, <1>4, PTL DEF ViewerSpec, ViewerIsSound
=============================================================================
