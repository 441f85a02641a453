----------------------------- MODULE EventStream -----------------------------
(***************************************************************************)
(* The reader's half of event delivery: JobManager.subscribe (jobs.py) over *)
(* a bus subscription (events.py, redis_bus.py), as the WebSocket route     *)
(* (api.py) drains it.  A stream first replays the stored log, then follows *)
(* its queue on the bus and drops by number what the replay covered.  The   *)
(* modules that run jobs extend this one and decide when a step may happen. *)
(***************************************************************************)
EXTENDS JobRecords, SequencesExt

CONSTANTS
    Jobs, Readers,
    NoJob          \* what a reader with nothing open reads

ASSUME StreamAssumption == NoJob \notin Jobs

VARIABLES
    log,       \* the stored event log of each job
    reading,   \* the job a reader's stream is open on, or NoJob
    history,   \* the stored events it has yet to replay
    replayed,  \* the highest sequence number it has handed on
    queue,     \* its queue on the bus: what arrived since it attached
    seen       \* what the reader's client has received

readerVars == <<reading, history, replayed, queue, seen>>

\* What travels on the bus (events.py: Delivery).
Delivery == [seq : Nat, event : Event]

ReaderInit ==
    /\ reading = [r \in Readers |-> NoJob]
    /\ history = [r \in Readers |-> <<>>]
    /\ replayed = [r \in Readers |-> 0]
    /\ queue = [r \in Readers |-> <<>>]
    /\ seen = [r \in Readers |-> <<>>]

\* InProcessEventBus.publish: into the queue of everyone attached to the job.
Publish(j, n, e) ==
    queue' = [r \in Readers |->
                IF reading[r] = j
                THEN Append(queue[r], [seq |-> n, event |-> e]) ELSE queue[r]]

\* Attach counting from -1 ...
AttachFromMinusOne(r, j, events) ==
    /\ reading[r] = NoJob
    /\ reading' = [reading EXCEPT ![r] = j]
    /\ history' = [history EXCEPT ![r] = events]
    /\ replayed' = [replayed EXCEPT ![r] = 0 - 1]
    /\ queue' = [queue EXCEPT ![r] = <<>>]
    /\ seen' = [seen EXCEPT ![r] = <<>>]

\* ... or from the length of the history it is about to count.
AttachCountedTwice(r, j, events) ==
    /\ reading[r] = NoJob
    /\ reading' = [reading EXCEPT ![r] = j]
    /\ history' = [history EXCEPT ![r] = events]
    /\ replayed' = [replayed EXCEPT ![r] = Len(events)]
    /\ queue' = [queue EXCEPT ![r] = <<>>]
    /\ seen' = [seen EXCEPT ![r] = <<>>]

\* A subscription starts: an empty queue on the bus, and a replay to do.
Attach(r, j, events) ==
    /\ reading[r] = NoJob
    /\ reading' = [reading EXCEPT ![r] = j]
    /\ history' = [history EXCEPT ![r] = events]
    /\ replayed' = [replayed EXCEPT ![r] = 0]
    /\ queue' = [queue EXCEPT ![r] = <<>>]
    /\ seen' = [seen EXCEPT ![r] = <<>>]

\* Hand one event on, numbered n; a terminal one ends the stream.  An ended
\* stream keeps nothing but what its client received.
HandOn(r, e, n, rest, feed) ==
    /\ seen' = [seen EXCEPT ![r] = Append(@, e)]
    /\ reading' = [reading EXCEPT ![r] = IF IsTerminal(e) THEN NoJob ELSE @]
    /\ replayed' = [replayed EXCEPT ![r] = IF IsTerminal(e) THEN 0 ELSE n]
    /\ history' = [history EXCEPT ![r] = IF IsTerminal(e) THEN <<>> ELSE rest]
    /\ queue' = [queue EXCEPT ![r] = IF IsTerminal(e) THEN <<>> ELSE feed]

ReplayNext(r) ==
    /\ reading[r] # NoJob
    /\ history[r] # <<>>
    /\ HandOn(r, Head(history[r]), replayed[r] + 1, Tail(history[r]), queue[r])

\* ReceiveNext dropping one event more than the replay covered.
ReceiveOffByOne(r) ==
    /\ reading[r] # NoJob
    /\ history[r] = <<>> /\ queue[r] # <<>>
    /\ LET d == Head(queue[r]) IN
         IF d.seq <= replayed[r] + 1
         THEN /\ queue' = [queue EXCEPT ![r] = Tail(@)]
              /\ UNCHANGED <<reading, history, replayed, seen>>
         ELSE HandOn(r, d.event, d.seq, <<>>, Tail(queue[r]))

\* The live feed: what the replay already covered is dropped by its number.
ReceiveNext(r) ==
    /\ reading[r] # NoJob
    /\ history[r] = <<>> /\ queue[r] # <<>>
    /\ LET d == Head(queue[r]) IN
         IF d.seq <= replayed[r]
         THEN /\ queue' = [queue EXCEPT ![r] = Tail(@)]
              /\ UNCHANGED <<reading, history, replayed, seen>>
         ELSE HandOn(r, d.event, d.seq, <<>>, Tail(queue[r]))

\* The streams of these readers end without a terminal event: a client left, or
\* the process that served them died.
Detach(R) ==
    /\ reading' = [r \in Readers |-> IF r \in R THEN NoJob ELSE reading[r]]
    /\ history' = [r \in Readers |-> IF r \in R THEN <<>> ELSE history[r]]
    /\ replayed' = [r \in Readers |-> IF r \in R THEN 0 ELSE replayed[r]]
    /\ queue' = [r \in Readers |-> IF r \in R THEN <<>> ELSE queue[r]]
    /\ UNCHANGED seen

-----------------------------------------------------------------------------
(* What a stream holds *)

ReaderOK ==
    /\ reading \in [Readers -> Jobs \cup {NoJob}]
    /\ history \in [Readers -> Seq(Event)]
    /\ replayed \in [Readers -> Nat]
    /\ queue \in [Readers -> Seq(Delivery)]
    /\ seen \in [Readers -> Seq(Event)]

\* What was handed on (s), has yet to be replayed (h) and is queued (q) is
\* together the whole log (l), nothing of it twice; every queued event carries
\* its place in the log, and n counts what was handed on.
Covers(l, s, h, n, q) ==
    LET a == Len(s)
        b == a + Len(h)
    IN /\ n = a
       /\ Len(l) = b + Len(q)
       /\ \A i \in 1..a : s[i] = l[i]
       /\ \A i \in 1..Len(h) : h[i] = l[a + i]
       /\ \A i \in 1..Len(q) : q[i].seq = b + i /\ q[i].event = l[b + i]

\* What a reader has been handed is a prefix of the job's stored log: each event
\* exactly once, in order, whenever it attached (tests/test_events.py).
SeenIsLogPrefix ==
    \A r \in Readers : reading[r] # NoJob => IsPrefix(seen[r], log[reading[r]])
=============================================================================
