--------------------------- MODULE RpcConnection ---------------------------
(***************************************************************************)
(* One connection of the JSON-RPC server (rpc/server.py): the read loop,    *)
(* one task per message, the streams of job.subscribe, and the pump that    *)
(* writes what they all put into one queue.  Everything runs on one event   *)
(* loop: a task goes on until it awaits, and what is ready runs in the      *)
(* order in which it became ready.  What the peer sends is arbitrary, and   *)
(* how the reader finds the messages (rpc/framing.py) is one step.          *)
(***************************************************************************)
EXTENDS Naturals, Sequences, FiniteSets

CONSTANTS
    RpcJobs,       \* jobs the peer may subscribe to
    MaxMessages,   \* messages read (a bound)
    MaxPushes      \* events one stream pushes before the job's last (a bound)

ASSUME RpcAssumption == MaxMessages \in Nat /\ MaxPushes \in Nat

Methods == [name : {"job.subscribe", "job.unsubscribe"}, job : RpcJobs] \cup [name : {"call"}]

\* A call answers with a result or an error, its own or -32603; which of them is
\* left out.  "garbled" is a frame that does not parse, "misnumbered" a message
\* whose id the specification does not allow.
Message == [kind : {"request", "notification"}, method : Methods]
           \cup [kind : {"garbled", "misnumbered"}]

VARIABLES
    received,     \* the messages read
    main,         \* serve: reading, gathering, closing, ended
    ready,        \* what the loop will run, in order
    waiting,      \* the calls that wait for something
    streams,      \* every stream task: its job, the message, where it is, its pushes
    held,         \* _subscriptions: the stream each job's entry names, 0 for none
    sent,         \* everything put into the outbox, in order
    pump,         \* pumping, stopped by the None, or broken by the pipe
    overtaken     \* history: the jobs of which a new entry was taken by a callback

rpcVars == <<received, main, ready, waiting, streams, held, sent, pump, overtaken>>

RpcInit ==
    /\ received = <<>> /\ main = "reading"
    /\ ready = <<>> /\ waiting = {} /\ streams = <<>>
    /\ held = [j \in RpcJobs |-> 0]
    /\ sent = <<>> /\ pump = "pumping" /\ overtaken = {}

Response(n) == [answers |-> n]
Push(s) == [pushes |-> s]
None == [stop |-> TRUE]

-----------------------------------------------------------------------------
(* serve *)

\* _read_loop: a frame that does not parse is answered and the loop goes on; a
\* message gets a task.
Read ==
    /\ main = "reading" /\ Len(received) < MaxMessages
    /\ \E m \in Message :
         /\ received' = Append(received, m)
         /\ IF m.kind = "garbled"
            THEN sent' = Append(sent, Response(Len(received) + 1)) /\ UNCHANGED ready
            ELSE ready' = Append(ready, <<"handle", Len(received) + 1>>) /\ UNCHANGED sent
    /\ UNCHANGED <<main, waiting, streams, held, pump, overtaken>>

\* Task.cancel of some streams, those that have not ended: one that waits is
\* woken by it.
Cancelled(S) ==
    [s \in DOMAIN streams |->
       IF s \in S /\ streams[s].at \in {"new", "running"}
       THEN [streams[s] EXCEPT !.at = IF @ = "new" THEN "stillborn" ELSE "cancelled"]
       ELSE streams[s]]

\* ... in the order in which the streams, and so their entries, were made.
Woken(S) ==
    LET W == {s \in S : streams[s].at = "running"} IN
    {woken \in [1..Cardinality(W) -> W] :
        \A i, k \in DOMAIN woken : i < k => woken[i] < woken[k]}

\* End of input, or a read that raises (a line beyond the limit): the streams
\* held are cancelled, then the tasks there are now are awaited ...
InputEnds ==
    LET S == {held[j] : j \in RpcJobs} \ {0} IN
    /\ main = "reading"
    /\ main' = "gathering"
    /\ streams' = Cancelled(S)
    /\ \E woken \in Woken(S) : ready' = ready \o [i \in DOMAIN woken |-> <<"wake", woken[i]>>]
    /\ UNCHANGED <<received, waiting, held, sent, pump, overtaken>>

\* StopPump that awaits the streams too.
StopPumpAfterStreams ==
    /\ main = "gathering"
    /\ waiting = {} /\ \A i \in DOMAIN ready : ready[i][1] # "handle"
    /\ \A s \in DOMAIN streams : streams[s].at = "over"
    /\ sent' = Append(sent, None)
    /\ main' = "closing"
    /\ UNCHANGED <<received, ready, waiting, streams, held, pump, overtaken>>

\* ... the pump is told to stop ...
StopPump ==
    /\ main = "gathering"
    /\ waiting = {} /\ \A i \in DOMAIN ready : ready[i][1] # "handle"
    /\ sent' = Append(sent, None)
    /\ main' = "closing"
    /\ UNCHANGED <<received, ready, waiting, streams, held, pump, overtaken>>

\* ... and awaited.
ServeEnds ==
    /\ main = "closing" /\ pump # "pumping"
    /\ main' = "ended"
    /\ UNCHANGED <<received, ready, waiting, streams, held, sent, pump, overtaken>>

\* _pump: one writer, in the order of the queue.  It writes all there is before
\* the None ...
PumpStops ==
    /\ pump = "pumping" /\ main = "closing"
    /\ pump' = "stopped"
    /\ UNCHANGED <<received, main, ready, waiting, streams, held, sent, overtaken>>

\* The peer stopped reading, at any time: nobody looks before the end.
PumpBreaks ==
    /\ pump = "pumping" /\ main = "closing"
    /\ pump' = "broken"
    /\ UNCHANGED <<received, main, ready, waiting, streams, held, sent, overtaken>>

-----------------------------------------------------------------------------
(* _handle, _invoke, _subscription.  The three below are one turn of the loop. *)

Replied(n) == IF received[n].kind = "notification" THEN sent ELSE Append(sent, Response(n))

Settled(n) == sent' = Replied(n) /\ UNCHANGED waiting

\* job.subscribe: a task per job, unless the entry says there is one.  It may be
\* refused, the job being nobody's or another's.
Subscribe(n, j) ==
    /\ \/ UNCHANGED <<streams, held>> /\ ready' = Tail(ready)
       \/ /\ held[j] = 0
          /\ streams' = Append(streams, [job |-> j, by |-> n, at |-> "new", pushed |-> 0])
          /\ held' = [held EXCEPT ![j] = Len(streams) + 1]
          /\ ready' = Append(Tail(ready), <<"wake", Len(streams) + 1>>)
    /\ Settled(n)

\* Unsubscribe that forgets the task without cancelling it.
UnsubscribeForgetting(n, j) ==
    /\ held' = [held EXCEPT ![j] = 0]
    /\ ready' = Tail(ready)
    /\ Settled(n) /\ UNCHANGED streams

\* job.unsubscribe pops the entry and cancels its task.
Unsubscribe(n, j) ==
    LET S == {held[j]} \ {0} IN
    /\ held' = [held EXCEPT ![j] = 0]
    /\ streams' = Cancelled(S)
    /\ \E woken \in Woken(S) :
         ready' = Tail(ready) \o [i \in DOMAIN woken |-> <<"wake", woken[i]>>]
    /\ Settled(n)

\* Any other method answers at once, or awaits the core and answers later.
Invoke(n) ==
    /\ \/ Settled(n)
       \/ waiting' = waiting \cup {n} /\ UNCHANGED sent
    /\ ready' = Tail(ready) /\ UNCHANGED <<streams, held>>

Handle(n) ==
    LET m == received[n] IN
    IF m.kind = "misnumbered"
    THEN sent' = Append(sent, Response(n)) /\ ready' = Tail(ready)
         /\ UNCHANGED <<waiting, streams, held>>
    ELSE IF m.method.name = "job.subscribe" THEN Subscribe(n, m.method.job)
    ELSE IF m.method.name = "job.unsubscribe" THEN Unsubscribe(n, m.method.job)
    ELSE Invoke(n)

\* What a call waited for has come.
Resume(n) ==
    /\ n \in waiting
    /\ waiting' = waiting \ {n}
    /\ sent' = Replied(n)
    /\ UNCHANGED <<received, main, ready, streams, held, pump, overtaken>>

-----------------------------------------------------------------------------
(* _stream *)

\* A stream runs for the first time, or because it was cancelled: then it ends,
\* and its callback becomes ready.
Wake(s) ==
    /\ IF streams[s].at = "new"
       THEN /\ streams' = [streams EXCEPT ![s].at = "running"]
            /\ ready' = Tail(ready)
       ELSE /\ streams' = [streams EXCEPT ![s].at = "over"]
            /\ ready' = Append(Tail(ready), <<"forget", s>>)
    /\ UNCHANGED <<waiting, held, sent>>

\* The callback pops the job's entry, whichever task it names by now.
Forget(s) ==
    /\ held' = [held EXCEPT ![streams[s].job] = 0]
    /\ overtaken' = IF held[streams[s].job] \in {0, s} THEN overtaken
                    ELSE overtaken \cup {streams[s].job}
    /\ ready' = Tail(ready)
    /\ UNCHANGED <<waiting, streams, sent>>

\* An event of the job reaches the stream; the last one, or an error, ends it.
StreamPushes(s) ==
    /\ streams[s].at = "running"
    /\ \/ /\ streams[s].pushed < MaxPushes
          /\ sent' = Append(sent, Push(s))
          /\ streams' = [streams EXCEPT ![s].pushed = @ + 1]
          /\ UNCHANGED ready
       \/ /\ sent' \in {sent, Append(sent, Push(s))}
          /\ streams' = [streams EXCEPT ![s].at = "over"]
          /\ ready' = Append(ready, <<"forget", s>>)
    /\ UNCHANGED <<received, main, waiting, held, pump, overtaken>>

\* The loop runs what is ready next.
Turn ==
    /\ ready # <<>>
    /\ LET r == Head(ready) IN
         CASE r[1] = "handle" -> Handle(r[2]) /\ UNCHANGED overtaken
           [] r[1] = "wake"   -> Wake(r[2]) /\ UNCHANGED overtaken
           [] r[1] = "forget" -> Forget(r[2])
    /\ UNCHANGED <<received, main, pump>>

RpcNext ==
    \/ Read \/ InputEnds \/ StopPump \/ ServeEnds \/ PumpStops \/ PumpBreaks \/ Turn
    \/ \E n \in waiting : Resume(n)
    \/ \E s \in DOMAIN streams : StreamPushes(s)

\* The loop turns, the core answers the calls it waits for, and the peer reads.
RpcFairness ==
    /\ WF_rpcVars(Turn) /\ WF_rpcVars(StopPump) /\ WF_rpcVars(ServeEnds) /\ WF_rpcVars(PumpStops)
    /\ \A n \in 1..MaxMessages : WF_rpcVars(Resume(n))

RpcSpec == RpcInit /\ [][RpcNext]_rpcVars /\ RpcFairness

-----------------------------------------------------------------------------
(* Properties *)

\* What a pump that was told to stop has written: everything before the None.
OnTheWire == {i \in DOMAIN sent : \A k \in 1..i : sent[k] # None}
Asked == {n \in DOMAIN received : received[n].kind # "notification"}
Answered(n) == {i \in DOMAIN sent : sent[i] = Response(n)}

\* Every message but a notification is answered once, and a peer that closed its
\* end early still gets all the answers (rpc/server.py:71), unless it stopped
\* reading too.
EveryRequestAnswered ==
    /\ \A n \in DOMAIN received : \A i, k \in Answered(n) : i = k
    /\ \A n \in DOMAIN received \ Asked : Answered(n) = {}
    /\ main = "ended" /\ pump = "stopped" => \A n \in Asked : Answered(n) \cap OnTheWire # {}

\* A stream that will go on pushing.
Live(s) == streams[s].at \in {"new", "running"}

\* The connection holds every stream it started, so that it can cancel it; a job
\* then has one at most.  Excepted: a job whose new entry was taken by the callback
\* of the task cancelled before it (rpc/server.py:217).
StreamsAreHeld ==
    \A s \in DOMAIN streams :
        Live(s) /\ streams[s].job \notin overtaken => held[streams[s].job] = s

\* Message n is a request to unsubscribe from job j.
Unsubscribes(n, j) ==
    /\ received[n].kind = "request"
    /\ received[n].method.name = "job.unsubscribe" /\ received[n].method.job = j

\* Once an unsubscribe is answered the streams begun before it push nothing more
\* (same exception).
QuietAfterUnsubscribe ==
    \A n \in DOMAIN received, s \in DOMAIN streams, i, k \in DOMAIN sent :
        /\ Unsubscribes(n, streams[s].job) /\ streams[s].by < n
        /\ streams[s].job \notin overtaken
        /\ sent[i] = Response(n) /\ i < k
        => sent[k] # Push(s)

ConnectionIsSound == EveryRequestAnswered /\ StreamsAreHeld /\ QuietAfterUnsubscribe

\* A connection whose input has ended comes to its end (rpc/server.py:23).
ConnectionEnds == main # "reading" ~> main = "ended"
=============================================================================
