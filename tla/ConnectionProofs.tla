--------------------------- MODULE ConnectionProofs ---------------------------
(***************************************************************************)
(* The JSON-RPC connection (rpc/server.py), for every number of messages,  *)
(* jobs and pushes: each request is answered once and before the pump is   *)
(* told to stop, every stream that pushes is held, and an unsubscribe that *)
(* was answered is the end of what it stopped.                             *)
(*                                                                         *)
(* A message that was read is in one place: its handler is ready to run,   *)
(* or it waits for the core, or it was dealt with.  Handlers run in the    *)
(* order of their messages; the streams a handler finds were begun by an   *)
(* earlier one.                                                            *)
(*                                                                         *)
(* And the reads of one job (JobReads), for every page size and any number *)
(* of sweeps, cleanups and restarts: what a caller is told is so, and what *)
(* a poller reads is the log.  The invariant says what the live entry, the *)
(* row and result.json hold at each step of the writer, and what a call    *)
(* that has looked at them may still rely on.                              *)
(***************************************************************************)
EXTENDS RpcConnection, JobReads, FiniteSetTheorems, SequenceTheorems, TLAPS

Stages == {"new", "running", "stillborn", "cancelled", "over"}
Streams == [job : RpcJobs, by : Nat, at : Stages, pushed : Nat]
Steps == {"handle", "wake", "forget"} \X Nat

Outgoing == [answers : Nat] \cup [pushes : Nat] \cup {None}

RpcTypeOK ==
    /\ received \in Seq(Message)
    /\ main \in {"reading", "gathering", "closing", "ended"}
    /\ ready \in Seq(Steps)
    /\ waiting \subseteq DOMAIN received
    /\ streams \in Seq(Streams)
    /\ held \in [RpcJobs -> 0..Len(streams)]
    /\ sent \in Seq(Outgoing)
    /\ pump \in {"pumping", "stopped", "broken"}
    /\ overtaken \subseteq RpcJobs

Numbered(n) == received[n].kind # "garbled"

\* What is ready is about a message or a stream there is, and only a stream that is
\* over is to be forgotten.
ReadyIsKnown ==
    \A i \in DOMAIN ready :
        /\ ready[i][1] = "handle" => ready[i][2] \in DOMAIN received /\ Numbered(ready[i][2])
        /\ ready[i][1] # "handle" => ready[i][2] \in DOMAIN streams
        /\ ready[i][1] = "forget" => streams[ready[i][2]].at = "over"

\* A stream was begun by a message; an entry names a stream of its job.
EntriesAreRight ==
    /\ \A s \in DOMAIN streams : streams[s].by \in DOMAIN received
    /\ \A j \in RpcJobs : held[j] # 0 => streams[held[j]].job = j

CallsWait ==
    \A n \in waiting :
        received[n].kind \in {"request", "notification"} /\ received[n].method.name = "call"

\* The handlers that are ready are in the order of their messages, after every one
\* that has run: that began a stream, that waits, or that has answered.
Ran(n) ==
    \/ n \in waiting
    \/ Numbered(n) /\ Answered(n) # {}
    \/ \E s \in DOMAIN streams : streams[s].by = n

InOrder ==
    \A i \in DOMAIN ready : ready[i][1] = "handle" =>
        /\ \A k \in DOMAIN ready : ready[k][1] = "handle" /\ i < k => ready[i][2] < ready[k][2]
        /\ \A n \in DOMAIN received : Ran(n) => n < ready[i][2]

\* What is in the outbox is the answer to a message that asked for one and waits no
\* more, one each, or an event of a stream, or the None.
AnsweredOnce ==
    /\ \A n \in DOMAIN received : \A i, k \in Answered(n) : i = k
    /\ \A i \in DOMAIN sent :
         \/ \E n \in Asked \ waiting : sent[i] = Response(n)
         \/ \E s \in DOMAIN streams : sent[i] = Push(s)
         \/ sent[i] = None

\* A message that asked for an answer has it, waits for it, or is still to be handled.
NothingForgotten ==
    \A n \in Asked :
        \/ Answered(n) # {}
        \/ n \in waiting
        \/ \E i \in DOMAIN ready : ready[i] = <<"handle", n>>

\* The None comes when all is answered.
NoneComesLast ==
    /\ main \in {"reading", "gathering"} => \A i \in DOMAIN sent : sent[i] # None
    /\ main \in {"closing", "ended"} =>
         /\ waiting = {} /\ \A i \in DOMAIN ready : ready[i][1] # "handle"
         /\ \A n \in Asked : Answered(n) \cap OnTheWire # {}

\* An unsubscribe that was answered left none of the streams before it alive.
StoppedByUnsubscribe ==
    \A n \in DOMAIN received, s \in DOMAIN streams :
        /\ Unsubscribes(n, streams[s].job) /\ streams[s].by < n
        /\ streams[s].job \notin overtaken /\ Answered(n) # {}
        => ~Live(s)

RpcInv ==
    /\ RpcTypeOK /\ ReadyIsKnown /\ EntriesAreRight /\ CallsWait
    /\ InOrder /\ AnsweredOnce /\ NothingForgotten /\ NoneComesLast
    /\ StreamsAreHeld /\ StoppedByUnsubscribe /\ QuietAfterUnsubscribe

-----------------------------------------------------------------------------
(* What goes out, and what is ready *)

\* What one more element does to a sequence.
LEMMA AppendSeen ==
    ASSUME NEW S, NEW q \in Seq(S), NEW e \in S
    PROVE  /\ Append(q, e) \in Seq(S) /\ DOMAIN Append(q, e) = DOMAIN q \cup {Len(q) + 1}
           /\ Append(q, e)[Len(q) + 1] = e
           /\ \A i \in DOMAIN q : Append(q, e)[i] = q[i]
           /\ Append(q, e) = q \o <<e>>
<1>1. Append(q, e) = q \o <<e>>
  OBVIOUS
<1>2. DOMAIN q = 1..Len(q) /\ Len(q) \in Nat /\ DOMAIN Append(q, e) = 1..(Len(q) + 1)
  OBVIOUS
<1> QED
  BY <1>1, <1>2

LEMMA UpdateSeen ==
    ASSUME NEW S, NEW q \in Seq(S), NEW i \in DOMAIN q, NEW e \in S
    PROVE  LET u == [q EXCEPT ![i] = e] IN
           /\ u \in Seq(S) /\ DOMAIN u = DOMAIN q /\ Len(u) = Len(q) /\ u[i] = e
           /\ \A k \in DOMAIN q : k # i => u[k] = q[k]
OBVIOUS

\* A turn that makes one stream ready.
LEMMA OneReady ==
    ASSUME NEW q \in Seq(Steps), NEW e \in {"wake", "forget"} \X Nat
    PROVE  /\ <<e>> \in Seq({"wake", "forget"} \X Nat)
           /\ DOMAIN <<e>> = {1} /\ <<e>>[1] = e
           /\ Append(q, e) = q \o <<e>>
<1>1. e \in Steps
  BY DEF Steps
<1> QED
  BY <1>1, AppendSeen

\* An answer, an event and the None are told apart.
LEMMA OutgoingDiffers ==
    ASSUME NEW n, NEW m
    PROVE  /\ Response(n) # Push(m) /\ Response(n) # None /\ Push(n) # None
           /\ (Response(n) = Response(m) => n = m)
           /\ (Push(n) = Push(m) => n = m)
<1>1. Response(n).answers = n /\ Response(m).answers = m /\ Push(n).pushes = n /\ Push(m).pushes = m
  BY DEF Response, Push
<1>2. /\ DOMAIN Response(n) = {"answers"} /\ DOMAIN Push(m) = {"pushes"}
      /\ DOMAIN Push(n) = {"pushes"} /\ DOMAIN None = {"stop"}
  BY DEF Response, Push, None
<1>3. "answers" # "pushes" /\ "answers" # "stop" /\ "pushes" # "stop"
  OBVIOUS
<1>4. Response(n) # Push(m) /\ Response(n) # None /\ Push(n) # None
  BY <1>2, <1>3
<1> QED
  BY <1>1, <1>4

LEMMA OutgoingTypes ==
    /\ \A n \in Nat : Response(n) \in Outgoing /\ Push(n) \in Outgoing
    /\ None \in Outgoing
BY DEF Response, Push, Outgoing

\* One more in the outbox: nothing that was there moves.
LEMMA OutboxGrows ==
    ASSUME sent \in Seq(Outgoing), NEW x \in Outgoing, sent' = Append(sent, x)
    PROVE  /\ sent' \in Seq(Outgoing)
           /\ DOMAIN sent' = DOMAIN sent \cup {Len(sent) + 1}
           /\ Len(sent) \in Nat /\ DOMAIN sent = 1..Len(sent)
           /\ sent'[Len(sent) + 1] = x /\ \A i \in DOMAIN sent : sent'[i] = sent[i]
BY DEF Outgoing

LEMMA AnswersKept ==
    ASSUME RpcTypeOK, NEW x \in Outgoing, sent' = sent \/ sent' = Append(sent, x)
    PROVE  \A n : /\ Answered(n) \subseteq Answered(n)'
                  /\ Answered(n) \cap OnTheWire \subseteq (Answered(n) \cap OnTheWire)'
                  /\ x # Response(n) => Answered(n)' = Answered(n)
                  /\ Answered(n)' \ Answered(n) \subseteq {Len(sent) + 1}
<1>1. CASE sent' = sent
  BY <1>1 DEF Answered, OnTheWire
<1>2. CASE sent' = Append(sent, x)
  <2>1. /\ DOMAIN sent' = DOMAIN sent \cup {Len(sent) + 1}
        /\ Len(sent) \in Nat /\ DOMAIN sent = 1..Len(sent)
        /\ sent'[Len(sent) + 1] = x /\ \A i \in DOMAIN sent : sent'[i] = sent[i]
    BY <1>2, OutboxGrows DEF RpcTypeOK
  <2>2. ASSUME NEW n
        PROVE  /\ Answered(n) \subseteq Answered(n)'
               /\ x # Response(n) => Answered(n)' = Answered(n)
               /\ Answered(n)' \ Answered(n) \subseteq {Len(sent) + 1}
    BY <2>1 DEF Answered
  <2>3. OnTheWire \subseteq OnTheWire'
    <3> SUFFICES ASSUME NEW i \in DOMAIN sent, \A k \in 1..i : sent[k] # None,
                        NEW k \in 1..i
                 PROVE  sent'[k] # None
      BY <2>1 DEF OnTheWire
    <3> QED
      BY <2>1
  <2> QED
    BY <2>2, <2>3
<1> QED
  BY <1>1, <1>2

\* The loop takes the first of what is ready and appends what that made ready.
LEMMA QueueTurns ==
    ASSUME ready \in Seq(Steps), ready # <<>>,
           NEW extra \in Seq({"wake", "forget"} \X Nat), ready' = Tail(ready) \o extra
    PROVE  /\ ready' \in Seq(Steps)
           /\ \A i \in DOMAIN ready' :
                \/ i + 1 \in DOMAIN ready /\ ready'[i] = ready[i + 1]
                \/ \E k \in DOMAIN extra : ready'[i] = extra[k]
           /\ \A i \in DOMAIN ready : i # 1 => i - 1 \in DOMAIN ready' /\ ready'[i - 1] = ready[i]
<1>1. /\ Tail(ready) \in Seq(Steps) /\ Len(Tail(ready)) = Len(ready) - 1
      /\ \A i \in 1..(Len(ready) - 1) : Tail(ready)[i] = ready[i + 1]
      /\ Len(ready) \in Nat /\ Len(ready) # 0 /\ DOMAIN ready = 1..Len(ready)
  BY DEF Steps
<1>2. extra \in Seq(Steps)
  BY DEF Steps
<1>3. ready' \in Seq(Steps)
  BY <1>1, <1>2
<1>4. /\ Len(extra) \in Nat /\ DOMAIN extra = 1..Len(extra)
      /\ DOMAIN ready' = 1..(Len(ready) - 1 + Len(extra))
      /\ \A i \in 1..(Len(ready) - 1) : ready'[i] = Tail(ready)[i]
      /\ \A i \in 1..(Len(ready) - 1 + Len(extra)) :
            i > Len(ready) - 1 => ready'[i] = extra[i - (Len(ready) - 1)]
  BY <1>1, <1>2
<1>5. ASSUME NEW i \in DOMAIN ready'
      PROVE  \/ i + 1 \in DOMAIN ready /\ ready'[i] = ready[i + 1]
             \/ \E k \in DOMAIN extra : ready'[i] = extra[k]
  <2>1. CASE i <= Len(ready) - 1
    BY <1>1, <1>4, <2>1
  <2>2. CASE i > Len(ready) - 1
    <3>1. i - (Len(ready) - 1) \in DOMAIN extra
      BY <1>1, <1>4, <2>2
    <3> QED
      BY <1>4, <2>2, <3>1
  <2> QED
    BY <1>1, <1>4, <2>1, <2>2
<1>6. ASSUME NEW i \in DOMAIN ready, i # 1
      PROVE  i - 1 \in DOMAIN ready' /\ ready'[i - 1] = ready[i]
  <2>1. i - 1 \in 1..(Len(ready) - 1) /\ (i - 1) + 1 = i
    BY <1>1, <1>6
  <2> QED
    BY <1>1, <1>4, <2>1
<1> QED
  BY <1>3, <1>5, <1>6

\* What becomes ready waits behind what is.
LEMMA QueueGrows ==
    ASSUME ready \in Seq(Steps), NEW extra \in Seq(Steps), ready' = ready \o extra
    PROVE  /\ ready' \in Seq(Steps)
           /\ \A i \in DOMAIN ready' :
                \/ i \in DOMAIN ready /\ ready'[i] = ready[i]
                \/ (\E k \in DOMAIN extra : ready'[i] = extra[k]) /\ i > Len(ready)
           /\ \A i \in DOMAIN ready : i \in DOMAIN ready' /\ ready'[i] = ready[i]
<1>1. /\ Len(ready) \in Nat /\ DOMAIN ready = 1..Len(ready)
      /\ Len(extra) \in Nat /\ DOMAIN extra = 1..Len(extra)
      /\ ready' \in Seq(Steps)
      /\ DOMAIN ready' = 1..(Len(ready) + Len(extra))
      /\ \A i \in 1..Len(ready) : ready'[i] = ready[i]
      /\ \A i \in 1..(Len(ready) + Len(extra)) :
            i > Len(ready) => ready'[i] = extra[i - Len(ready)]
  BY DEF Steps
<1>2. ASSUME NEW i \in DOMAIN ready', i > Len(ready)
      PROVE  \E k \in DOMAIN extra : ready'[i] = extra[k]
  <2>1. i - Len(ready) \in DOMAIN extra
    BY <1>1, <1>2
  <2> QED
    BY <1>1, <1>2, <2>1
<1> QED
  BY <1>1, <1>2

-----------------------------------------------------------------------------
(* One turn of the loop: the messages *)

LEMMA MessageShapes ==
    ASSUME RpcTypeOK, NEW n \in DOMAIN received
    PROVE  /\ received[n].kind \in {"request", "notification", "garbled", "misnumbered"}
           /\ received[n].kind \in {"request", "notification"} =>
                /\ received[n].method.name \in {"job.subscribe", "job.unsubscribe", "call"}
                /\ received[n].method.name # "call" => received[n].method.job \in RpcJobs
<1>1. received[n] \in Message
  BY DEF RpcTypeOK
<1>2. received[n].kind \in {"request", "notification", "garbled", "misnumbered"}
  BY <1>1 DEF Message
<1>3. CASE received[n].kind \in {"request", "notification"}
  <2>1. received[n].method \in Methods
    BY <1>1, <1>3 DEF Message
  <2> QED
    BY <1>2, <2>1 DEF Methods
<1> QED
  BY <1>2, <1>3

\* The message whose handler runs has no other place.
LEMMA HandlerRunsOnce ==
    ASSUME RpcInv, ready # <<>>, ready[1][1] = "handle"
    PROVE  LET n == ready[1][2] IN
           /\ n \in DOMAIN received /\ Numbered(n)
           /\ n \notin waiting /\ Answered(n) = {}
           /\ \A s \in DOMAIN streams : streams[s].by < n
           /\ \A m \in DOMAIN received : Numbered(m) /\ Answered(m) # {} => m < n
           /\ \A i \in DOMAIN ready : i # 1 /\ ready[i][1] = "handle" => n < ready[i][2]
           /\ main \in {"reading", "gathering"}
<1> DEFINE n == ready[1][2]
<1>1. 1 \in DOMAIN ready /\ DOMAIN ready = 1..Len(ready) /\ Len(ready) \in Nat
  BY DEF RpcInv, RpcTypeOK, Steps
<1>2. n \in DOMAIN received /\ Numbered(n)
  BY <1>1 DEF RpcInv, ReadyIsKnown
<1>3. DOMAIN received \subseteq Nat
  BY DEF RpcInv, RpcTypeOK, Message
<1>4. \A m \in DOMAIN received : Ran(m) => m < n
  BY <1>1 DEF RpcInv, InOrder
<1>5. ~Ran(n)
  BY <1>2, <1>3, <1>4
<1>6. n \notin waiting /\ Answered(n) = {}
  BY <1>2, <1>5 DEF Ran
<1>7. \A s \in DOMAIN streams : streams[s].by < n
  BY <1>4 DEF Ran, RpcInv, EntriesAreRight
<1>8. \A i \in DOMAIN ready : i # 1 /\ ready[i][1] = "handle" => n < ready[i][2]
  BY <1>1 DEF RpcInv, InOrder
<1>9. main \in {"reading", "gathering"}
  BY <1>1 DEF RpcInv, RpcTypeOK, NoneComesLast
<1> QED
  BY <1>2, <1>4, <1>6, <1>7, <1>8, <1>9 DEF Ran

\* A turn deals with the message it handles, if it handles one, and with no other.
LEMMA TurnAccounts ==
    ASSUME RpcInv, ready # <<>>,
           NEW extra \in Seq({"wake", "forget"} \X Nat), ready' = Tail(ready) \o extra,
           UNCHANGED <<received, main>>, DOMAIN streams \subseteq DOMAIN streams',
           \A s \in DOMAIN streams' :
              \/ s \in DOMAIN streams /\ streams'[s].by = streams[s].by
              \/ ready[1] = <<"handle", streams'[s].by>>,
           \/ ready[1][1] # "handle" /\ UNCHANGED <<sent, waiting>>
           \/ /\ ready[1][1] = "handle"
              /\ LET n == ready[1][2] IN
                 \/ n \in Asked /\ sent' = Append(sent, Response(n)) /\ UNCHANGED waiting
                 \/ n \notin Asked /\ UNCHANGED <<sent, waiting>>
                 \/ waiting' = waiting \cup {n} /\ UNCHANGED sent
    PROVE  /\ ready' \in Seq(Steps) /\ sent' \in Seq(Outgoing) /\ waiting' \subseteq DOMAIN received
           /\ InOrder' /\ AnsweredOnce' /\ NothingForgotten' /\ NoneComesLast'
<1> DEFINE n == ready[1][2]
           x == Response(n)
<1>1. /\ ready \in Seq(Steps) /\ sent \in Seq(Outgoing) /\ RpcTypeOK
      /\ 1 \in DOMAIN ready /\ DOMAIN ready = 1..Len(ready) /\ Len(ready) \in Nat
      /\ ready[1] \in Steps /\ ready[1] = <<ready[1][1], ready[1][2]>> /\ n \in Nat
  BY DEF RpcInv, RpcTypeOK, Steps
<1>2. x \in Outgoing
  BY <1>1, OutgoingTypes
<1>3. /\ ready' \in Seq(Steps)
      /\ \A i \in DOMAIN ready' :
           \/ i + 1 \in DOMAIN ready /\ ready'[i] = ready[i + 1]
           \/ ready'[i][1] # "handle"
      /\ \A i \in DOMAIN ready : i # 1 => i - 1 \in DOMAIN ready' /\ ready'[i - 1] = ready[i]
  <2>1. ASSUME NEW k \in DOMAIN extra PROVE extra[k][1] # "handle"
    <3>1. extra[k] \in {"wake", "forget"} \X Nat
      OBVIOUS
    <3> QED
      BY <3>1
  <2>2. /\ ready' \in Seq(Steps)
        /\ \A i \in DOMAIN ready' :
             \/ i + 1 \in DOMAIN ready /\ ready'[i] = ready[i + 1]
             \/ \E k \in DOMAIN extra : ready'[i] = extra[k]
        /\ \A i \in DOMAIN ready : i # 1 => i - 1 \in DOMAIN ready' /\ ready'[i - 1] = ready[i]
    BY <1>1, QueueTurns
  <2> QED
    BY <2>1, <2>2
<1>4. DOMAIN ready' \subseteq Nat \ {0}
  BY <1>3 DEF Steps
<1>5. sent' \in Seq(Outgoing)
  BY <1>1, <1>2, OutboxGrows
<1>6. Asked' = Asked
  BY DEF Asked
<1>7. ready[1][1] = "handle" =>
        /\ n \in DOMAIN received /\ Numbered(n) /\ n \notin waiting /\ Answered(n) = {}
        /\ \A i \in DOMAIN ready : i # 1 /\ ready[i][1] = "handle" => n < ready[i][2]
        /\ main \in {"reading", "gathering"}
  BY HandlerRunsOnce
<1>8. sent' = sent \/ (sent' = Append(sent, x) /\ ready[1][1] = "handle" /\ n \in Asked /\ waiting' = waiting)
  OBVIOUS
<1>9. \A m : /\ Answered(m) \subseteq Answered(m)'
             /\ Answered(m) \cap OnTheWire \subseteq (Answered(m) \cap OnTheWire)'
             /\ m # n => Answered(m)' = Answered(m)
             /\ Answered(m)' \ Answered(m) \subseteq {Len(sent) + 1}
  BY <1>1, <1>2, <1>8, AnswersKept, OutgoingDiffers
<1>10. waiting' \subseteq DOMAIN received
  BY <1>1, <1>7 DEF RpcTypeOK
<1>11. InOrder'
  <2> SUFFICES ASSUME NEW i \in DOMAIN ready', ready'[i][1] = "handle"
               PROVE  /\ \A k \in DOMAIN ready' :
                           ready'[k][1] = "handle" /\ i < k => ready'[i][2] < ready'[k][2]
                      /\ \A m \in DOMAIN received : Ran(m)' => m < ready'[i][2]
    BY DEF InOrder
  <2>1. i + 1 \in DOMAIN ready /\ ready'[i] = ready[i + 1] /\ i \in Nat \ {0}
    BY <1>3, <1>4
  <2>2. ASSUME NEW k \in DOMAIN ready', ready'[k][1] = "handle", i < k
        PROVE  ready'[i][2] < ready'[k][2]
    <3>1. k + 1 \in DOMAIN ready /\ ready'[k] = ready[k + 1]
      BY <1>3, <2>2
    <3>2. k \in Nat /\ i + 1 < k + 1
      BY <1>4, <2>1, <2>2
    <3> QED
      BY <2>1, <2>2, <3>1, <3>2 DEF RpcInv, InOrder
  <2>3. ASSUME NEW m \in DOMAIN received, Ran(m)'
        PROVE  m < ready'[i][2]
    <3>1. CASE Ran(m)
      BY <2>1, <3>1 DEF RpcInv, InOrder
    <3>2. CASE ready[1] = <<"handle", m>>
      <4>1. ready[1][1] = "handle" /\ n = m /\ i + 1 # 1
        BY <2>1, <3>2
      <4> QED
        BY <1>7, <2>1, <4>1
    <3>3. Ran(m) \/ ready[1] = <<"handle", m>>
      <4>1. CASE m \in waiting'
        BY <1>1, <4>1 DEF Ran
      <4>2. CASE Numbered(m)' /\ Answered(m)' # {}
        <5>1. Numbered(m)
          BY <4>2 DEF Numbered
        <5>2. CASE Answered(m) # {}
          BY <5>1, <5>2 DEF Ran
        <5>3. CASE Answered(m) = {}
          BY <1>1, <1>8, <1>9, <4>2, <5>3 DEF Answered
        <5> QED
          BY <5>2, <5>3
      <4>3. CASE \E s \in DOMAIN streams' : streams'[s].by = m
        BY <4>3 DEF Ran
      <4> QED
        BY <2>3, <4>1, <4>2, <4>3 DEF Ran
    <3> QED
      BY <3>1, <3>2, <3>3
  <2> QED
    BY <2>2, <2>3
<1>12. AnsweredOnce'
  <2>1. ASSUME NEW m \in DOMAIN received, NEW i \in Answered(m)', NEW k \in Answered(m)'
        PROVE  i = k
    <3>1. CASE Answered(m)' = Answered(m)
      BY <3>1 DEF RpcInv, AnsweredOnce
    <3>2. CASE Answered(m)' # Answered(m)
      <4>1. Answered(m) = {}
        BY <1>7, <1>8, <1>9, <3>2 DEF Answered
      <4> QED
        BY <1>9, <4>1
    <3> QED
      BY <3>1, <3>2
  <2>2. ASSUME NEW i \in DOMAIN sent'
        PROVE  \/ \E m \in Asked \ waiting' : sent'[i] = Response(m)
               \/ \E s \in DOMAIN streams' : sent'[i] = Push(s)
               \/ sent'[i] = None
    <3>1. CASE i \in DOMAIN sent /\ sent'[i] = sent[i]
      <4>1. ASSUME NEW m \in Asked \ waiting, sent[i] = Response(m) PROVE m \notin waiting'
        <5>1. i \in Answered(m)
          BY <3>1, <4>1 DEF Answered
        <5> QED
          BY <1>7, <4>1, <5>1
      <4> QED
        BY <3>1, <4>1 DEF RpcInv, AnsweredOnce
    <3>2. CASE sent' = Append(sent, x) /\ sent'[i] = x
      BY <1>7, <1>8, <3>2, HandlerRunsOnce, OutboxGrows
    <3> QED
      BY <1>1, <1>2, <1>8, <3>1, <3>2, OutboxGrows
  <2> QED
    BY <1>6, <2>1, <2>2 DEF AnsweredOnce
<1>13. NothingForgotten'
  <2> SUFFICES ASSUME NEW m \in Asked
               PROVE  \/ Answered(m)' # {} \/ m \in waiting'
                      \/ \E i \in DOMAIN ready' : ready'[i] = <<"handle", m>>
    BY <1>6 DEF NothingForgotten
  <2>1. CASE Answered(m) # {}
    BY <1>9, <2>1
  <2>2. CASE m \in waiting
    BY <2>2
  <2>3. ASSUME NEW i \in DOMAIN ready, ready[i] = <<"handle", m>>, i = 1
        PROVE  Answered(m)' # {} \/ m \in waiting'
    <3>1. ready[1][1] = "handle" /\ m = n
      BY <2>3
    <3>2. CASE sent' = Append(sent, x)
      <4>1. Len(sent) + 1 \in DOMAIN sent' /\ sent'[Len(sent) + 1] = x
        BY <1>1, <1>2, <3>2, OutboxGrows
      <4> QED
        BY <3>1, <4>1 DEF Answered
    <3> QED
      BY <3>1, <3>2
  <2>4. ASSUME NEW i \in DOMAIN ready, ready[i] = <<"handle", m>>, i # 1
        PROVE  \E k \in DOMAIN ready' : ready'[k] = <<"handle", m>>
    BY <1>3, <2>4
  <2> QED
    BY <2>1, <2>2, <2>3, <2>4 DEF RpcInv, NothingForgotten
<1>14. NoneComesLast'
  <2>1. CASE main \in {"reading", "gathering"}
    <3>1. \A i \in DOMAIN sent' : sent'[i] # None
      <4>1. \A i \in DOMAIN sent : sent[i] # None
        BY <2>1 DEF RpcInv, NoneComesLast
      <4>2. x # None
        BY OutgoingDiffers
      <4> QED
        BY <1>1, <1>2, <1>8, <4>1, <4>2, OutboxGrows
    <3> QED
      BY <2>1, <3>1 DEF NoneComesLast
  <2>2. CASE main \in {"closing", "ended"}
    <3>1. /\ waiting = {} /\ \A i \in DOMAIN ready : ready[i][1] # "handle"
          /\ \A m \in Asked : Answered(m) \cap OnTheWire # {}
      BY <2>2 DEF RpcInv, NoneComesLast
    <3>2. waiting' = {} /\ \A i \in DOMAIN ready' : ready'[i][1] # "handle"
      BY <1>1, <1>3, <3>1
    <3>3. \A m \in Asked : (Answered(m) \cap OnTheWire)' # {}
      BY <1>9, <3>1
    <3> QED
      BY <1>6, <2>2, <3>2, <3>3 DEF NoneComesLast
  <2> QED
    BY <1>1, <2>1, <2>2 DEF RpcTypeOK
<1> QED
  BY <1>3, <1>5, <1>10, <1>11, <1>12, <1>13, <1>14

-----------------------------------------------------------------------------
(* The streams *)

\* A stream that was not alive does not come alive, a live one keeps its entry, and
\* an unsubscribe that is answered now leaves none alive: nothing else is asked of
\* a step that begins no stream.
LEMMA StreamsSettle ==
    ASSUME RpcInv, UNCHANGED received, DOMAIN streams' = DOMAIN streams,
           \A s \in DOMAIN streams :
              /\ streams'[s].job = streams[s].job /\ streams'[s].by = streams[s].by
              /\ Live(s)' /\ streams[s].job \notin overtaken' =>
                    Live(s) /\ held'[streams[s].job] = held[streams[s].job],
           overtaken \subseteq overtaken',
           NEW x \in Outgoing, sent' = sent \/ sent' = Append(sent, x),
           \A s \in DOMAIN streams : x = Push(s) /\ sent' # sent => Live(s),
           \A n \in DOMAIN received, s \in DOMAIN streams :
              /\ x = Response(n) /\ Unsubscribes(n, streams[s].job)
              /\ streams[s].job \notin overtaken'
              => ~Live(s)'
    PROVE  StreamsAreHeld' /\ StoppedByUnsubscribe' /\ QuietAfterUnsubscribe'
<1>1. sent \in Seq(Outgoing) /\ RpcTypeOK
  BY DEF RpcInv, RpcTypeOK
<1>2. StreamsAreHeld'
  <2> SUFFICES ASSUME NEW s \in DOMAIN streams, Live(s)', streams[s].job \notin overtaken'
               PROVE  held'[streams[s].job] = s
    BY DEF StreamsAreHeld
  <2>1. Live(s) /\ streams[s].job \notin overtaken
    OBVIOUS
  <2> QED
    BY <2>1 DEF RpcInv, StreamsAreHeld
<1>3. \A n, j : Unsubscribes(n, j)' <=> Unsubscribes(n, j)
  BY DEF Unsubscribes
<1>4. StoppedByUnsubscribe'
  <2> SUFFICES ASSUME NEW n \in DOMAIN received, NEW s \in DOMAIN streams,
                      Unsubscribes(n, streams[s].job), streams[s].by < n,
                      streams[s].job \notin overtaken', Answered(n)' # {}
               PROVE  ~Live(s)'
    BY <1>3 DEF StoppedByUnsubscribe
  <2>1. CASE Answered(n) # {}
    <3>1. ~Live(s)
      BY <2>1 DEF RpcInv, StoppedByUnsubscribe
    <3> QED
      BY <3>1
  <2>2. CASE Answered(n) = {}
    <3>1. x = Response(n)
      BY <1>1, <2>2, AnswersKept
    <3> QED
      BY <3>1
  <2> QED
    BY <2>1, <2>2
<1>5. QuietAfterUnsubscribe'
  <2> SUFFICES ASSUME NEW n \in DOMAIN received, NEW s \in DOMAIN streams,
                      NEW i \in DOMAIN sent', NEW k \in DOMAIN sent',
                      Unsubscribes(n, streams[s].job), streams[s].by < n,
                      streams[s].job \notin overtaken', sent'[i] = Response(n), i < k,
                      sent'[k] = Push(s)
               PROVE  FALSE
    BY <1>3 DEF QuietAfterUnsubscribe
  <2>1. CASE k \in DOMAIN sent
    <3>1. i \in DOMAIN sent /\ sent'[i] = sent[i] /\ sent'[k] = sent[k]
      <4>1. CASE sent' = sent
        BY <2>1, <4>1
      <4>2. CASE sent' = Append(sent, x)
        <5>1. /\ Len(sent) \in Nat /\ DOMAIN sent = 1..Len(sent)
              /\ DOMAIN sent' = DOMAIN sent \cup {Len(sent) + 1}
              /\ \A l \in DOMAIN sent : sent'[l] = sent[l]
          BY <1>1, <4>2, OutboxGrows
        <5> QED
          BY <2>1, <5>1
      <4> QED
        BY <4>1, <4>2
    <3>2. sent[i] = Response(n) /\ sent[k] = Push(s) /\ streams[s].job \notin overtaken
      BY <3>1
    <3>3. QuietAfterUnsubscribe
      BY DEF RpcInv
    <3> QED
      BY <2>1, <3>1, <3>2, <3>3 DEF QuietAfterUnsubscribe
  <2>2. CASE k \notin DOMAIN sent
    <3>1. /\ sent' # sent /\ k = Len(sent) + 1 /\ sent'[k] = x
          /\ i \in DOMAIN sent /\ sent'[i] = sent[i]
      <4>1. sent' = Append(sent, x)
        BY <2>2
      <4>2. /\ Len(sent) \in Nat /\ DOMAIN sent = 1..Len(sent)
            /\ DOMAIN sent' = DOMAIN sent \cup {Len(sent) + 1}
            /\ sent'[Len(sent) + 1] = x /\ \A l \in DOMAIN sent : sent'[l] = sent[l]
        BY <1>1, <4>1, OutboxGrows
      <4>3. sent' # sent
        BY <2>2
      <4>4. k = Len(sent) + 1 /\ i \in DOMAIN sent
        BY <2>2, <4>2
      <4> QED
        BY <4>2, <4>3, <4>4
    <3>2. Live(s) /\ Answered(n) # {}
      BY <3>1 DEF Answered
    <3> QED
      BY <3>2 DEF RpcInv, StoppedByUnsubscribe
  <2> QED
    BY <2>1, <2>2
<1> QED
  BY <1>2, <1>4, <1>5

\* What is ready after a turn is still about something there is.
LEMMA TurnKnown ==
    ASSUME RpcInv, ready # <<>>,
           NEW extra \in Seq({"wake", "forget"} \X Nat), ready' = Tail(ready) \o extra,
           UNCHANGED received,
           \A s \in DOMAIN streams :
              s \in DOMAIN streams' /\ (streams[s].at = "over" => streams'[s].at = "over"),
           \A k \in DOMAIN extra :
              /\ extra[k][2] \in DOMAIN streams'
              /\ extra[k][1] = "forget" => streams'[extra[k][2]].at = "over"
    PROVE  ReadyIsKnown'
<1>1. ready \in Seq(Steps)
  BY DEF RpcInv, RpcTypeOK
<1>2. \A i \in DOMAIN ready' :
           \/ i + 1 \in DOMAIN ready /\ ready'[i] = ready[i + 1]
           \/ \E k \in DOMAIN extra : ready'[i] = extra[k]
  BY <1>1, QueueTurns
<1> SUFFICES ASSUME NEW i \in DOMAIN ready'
             PROVE  /\ ready'[i][1] = "handle" =>
                          ready'[i][2] \in DOMAIN received /\ Numbered(ready'[i][2])
                    /\ ready'[i][1] # "handle" => ready'[i][2] \in DOMAIN streams'
                    /\ ready'[i][1] = "forget" => streams'[ready'[i][2]].at = "over"
  BY DEF ReadyIsKnown, Numbered
<1>3. CASE i + 1 \in DOMAIN ready /\ ready'[i] = ready[i + 1]
  BY <1>3 DEF RpcInv, ReadyIsKnown
<1>4. ASSUME NEW k \in DOMAIN extra, ready'[i] = extra[k]
      PROVE  /\ ready'[i][1] # "handle" /\ ready'[i][2] \in DOMAIN streams'
             /\ ready'[i][1] = "forget" => streams'[ready'[i][2]].at = "over"
  <2>1. extra[k] \in {"wake", "forget"} \X Nat
    OBVIOUS
  <2> QED
    BY <1>4, <2>1
<1> QED
  BY <1>2, <1>3, <1>4

\* Task.cancel changes where a stream is, and nothing else of it; one that was over
\* stays over and one that was cancelled is alive no more.
LEMMA CancelKeeps ==
    ASSUME RpcTypeOK, NEW S, streams' = Cancelled(S)
    PROVE  /\ streams' \in Seq(Streams) /\ DOMAIN streams' = DOMAIN streams
           /\ Len(streams') = Len(streams)
           /\ \A s \in DOMAIN streams :
                /\ streams'[s].job = streams[s].job /\ streams'[s].by = streams[s].by
                /\ streams[s].at = "over" => streams'[s].at = "over"
                /\ Live(s)' => Live(s) /\ s \notin S
<1>1. streams \in Seq(Streams) /\ DOMAIN streams = 1..Len(streams) /\ Len(streams) \in Nat
  BY DEF RpcTypeOK, Streams
<1>2. ASSUME NEW s \in DOMAIN streams
      PROVE  /\ streams'[s] \in Streams
             /\ streams'[s].job = streams[s].job /\ streams'[s].by = streams[s].by
             /\ streams[s].at = "over" => streams'[s].at = "over"
             /\ Live(s)' => Live(s) /\ s \notin S
  <2>1. streams[s] \in Streams
    BY <1>1
  <2>2. streams[s].at \in Stages
    BY <2>1 DEF Streams
  <2>3. CASE s \in S /\ streams[s].at = "new"
    <3>1. streams'[s] = [streams[s] EXCEPT !.at = "stillborn"]
      BY <2>3 DEF Cancelled
    <3> QED
      BY <2>1, <2>3, <3>1 DEF Live, Streams, Stages
  <2>4. CASE s \in S /\ streams[s].at = "running"
    <3>1. streams'[s] = [streams[s] EXCEPT !.at = "cancelled"]
      BY <2>4 DEF Cancelled
    <3> QED
      BY <2>1, <2>4, <3>1 DEF Live, Streams, Stages
  <2>5. CASE ~(s \in S /\ streams[s].at \in {"new", "running"})
    <3>1. streams'[s] = streams[s]
      BY <2>5 DEF Cancelled
    <3> QED
      BY <2>1, <2>5, <3>1 DEF Live
  <2> QED
    BY <2>3, <2>4, <2>5
<1>3. streams' \in [1..Len(streams) -> Streams]
  BY <1>1, <1>2 DEF Cancelled
<1> QED
  BY <1>1, <1>2, <1>3

\* The streams woken are among those cancelled.
LEMMA WakesAreKnown ==
    ASSUME NEW S \in SUBSET DOMAIN streams, RpcTypeOK, NEW woken \in Woken(S)
    PROVE  LET extra == [i \in DOMAIN woken |-> <<"wake", woken[i]>>] IN
           /\ extra \in Seq({"wake", "forget"} \X Nat)
           /\ \A k \in DOMAIN extra : extra[k][1] = "wake" /\ extra[k][2] \in DOMAIN streams
<1> DEFINE W == {s \in S : streams[s].at = "running"}
           extra == [i \in DOMAIN woken |-> <<"wake", woken[i]>>]
<1>1. woken \in [1..Cardinality(W) -> W]
  BY DEF Woken
<1>2. W \subseteq DOMAIN streams /\ DOMAIN streams = 1..Len(streams) /\ Len(streams) \in Nat
  BY DEF RpcTypeOK, Streams
<1>3. IsFiniteSet(W)
  <2>1. IsFiniteSet(1..Len(streams))
    BY <1>2, FS_Interval
  <2> QED
    BY <1>2, <2>1, FS_Subset
<1>4. Cardinality(W) \in Nat
  BY <1>3, FS_CardinalityType
<1> HIDE DEF W
<1>5. \A i \in DOMAIN woken : woken[i] \in Nat /\ woken[i] \in DOMAIN streams
  BY <1>1, <1>2
<1>6. extra \in [1..Cardinality(W) -> {"wake", "forget"} \X Nat]
  BY <1>1, <1>5
<1> QED
  BY <1>4, <1>5, <1>6

-----------------------------------------------------------------------------
(* The actions of a turn *)

\* A handler that touches no stream and no entry: any but the two of subscriptions.
LEMMA PlainHandlerKeeps ==
    ASSUME RpcInv, ready # <<>>, ready[1][1] = "handle", ready' = Tail(ready),
           UNCHANGED <<received, main, streams, held, pump, overtaken>>,
           \A j : ~Unsubscribes(ready[1][2], j),
           LET n == ready[1][2] IN
              \/ n \in Asked /\ sent' = Append(sent, Response(n)) /\ UNCHANGED waiting
              \/ n \notin Asked /\ UNCHANGED <<sent, waiting>>
              \/ /\ waiting' = waiting \cup {n} /\ UNCHANGED sent
                 /\ received[n].kind \in {"request", "notification"}
                 /\ received[n].method.name = "call"
    PROVE  RpcInv'
<1> DEFINE n == ready[1][2]
           extra == <<>>
<1>1. RpcTypeOK /\ ready \in Seq(Steps)
  BY DEF RpcInv, RpcTypeOK
<1>2. /\ extra \in Seq({"wake", "forget"} \X Nat) /\ ready' = Tail(ready) \o extra
      /\ DOMAIN extra = {}
  BY <1>1 DEF Steps
<1>3. n \in DOMAIN received /\ n \in Nat
  BY HandlerRunsOnce, <1>1 DEF RpcTypeOK, Message
<1> HIDE DEF n, extra
<1>4. /\ ready' \in Seq(Steps) /\ sent' \in Seq(Outgoing) /\ waiting' \subseteq DOMAIN received
      /\ InOrder' /\ AnsweredOnce' /\ NothingForgotten' /\ NoneComesLast'
  <2>1. /\ DOMAIN streams \subseteq DOMAIN streams'
        /\ \A s \in DOMAIN streams' :
              \/ s \in DOMAIN streams /\ streams'[s].by = streams[s].by
              \/ ready[1] = <<"handle", streams'[s].by>>
    OBVIOUS
  <2> QED
    BY <1>2, <2>1, TurnAccounts
<1>5. RpcTypeOK'
  BY <1>1, <1>4 DEF RpcTypeOK
<1>6. ReadyIsKnown'
  BY <1>2, TurnKnown
<1>7. EntriesAreRight'
  BY DEF RpcInv, EntriesAreRight
<1>8. CallsWait'
  BY <1>3 DEF RpcInv, CallsWait, n
<1>9. StreamsAreHeld' /\ StoppedByUnsubscribe' /\ QuietAfterUnsubscribe'
  <2> DEFINE x == Response(n)
  <2>1. x \in Outgoing
    BY <1>3, OutgoingTypes
  <2>2. \A s \in DOMAIN streams : x = Push(s) /\ sent' # sent => Live(s)
    BY OutgoingDiffers
  <2>3. \A m \in DOMAIN received, s \in DOMAIN streams :
           /\ x = Response(m) /\ Unsubscribes(m, streams[s].job)
           /\ streams[s].job \notin overtaken'
           => ~Live(s)'
    <3> SUFFICES ASSUME NEW m \in DOMAIN received, NEW s \in DOMAIN streams,
                        x = Response(m), Unsubscribes(m, streams[s].job)
                 PROVE  FALSE
      OBVIOUS
    <3>1. m = n
      BY OutgoingDiffers
    <3>2. ~Unsubscribes(n, streams[s].job)
      BY DEF n
    <3> QED
      BY <3>1, <3>2 DEF Unsubscribes
  <2>4. sent' = sent \/ sent' = Append(sent, x)
    BY DEF n
  <2>5. \A s \in DOMAIN streams :
           /\ streams'[s].job = streams[s].job /\ streams'[s].by = streams[s].by
           /\ Live(s)' /\ streams[s].job \notin overtaken' =>
                 Live(s) /\ held'[streams[s].job] = held[streams[s].job]
    BY DEF Live
  <2>6. /\ UNCHANGED received /\ DOMAIN streams' = DOMAIN streams
        /\ overtaken \subseteq overtaken'
    OBVIOUS
  <2> HIDE DEF x
  <2> QED
    BY <2>1, <2>2, <2>3, <2>4, <2>5, <2>6, StreamsSettle
<1> QED
  BY <1>4, <1>5, <1>6, <1>7, <1>8, <1>9 DEF RpcInv

\* What a handler that settles puts into the outbox.
LEMMA SettledAnswers ==
    ASSUME NEW n \in DOMAIN received, Settled(n)
    PROVE  \/ n \in Asked /\ sent' = Append(sent, Response(n)) /\ UNCHANGED waiting
           \/ n \notin Asked /\ UNCHANGED <<sent, waiting>>
BY DEF Settled, Replied, Asked

LEMMA SubscribeKeeps ==
    ASSUME RpcInv, ready # <<>>, ready[1][1] = "handle",
           UNCHANGED <<received, main, pump, overtaken>>,
           received[ready[1][2]].kind \in {"request", "notification"},
           received[ready[1][2]].method.name = "job.subscribe",
           Subscribe(ready[1][2], received[ready[1][2]].method.job)
    PROVE  RpcInv'
<1> DEFINE n == ready[1][2]
           j == received[n].method.job
           t == Len(streams) + 1
           new == [job |-> j, by |-> n, at |-> "new", pushed |-> 0]
           extra == <<<<"wake", t>>>>
<1>1. RpcTypeOK /\ ready \in Seq(Steps) /\ streams \in Seq(Streams)
  BY DEF RpcInv, RpcTypeOK
<1>2. n \in DOMAIN received /\ n \in Nat
  BY HandlerRunsOnce, <1>1 DEF RpcTypeOK, Message
<1>3. j \in RpcJobs
  BY <1>1, <1>2, MessageShapes
<1>4. \/ n \in Asked /\ sent' = Append(sent, Response(n)) /\ UNCHANGED waiting
      \/ n \notin Asked /\ UNCHANGED <<sent, waiting>>
  BY <1>2, SettledAnswers DEF Subscribe
<1>5. \A k : ~Unsubscribes(n, k)
  BY DEF Unsubscribes
<1>6. CASE UNCHANGED <<streams, held>> /\ ready' = Tail(ready)
  BY <1>4, <1>5, <1>6, PlainHandlerKeeps
<1>7. CASE /\ held[j] = 0 /\ streams' = Append(streams, new)
           /\ held' = [held EXCEPT ![j] = t]
           /\ ready' = Append(Tail(ready), <<"wake", t>>)
  <2>1. /\ Len(streams) \in Nat /\ DOMAIN streams = 1..Len(streams)
        /\ new \in Streams /\ streams' \in Seq(Streams) /\ Len(streams') = t
        /\ DOMAIN streams' = DOMAIN streams \cup {t} /\ t \notin DOMAIN streams
        /\ streams'[t] = new /\ \A s \in DOMAIN streams : streams'[s] = streams[s]
    <3>1. new \in Streams
      BY <1>2, <1>3 DEF Streams, Stages
    <3> HIDE DEF new, Streams
    <3>2. Len(streams) \in Nat /\ DOMAIN streams = 1..Len(streams) /\ Len(Append(streams, new)) = t
      BY <1>1, <3>1
    <3>3. t \notin DOMAIN streams
      BY <3>2
    <3>4. /\ streams' \in Seq(Streams) /\ DOMAIN streams' = DOMAIN streams \cup {t}
          /\ streams'[t] = new /\ \A s \in DOMAIN streams : streams'[s] = streams[s]
      BY <1>1, <1>7, <3>1, AppendSeen
    <3> QED
      BY <1>7, <3>1, <3>2, <3>3, <3>4
  <2>2. /\ extra \in Seq({"wake", "forget"} \X Nat) /\ ready' = Tail(ready) \o extra
        /\ \A k \in DOMAIN extra : extra[k] = <<"wake", t>>
    <3>1. <<"wake", t>> \in {"wake", "forget"} \X Nat
      BY <2>1
    <3>2. Tail(ready) \in Seq(Steps)
      BY <1>1
    <3> HIDE DEF t
    <3>3. /\ extra \in Seq({"wake", "forget"} \X Nat) /\ DOMAIN extra = {1} /\ extra[1] = <<"wake", t>>
          /\ Append(Tail(ready), <<"wake", t>>) = Tail(ready) \o extra
      BY <3>1, <3>2, OneReady
    <3> QED
      BY <1>7, <3>3
  <2>3. new.job = j /\ new.by = n /\ new.at = "new"
    OBVIOUS
  <2>4. ready[1] = <<"handle", n>>
    BY <1>1 DEF Steps
  <2>5. held' \in [RpcJobs -> 0..Len(streams')] /\ held'[j] = t
        /\ \A i \in RpcJobs : i # j => held'[i] = held[i]
    <3>1. held \in [RpcJobs -> 0..Len(streams)]
      BY <1>1 DEF RpcTypeOK
    <3>2. t \in 0..Len(streams') /\ 0..Len(streams) \subseteq 0..Len(streams')
      BY <2>1
    <3> QED
      BY <1>3, <1>7, <3>1, <3>2
  <2> HIDE DEF n, j, t, new, extra
  <2>6. /\ ready' \in Seq(Steps) /\ sent' \in Seq(Outgoing) /\ waiting' \subseteq DOMAIN received
        /\ InOrder' /\ AnsweredOnce' /\ NothingForgotten' /\ NoneComesLast'
    <3>1. /\ DOMAIN streams \subseteq DOMAIN streams'
          /\ \A s \in DOMAIN streams' :
                \/ s \in DOMAIN streams /\ streams'[s].by = streams[s].by
                \/ ready[1] = <<"handle", streams'[s].by>>
      BY <2>1, <2>3, <2>4
    <3> QED
      BY <1>4, <2>2, <3>1, TurnAccounts DEF n
  <2>7. RpcTypeOK'
    BY <1>1, <2>1, <2>5, <2>6 DEF RpcTypeOK
  <2>8. ReadyIsKnown'
    <3>1. \A k \in DOMAIN extra : extra[k][1] = "wake" /\ extra[k][2] = t
      BY <2>2
    <3>2. t \in DOMAIN streams'
      BY <2>1
    <3> QED
      BY <2>1, <2>2, <3>1, <3>2, TurnKnown
  <2>9. EntriesAreRight'
    <3>1. \A s \in DOMAIN streams' : streams'[s].by \in DOMAIN received
      BY <1>2, <2>1, <2>3 DEF RpcInv, EntriesAreRight
    <3>2. \A i \in RpcJobs : held'[i] # 0 => streams'[held'[i]].job = i
      <4> SUFFICES ASSUME NEW i \in RpcJobs, held'[i] # 0 PROVE streams'[held'[i]].job = i
        OBVIOUS
      <4>1. CASE i = j
        BY <2>1, <2>3, <2>5, <4>1
      <4>2. CASE i # j
        <5>1. held'[i] = held[i] /\ held[i] \in DOMAIN streams
          BY <1>1, <2>1, <2>5, <4>2 DEF RpcTypeOK
        <5> QED
          BY <2>1, <5>1 DEF RpcInv, EntriesAreRight
      <4> QED
        BY <4>1, <4>2
    <3> QED
      BY <3>1, <3>2 DEF EntriesAreRight
  <2>10. CallsWait'
    BY <1>4 DEF RpcInv, CallsWait
  <2>11. \A s \in DOMAIN streams : Live(s)' <=> Live(s)
    BY <2>1 DEF Live
  <2>12. StreamsAreHeld'
    <3> SUFFICES ASSUME NEW s \in DOMAIN streams', Live(s)', streams'[s].job \notin overtaken
                 PROVE  held'[streams'[s].job] = s
      BY DEF StreamsAreHeld
    <3>1. CASE s = t
      BY <2>1, <2>3, <2>5, <3>1
    <3>2. CASE s \in DOMAIN streams
      <4>1. held[streams[s].job] = s /\ streams[s].job \in RpcJobs
        <5>1. streams[s] \in Streams /\ streams'[s].job = streams[s].job /\ Live(s)
          BY <1>1, <2>1, <2>11, <3>2
        <5>2. StreamsAreHeld /\ overtaken' = overtaken
          BY DEF RpcInv
        <5> QED
          BY <3>2, <5>1, <5>2 DEF StreamsAreHeld, Streams
      <4>2. s # 0
        BY <2>1, <3>2
      <4>3. streams[s].job # j
        BY <1>7, <4>1, <4>2
      <4> QED
        BY <2>1, <2>5, <3>2, <4>1, <4>3
    <3> QED
      BY <2>1, <3>1, <3>2
  <2>13. StoppedByUnsubscribe'
    <3> SUFFICES ASSUME NEW m \in DOMAIN received, NEW s \in DOMAIN streams',
                        Unsubscribes(m, streams'[s].job), streams'[s].by < m,
                        streams'[s].job \notin overtaken, Answered(m)' # {}
                 PROVE  ~Live(s)'
      BY DEF StoppedByUnsubscribe, Unsubscribes
    <3>1. m # n
      BY <1>5
    <3>2. Answered(m) # {}
      <4>1. Response(n) \in Outgoing /\ Response(n) # Response(m)
        BY <1>2, <3>1, OutgoingTypes, OutgoingDiffers
      <4> QED
        BY <1>1, <1>4, <4>1, AnswersKept
    <3>3. CASE s \in DOMAIN streams
      BY <2>1, <2>11, <3>2, <3>3 DEF RpcInv, StoppedByUnsubscribe
    <3>4. CASE s = t
      <4>1. n < m /\ Numbered(m)
        BY <2>1, <2>3, <3>4 DEF Unsubscribes, Numbered
      <4>2. m < n
        BY <3>2, <4>1, HandlerRunsOnce DEF n
      <4>3. m \in Nat
        BY <1>1 DEF RpcTypeOK, Message
      <4> QED
        BY <1>2, <4>1, <4>2, <4>3
    <3> QED
      BY <2>1, <3>3, <3>4
  <2>14. QuietAfterUnsubscribe'
    <3> SUFFICES ASSUME NEW m \in DOMAIN received, NEW s \in DOMAIN streams',
                        NEW i \in DOMAIN sent', NEW k \in DOMAIN sent',
                        Unsubscribes(m, streams'[s].job), streams'[s].by < m,
                        streams'[s].job \notin overtaken, sent'[i] = Response(m), i < k,
                        sent'[k] = Push(s)
                 PROVE  FALSE
      BY DEF QuietAfterUnsubscribe, Unsubscribes
    <3>1. Response(n) \in Outgoing /\ Response(n) # Push(s) /\ sent \in Seq(Outgoing)
      BY <1>1, <1>2, OutgoingTypes, OutgoingDiffers DEF RpcTypeOK
    <3>2. /\ Len(sent) \in Nat /\ DOMAIN sent = 1..Len(sent)
          /\ \A l \in DOMAIN sent' :
                \/ l \in DOMAIN sent /\ sent'[l] = sent[l]
                \/ l = Len(sent) + 1 /\ sent'[l] = Response(n)
      <4>1. CASE sent' = sent
        BY <3>1, <4>1
      <4>2. CASE sent' = Append(sent, Response(n))
        BY <3>1, <4>2, OutboxGrows
      <4> QED
        BY <1>4, <4>1, <4>2
    <3>3. k \in DOMAIN sent /\ sent[k] = Push(s)
      BY <3>1, <3>2
    <3>4. i \in DOMAIN sent /\ sent[i] = Response(m)
      BY <3>2, <3>3
    <3>5. s \in DOMAIN streams
      BY <3>3, OutgoingDiffers DEF RpcInv, AnsweredOnce
    <3>6. QuietAfterUnsubscribe
      BY DEF RpcInv
    <3> QED
      BY <2>1, <3>3, <3>4, <3>5, <3>6 DEF QuietAfterUnsubscribe
  <2> QED
    BY <2>6, <2>7, <2>8, <2>9, <2>10, <2>12, <2>13, <2>14 DEF RpcInv
<1> QED
  BY <1>6, <1>7 DEF Subscribe

\* job.unsubscribe: the stream the entry names is cancelled, and it is the only one
\* alive of its job.
LEMMA UnsubscribeKeeps ==
    ASSUME RpcInv, ready # <<>>, ready[1][1] = "handle",
           UNCHANGED <<received, main, pump, overtaken>>,
           received[ready[1][2]].kind \in {"request", "notification"},
           received[ready[1][2]].method.name = "job.unsubscribe",
           Unsubscribe(ready[1][2], received[ready[1][2]].method.job)
    PROVE  RpcInv'
<1> DEFINE n == ready[1][2]
           j == received[n].method.job
           S == {held[j]} \ {0}
           x == Response(n)
<1>1. RpcTypeOK /\ ready \in Seq(Steps) /\ streams \in Seq(Streams)
  BY DEF RpcInv, RpcTypeOK
<1>2. n \in DOMAIN received /\ n \in Nat
  BY HandlerRunsOnce, <1>1 DEF RpcTypeOK, Message
<1>3. j \in RpcJobs
  BY <1>1, <1>2, MessageShapes
<1>4. S \in SUBSET DOMAIN streams
  BY <1>1, <1>3 DEF RpcTypeOK, Streams
<1>5. PICK woken \in Woken(S) :
         ready' = Tail(ready) \o [i \in DOMAIN woken |-> <<"wake", woken[i]>>]
  BY DEF Unsubscribe
<1> DEFINE extra == [i \in DOMAIN woken |-> <<"wake", woken[i]>>]
<1>6. /\ extra \in Seq({"wake", "forget"} \X Nat)
      /\ \A k \in DOMAIN extra : extra[k][1] = "wake" /\ extra[k][2] \in DOMAIN streams
      /\ ready' = Tail(ready) \o extra
  BY <1>1, <1>4, <1>5, WakesAreKnown
<1>7. streams' = Cancelled(S) /\ held' = [held EXCEPT ![j] = 0] /\ Settled(n)
  BY DEF Unsubscribe
<1>8. \/ n \in Asked /\ sent' = Append(sent, x) /\ UNCHANGED waiting
      \/ n \notin Asked /\ UNCHANGED <<sent, waiting>>
  BY <1>2, <1>7, SettledAnswers
<1>9. /\ streams' \in Seq(Streams) /\ DOMAIN streams' = DOMAIN streams
      /\ Len(streams') = Len(streams)
      /\ \A s \in DOMAIN streams :
           /\ streams'[s].job = streams[s].job /\ streams'[s].by = streams[s].by
           /\ streams[s].at = "over" => streams'[s].at = "over"
           /\ Live(s)' => Live(s) /\ s \notin S
  BY <1>1, <1>7, CancelKeeps
<1>10. held' \in [RpcJobs -> 0..Len(streams')] /\ held'[j] = 0
       /\ \A i \in RpcJobs : i # j => held'[i] = held[i]
  <2>1. held \in [RpcJobs -> 0..Len(streams)] /\ 0 \in 0..Len(streams)
    BY <1>1 DEF RpcTypeOK
  <2> HIDE DEF j
  <2>2. held' \in [RpcJobs -> 0..Len(streams)]
    BY <1>3, <1>7, <2>1
  <2> QED
    BY <1>3, <1>7, <1>9, <2>1, <2>2
<1>11. \A s \in DOMAIN streams :
          streams[s].job = j /\ j \notin overtaken /\ Live(s) => s \in S
  <2> SUFFICES ASSUME NEW s \in DOMAIN streams,
                      streams[s].job = j, j \notin overtaken, Live(s)
               PROVE  s \in S
    OBVIOUS
  <2>1. held[j] = s
    BY DEF RpcInv, StreamsAreHeld
  <2>2. s # 0
    BY <1>1
  <2> QED
    BY <2>1, <2>2
<1>12. /\ \A m : x = Response(m) => m = n
       /\ \A s : x # Push(s)
       /\ x \in Outgoing
  BY <1>2, OutgoingTypes, OutgoingDiffers
<1>13. \A i : Unsubscribes(n, i) => i = j
  BY DEF Unsubscribes
<1> HIDE DEF S, x, extra, j
<1>14. /\ ready' \in Seq(Steps) /\ sent' \in Seq(Outgoing) /\ waiting' \subseteq DOMAIN received
       /\ InOrder' /\ AnsweredOnce' /\ NothingForgotten' /\ NoneComesLast'
  BY <1>6, <1>8, <1>9, TurnAccounts DEF x
<1> HIDE DEF n
<1>15. RpcTypeOK'
  BY <1>1, <1>9, <1>10, <1>14 DEF RpcTypeOK
<1>16. ReadyIsKnown'
  <2>1. \A k \in DOMAIN extra :
           /\ extra[k][2] \in DOMAIN streams'
           /\ extra[k][1] = "forget" => streams'[extra[k][2]].at = "over"
    BY <1>6, <1>9
  <2> QED
    BY <1>6, <1>9, <2>1, TurnKnown
<1>17. EntriesAreRight'
  <2>1. \A s \in DOMAIN streams' : streams'[s].by \in DOMAIN received
    BY <1>9 DEF RpcInv, EntriesAreRight
  <2>2. ASSUME NEW i \in RpcJobs, held'[i] # 0
        PROVE  streams'[held'[i]].job = i
    <3>1. i # j /\ held'[i] = held[i] /\ held[i] \in DOMAIN streams
      BY <1>1, <1>10, <2>2 DEF RpcTypeOK, Streams
    <3> QED
      BY <1>9, <2>2, <3>1 DEF RpcInv, EntriesAreRight
  <2> QED
    BY <2>1, <2>2 DEF EntriesAreRight
<1>18. CallsWait'
  BY <1>8 DEF RpcInv, CallsWait
<1>19. StreamsAreHeld' /\ StoppedByUnsubscribe' /\ QuietAfterUnsubscribe'
  <2>1. \A s \in DOMAIN streams :
           /\ streams'[s].job = streams[s].job /\ streams'[s].by = streams[s].by
           /\ Live(s)' /\ streams[s].job \notin overtaken' =>
                 Live(s) /\ held'[streams[s].job] = held[streams[s].job]
    <3> SUFFICES ASSUME NEW s \in DOMAIN streams, Live(s)', streams[s].job \notin overtaken'
                 PROVE  Live(s) /\ held'[streams[s].job] = held[streams[s].job]
      BY <1>9
    <3>1. Live(s) /\ s \notin S
      BY <1>9
    <3>2. streams[s].job # j
      <4>1. streams[s].job \notin overtaken
        OBVIOUS
      <4> QED
        BY <1>11, <3>1, <4>1
    <3>3. streams[s].job \in RpcJobs
      <4>1. streams[s] \in Streams
        BY <1>1
      <4> QED
        BY <4>1 DEF Streams
    <3> QED
      BY <1>10, <3>1, <3>2, <3>3
  <2>2. \A m \in DOMAIN received, s \in DOMAIN streams :
           /\ x = Response(m) /\ Unsubscribes(m, streams[s].job)
           /\ streams[s].job \notin overtaken'
           => ~Live(s)'
    <3> SUFFICES ASSUME NEW m \in DOMAIN received, NEW s \in DOMAIN streams,
                        x = Response(m), Unsubscribes(m, streams[s].job),
                        streams[s].job \notin overtaken', Live(s)'
                 PROVE  FALSE
      OBVIOUS
    <3>1. Unsubscribes(n, streams[s].job)
      BY <1>12 DEF Unsubscribes
    <3>2. streams[s].job = j
      BY <1>13, <3>1
    <3>3. Live(s) /\ s \notin S
      BY <1>9
    <3> QED
      BY <1>11, <3>2, <3>3
  <2>3. UNCHANGED received /\ DOMAIN streams' = DOMAIN streams /\ overtaken \subseteq overtaken'
    BY <1>9
  <2>4. sent' = sent \/ sent' = Append(sent, x)
    BY <1>8
  <2>5. \A s \in DOMAIN streams : x = Push(s) /\ sent' # sent => Live(s)
    BY <1>12
  <2> QED
    BY <1>12, <2>1, <2>2, <2>3, <2>4, <2>5, StreamsSettle
<1> QED
  BY <1>14, <1>15, <1>16, <1>17, <1>18, <1>19 DEF RpcInv

LEMMA HandleKeeps ==
    ASSUME RpcInv, ready # <<>>, ready[1][1] = "handle", Handle(ready[1][2]),
           UNCHANGED <<received, main, pump, overtaken>>
    PROVE  RpcInv'
<1> DEFINE n == ready[1][2]
           m == received[n]
<1>1. n \in DOMAIN received /\ Numbered(n) /\ RpcTypeOK
  BY HandlerRunsOnce DEF RpcInv
<1>2. /\ m.kind \in {"request", "notification", "misnumbered"}
      /\ m.kind # "misnumbered" => m.method.name \in {"job.subscribe", "job.unsubscribe", "call"}
  BY <1>1, MessageShapes DEF Numbered
<1>3. CASE m.kind = "misnumbered"
  <2>1. sent' = Append(sent, Response(n)) /\ ready' = Tail(ready) /\ UNCHANGED <<waiting, streams, held>>
    BY <1>3 DEF Handle
  <2>2. n \in Asked /\ \A j : ~Unsubscribes(n, j)
    BY <1>1, <1>3 DEF Asked, Unsubscribes
  <2> QED
    BY <2>1, <2>2, PlainHandlerKeeps
<1>4. CASE m.kind # "misnumbered" /\ m.method.name = "job.subscribe"
  <2>1. Subscribe(n, m.method.job)
    BY <1>4 DEF Handle
  <2> QED
    BY <1>2, <1>4, <2>1, SubscribeKeeps
<1>5. CASE m.kind # "misnumbered" /\ m.method.name = "job.unsubscribe"
  <2>1. Unsubscribe(n, m.method.job)
    BY <1>5 DEF Handle
  <2> QED
    BY <1>2, <1>5, <2>1, UnsubscribeKeeps
<1>6. CASE m.kind # "misnumbered" /\ m.method.name = "call"
  <2>1. Invoke(n)
    BY <1>6 DEF Handle
  <2>2. /\ ready' = Tail(ready) /\ UNCHANGED <<streams, held>>
        /\ Settled(n) \/ (waiting' = waiting \cup {n} /\ UNCHANGED sent)
    BY <2>1 DEF Invoke
  <2>3. \A j : ~Unsubscribes(n, j)
    BY <1>6 DEF Unsubscribes
  <2>4. \/ n \in Asked /\ sent' = Append(sent, Response(n)) /\ UNCHANGED waiting
        \/ n \notin Asked /\ UNCHANGED <<sent, waiting>>
        \/ waiting' = waiting \cup {n} /\ UNCHANGED sent
    BY <1>1, <2>2, SettledAnswers
  <2> QED
    BY <1>2, <1>6, <2>2, <2>3, <2>4, PlainHandlerKeeps
<1> QED
  BY <1>2, <1>3, <1>4, <1>5, <1>6

\* A stream starts, or ends because it was cancelled and is to be forgotten.
LEMMA WakeKeeps ==
    ASSUME RpcInv, ready # <<>>, ready[1][1] = "wake", Wake(ready[1][2]),
           UNCHANGED <<received, main, pump, overtaken>>
    PROVE  RpcInv'
<1> DEFINE s == ready[1][2]
           at == IF streams[s].at = "new" THEN "running" ELSE "over"
           extra == IF streams[s].at = "new" THEN <<>> ELSE <<<<"forget", s>>>>
<1>1. RpcTypeOK /\ ready \in Seq(Steps) /\ streams \in Seq(Streams) /\ 1 \in DOMAIN ready
  BY DEF RpcInv, RpcTypeOK, Steps
<1>2. s \in DOMAIN streams /\ s \in Nat
  BY <1>1 DEF RpcInv, ReadyIsKnown, Steps
<1>3. streams' = [streams EXCEPT ![s].at = at] /\ UNCHANGED <<waiting, held, sent>>
  BY DEF Wake
<1>4. /\ extra \in Seq({"wake", "forget"} \X Nat) /\ ready' = Tail(ready) \o extra
      /\ \A k \in DOMAIN extra : extra[k] = <<"forget", s>> /\ streams[s].at # "new"
  <2>1. Tail(ready) \in Seq(Steps)
    BY <1>1
  <2>2. CASE streams[s].at = "new"
    <3>1. ready' = Tail(ready) /\ extra = <<>>
      BY <2>2 DEF Wake
    <3> QED
      BY <2>1, <3>1
  <2>3. CASE streams[s].at # "new"
    <3>1. ready' = Append(Tail(ready), <<"forget", s>>) /\ extra = <<<<"forget", s>>>>
      BY <2>3 DEF Wake
    <3>2. <<"forget", s>> \in {"wake", "forget"} \X Nat
      BY <1>2
    <3> HIDE DEF s, extra
    <3>3. /\ extra \in Seq({"wake", "forget"} \X Nat) /\ DOMAIN extra = {1} /\ extra[1] = <<"forget", s>>
          /\ Append(Tail(ready), <<"forget", s>>) = Tail(ready) \o extra
      BY <2>1, <3>1, <3>2, OneReady
    <3> QED
      BY <2>3, <3>1, <3>3
  <2> QED
    BY <2>2, <2>3
<1>5. at \in {"running", "over"} /\ (at = "running" => streams[s].at = "new")
      /\ (streams[s].at # "new" => at = "over")
  OBVIOUS
<1> HIDE DEF s, at, extra
<1>6. /\ streams' \in Seq(Streams) /\ DOMAIN streams' = DOMAIN streams
      /\ Len(streams') = Len(streams)
      /\ streams'[s] = [streams[s] EXCEPT !.at = at] /\ streams'[s].at = at
      /\ \A t \in DOMAIN streams : t # s => streams'[t] = streams[t]
      /\ \A t \in DOMAIN streams :
           /\ streams'[t].job = streams[t].job /\ streams'[t].by = streams[t].by
  <2>1. streams[s] \in Streams /\ at \in Stages
    BY <1>1, <1>2, <1>5 DEF Stages
  <2>2. [streams[s] EXCEPT !.at = at] \in Streams
    BY <2>1 DEF Streams
  <2>3. streams' = [streams EXCEPT ![s] = [streams[s] EXCEPT !.at = at]]
    BY <1>3
  <2> QED
    <3>1. [streams[s] EXCEPT !.at = at].job = streams[s].job
      BY <2>1 DEF Streams
    <3>2. /\ [streams[s] EXCEPT !.at = at].by = streams[s].by
          /\ [streams[s] EXCEPT !.at = at].at = at
      BY <2>1 DEF Streams
    <3> PICK new \in Streams : /\ new = [streams[s] EXCEPT !.at = at]
                               /\ new.job = streams[s].job /\ new.by = streams[s].by /\ new.at = at
      BY <2>2, <3>1, <3>2
    <3> HIDE DEF Streams
    <3>3. streams' = [streams EXCEPT ![s] = new]
      BY <2>3
    <3>4. /\ streams' \in Seq(Streams) /\ DOMAIN streams' = DOMAIN streams
          /\ Len(streams') = Len(streams) /\ streams'[s] = new
          /\ \A k \in DOMAIN streams : k # s => streams'[k] = streams[k]
      BY <1>1, <1>2, <3>3, UpdateSeen
    <3>5. ASSUME NEW t \in DOMAIN streams
          PROVE  streams'[t].job = streams[t].job /\ streams'[t].by = streams[t].by
      BY <3>4
    <3> QED
      BY <3>4, <3>5
<1>7. \A t \in DOMAIN streams : Live(t)' => Live(t)
  BY <1>5, <1>6 DEF Live
<1>8. /\ ready' \in Seq(Steps) /\ sent' \in Seq(Outgoing) /\ waiting' \subseteq DOMAIN received
      /\ InOrder' /\ AnsweredOnce' /\ NothingForgotten' /\ NoneComesLast'
  BY <1>3, <1>4, <1>6, TurnAccounts
<1>9. RpcTypeOK'
  BY <1>1, <1>3, <1>6, <1>8 DEF RpcTypeOK
<1>10. ReadyIsKnown'
  <2>1. \A t \in DOMAIN streams :
           t \in DOMAIN streams' /\ (streams[t].at = "over" => streams'[t].at = "over")
    BY <1>5, <1>6
  <2>2. \A k \in DOMAIN extra :
           /\ extra[k][2] \in DOMAIN streams'
           /\ extra[k][1] = "forget" => streams'[extra[k][2]].at = "over"
    <3> SUFFICES ASSUME NEW k \in DOMAIN extra
                 PROVE  extra[k][2] \in DOMAIN streams' /\ streams'[extra[k][2]].at = "over"
      OBVIOUS
    <3>1. extra[k][2] = s /\ streams[s].at # "new"
      BY <1>4
    <3>2. at = "over" /\ streams'[s].at = at /\ s \in DOMAIN streams'
      BY <1>2, <1>5, <1>6, <3>1
    <3> QED
      BY <3>1, <3>2
  <2> QED
    BY <1>4, <2>1, <2>2, TurnKnown
<1>11. EntriesAreRight'
  <2>1. \A j \in RpcJobs : held[j] # 0 => held[j] \in DOMAIN streams
    BY <1>1 DEF RpcTypeOK, Streams
  <2> QED
    BY <1>3, <1>6, <2>1 DEF RpcInv, EntriesAreRight
<1>12. CallsWait'
  BY <1>3 DEF RpcInv, CallsWait
<1>13. StreamsAreHeld' /\ StoppedByUnsubscribe' /\ QuietAfterUnsubscribe'
  <2>1. None \in Outgoing
    BY OutgoingTypes
  <2>2. \A t \in DOMAIN streams :
           /\ streams'[t].job = streams[t].job /\ streams'[t].by = streams[t].by
           /\ Live(t)' /\ streams[t].job \notin overtaken' =>
                 Live(t) /\ held'[streams[t].job] = held[streams[t].job]
    BY <1>3, <1>6, <1>7
  <2>3. /\ \A t \in DOMAIN streams : None = Push(t) /\ sent' # sent => Live(t)
        /\ \A n : None # Response(n)
    BY OutgoingDiffers
  <2>4. /\ UNCHANGED received /\ DOMAIN streams' = DOMAIN streams
        /\ overtaken \subseteq overtaken' /\ sent' = sent
    BY <1>3, <1>6
  <2> QED
    BY <2>1, <2>2, <2>3, <2>4, StreamsSettle
<1> QED
  BY <1>8, <1>9, <1>10, <1>11, <1>12, <1>13 DEF RpcInv

\* A stream that is over is forgotten: the entry of its job is gone, and if it named
\* another stream the job is one of those excepted.
LEMMA ForgetKeeps ==
    ASSUME RpcInv, ready # <<>>, ready[1][1] = "forget", Forget(ready[1][2]),
           UNCHANGED <<received, main, pump>>
    PROVE  RpcInv'
<1> DEFINE s == ready[1][2]
           j == streams[s].job
           extra == <<>>
<1>1. RpcTypeOK /\ ready \in Seq(Steps) /\ streams \in Seq(Streams) /\ 1 \in DOMAIN ready
  BY DEF RpcInv, RpcTypeOK, Steps
<1>2. s \in DOMAIN streams /\ streams[s].at = "over"
  BY <1>1 DEF RpcInv, ReadyIsKnown, Steps
<1>3. streams[s] \in Streams
  BY <1>1, <1>2
<1>4. j \in RpcJobs
  BY <1>3 DEF Streams
<1>5. /\ held' = [held EXCEPT ![j] = 0] /\ ready' = Tail(ready)
      /\ UNCHANGED <<waiting, streams, sent>>
      /\ overtaken' = IF held[j] \in {0, s} THEN overtaken ELSE overtaken \cup {j}
  BY DEF Forget
<1>6. /\ extra \in Seq({"wake", "forget"} \X Nat) /\ ready' = Tail(ready) \o extra
      /\ DOMAIN extra = {}
  BY <1>1, <1>5 DEF Steps
<1> HIDE DEF s, j, extra
<1>7. held' \in [RpcJobs -> 0..Len(streams)] /\ held'[j] = 0
      /\ \A i \in RpcJobs : i # j => held'[i] = held[i]
  <2>1. held \in [RpcJobs -> 0..Len(streams)] /\ 0 \in 0..Len(streams)
    BY <1>1 DEF RpcTypeOK
  <2> QED
    BY <1>4, <1>5, <2>1
<1>8. /\ ready' \in Seq(Steps) /\ sent' \in Seq(Outgoing) /\ waiting' \subseteq DOMAIN received
      /\ InOrder' /\ AnsweredOnce' /\ NothingForgotten' /\ NoneComesLast'
  BY <1>5, <1>6, TurnAccounts
<1>9. overtaken' \subseteq RpcJobs /\ overtaken \subseteq overtaken'
  BY <1>1, <1>4, <1>5 DEF RpcTypeOK
<1>10. RpcTypeOK'
  BY <1>1, <1>5, <1>7, <1>8, <1>9 DEF RpcTypeOK
<1>11. ReadyIsKnown'
  BY <1>5, <1>6, TurnKnown
<1>12. EntriesAreRight'
  BY <1>5, <1>7 DEF RpcInv, EntriesAreRight
<1>13. CallsWait'
  BY <1>5 DEF RpcInv, CallsWait
<1>14. StreamsAreHeld' /\ StoppedByUnsubscribe' /\ QuietAfterUnsubscribe'
  <2>1. None \in Outgoing
    BY OutgoingTypes
  <2>2. ASSUME NEW t \in DOMAIN streams, Live(t)', streams[t].job \notin overtaken'
        PROVE  Live(t) /\ held'[streams[t].job] = held[streams[t].job]
    <3>1. Live(t)
      BY <1>5, <2>2 DEF Live
    <3>2. t # s
      BY <1>2, <3>1 DEF Live, s
    <3>3. held[streams[t].job] = t /\ streams[t].job \notin overtaken
      BY <1>9, <2>2, <3>1 DEF RpcInv, StreamsAreHeld
    <3>4. t # 0
      BY <1>1 DEF Streams
    <3>5. streams[t].job # j
      BY <1>5, <2>2, <3>2, <3>3, <3>4
    <3>6. streams[t].job \in RpcJobs
      <4>1. streams[t] \in Streams
        BY <1>1
      <4> QED
        BY <4>1 DEF Streams
    <3> QED
      BY <1>7, <3>1, <3>5, <3>6
  <2>3. /\ \A t \in DOMAIN streams : None = Push(t) /\ sent' # sent => Live(t)
        /\ \A n : None # Response(n)
    BY OutgoingDiffers
  <2>4. /\ UNCHANGED received /\ DOMAIN streams' = DOMAIN streams
        /\ overtaken \subseteq overtaken' /\ sent' = sent
        /\ \A t \in DOMAIN streams :
              streams'[t].job = streams[t].job /\ streams'[t].by = streams[t].by
    BY <1>5, <1>9
  <2> QED
    BY <2>1, <2>2, <2>3, <2>4, StreamsSettle
<1> QED
  BY <1>8, <1>10, <1>11, <1>12, <1>13, <1>14 DEF RpcInv

LEMMA TurnKeeps == RpcInv /\ Turn => RpcInv'
<1> SUFFICES ASSUME RpcInv, Turn PROVE RpcInv'
  OBVIOUS
<1>1. ready # <<>> /\ ready \in Seq(Steps) /\ UNCHANGED <<received, main, pump>>
  BY DEF Turn, RpcInv, RpcTypeOK
<1>2. Head(ready) = ready[1] /\ ready[1] \in Steps
  BY <1>1 DEF Steps
<1>3. ready[1][1] \in {"handle", "wake", "forget"}
  BY <1>2 DEF Steps
<1>4. CASE ready[1][1] = "handle"
  <2>1. Handle(ready[1][2]) /\ UNCHANGED overtaken
    BY <1>2, <1>4 DEF Turn
  <2> QED
    BY <1>1, <1>4, <2>1, HandleKeeps
<1>5. CASE ready[1][1] = "wake"
  <2>1. Wake(ready[1][2]) /\ UNCHANGED overtaken
    BY <1>2, <1>5 DEF Turn
  <2> QED
    BY <1>1, <1>5, <2>1, WakeKeeps
<1>6. CASE ready[1][1] = "forget"
  <2>1. Forget(ready[1][2])
    BY <1>2, <1>6 DEF Turn
  <2> QED
    BY <1>1, <1>6, <2>1, ForgetKeeps
<1> QED
  BY <1>3, <1>4, <1>5, <1>6

-----------------------------------------------------------------------------
(* Everything else *)

\* What happens beside the loop's turn makes only streams ready, and puts into the
\* outbox the answer to a call that waited, or an event of a stream.
LEMMA AsideAccounts ==
    ASSUME RpcInv, NEW extra \in Seq({"wake", "forget"} \X Nat), ready' = ready \o extra,
           UNCHANGED received, DOMAIN streams' = DOMAIN streams,
           \A s \in DOMAIN streams :
              /\ streams'[s].by = streams[s].by
              /\ streams[s].at = "over" => streams'[s].at = "over",
           \A k \in DOMAIN extra :
              /\ extra[k][2] \in DOMAIN streams
              /\ extra[k][1] = "forget" => streams'[extra[k][2]].at = "over",
           \/ main' = main
           \/ main = "reading" /\ main' = "gathering"
           \/ main = "closing" /\ main' = "ended",
           NEW x \in Outgoing,
           \/ UNCHANGED <<sent, waiting>>
           \/ \E n \in waiting : /\ waiting' = waiting \ {n}
                                 /\ \/ n \notin Asked /\ UNCHANGED sent
                                    \/ n \in Asked /\ x = Response(n) /\ sent' = Append(sent, x)
           \/ \E s \in DOMAIN streams : x = Push(s) /\ sent' = Append(sent, x) /\ UNCHANGED waiting
    PROVE  /\ ready' \in Seq(Steps) /\ sent' \in Seq(Outgoing)
           /\ waiting' \subseteq waiting /\ main' \in {"reading", "gathering", "closing", "ended"}
           /\ ReadyIsKnown' /\ CallsWait'
           /\ InOrder' /\ AnsweredOnce' /\ NothingForgotten' /\ NoneComesLast'
<1>1. /\ RpcTypeOK /\ ready \in Seq(Steps) /\ sent \in Seq(Outgoing)
      /\ DOMAIN ready = 1..Len(ready) /\ Len(ready) \in Nat
      /\ main \in {"reading", "gathering", "closing", "ended"}
  BY DEF RpcInv, RpcTypeOK, Steps
<1>2. \A k \in DOMAIN extra : extra[k] \in {"wake", "forget"} \X Nat
  OBVIOUS
<1>3. extra \in Seq(Steps)
  BY DEF Steps
<1>4. /\ ready' \in Seq(Steps)
      /\ \A i \in DOMAIN ready' :
           \/ i \in DOMAIN ready /\ ready'[i] = ready[i]
           \/ \E k \in DOMAIN extra : ready'[i] = extra[k]
      /\ \A i \in DOMAIN ready : i \in DOMAIN ready' /\ ready'[i] = ready[i]
  BY <1>1, <1>3, QueueGrows
<1>5. \A i \in DOMAIN ready' : ready'[i][1] = "handle" => i \in DOMAIN ready /\ ready'[i] = ready[i]
  BY <1>2, <1>4
<1>6. /\ sent' \in Seq(Outgoing) /\ (sent' = sent \/ sent' = Append(sent, x))
      /\ waiting' \subseteq waiting
  BY <1>1, OutboxGrows
<1>7. Asked' = Asked
  BY DEF Asked
<1>8. \A m : /\ Answered(m) \subseteq Answered(m)'
             /\ Answered(m) \cap OnTheWire \subseteq (Answered(m) \cap OnTheWire)'
             /\ x # Response(m) => Answered(m)' = Answered(m)
             /\ Answered(m)' \ Answered(m) \subseteq {Len(sent) + 1}
  BY <1>1, <1>6, AnswersKept
<1>9. ReadyIsKnown'
  <2> SUFFICES ASSUME NEW i \in DOMAIN ready'
               PROVE  /\ ready'[i][1] = "handle" =>
                            ready'[i][2] \in DOMAIN received /\ Numbered(ready'[i][2])
                      /\ ready'[i][1] # "handle" => ready'[i][2] \in DOMAIN streams'
                      /\ ready'[i][1] = "forget" => streams'[ready'[i][2]].at = "over"
    BY DEF ReadyIsKnown, Numbered
  <2>1. CASE i \in DOMAIN ready /\ ready'[i] = ready[i]
    BY <2>1 DEF RpcInv, ReadyIsKnown
  <2>2. CASE \E k \in DOMAIN extra : ready'[i] = extra[k]
    BY <1>2, <2>2
  <2> QED
    BY <1>4, <2>1, <2>2
<1>10. CallsWait'
  BY <1>6 DEF RpcInv, CallsWait
<1>11. \A m : Answered(m)' # Answered(m) =>
          m \in waiting /\ m \notin waiting' /\ m \in Asked /\ Answered(m) = {}
  <2> SUFFICES ASSUME NEW m, Answered(m)' # Answered(m)
               PROVE  m \in waiting /\ m \notin waiting' /\ m \in Asked /\ Answered(m) = {}
    OBVIOUS
  <2>1. x = Response(m) /\ sent' # sent
    BY <1>8 DEF Answered
  <2>2. \A s : x # Push(s)
    BY <2>1, OutgoingDiffers
  <2>3. PICK n \in waiting : waiting' = waiting \ {n} /\ n \in Asked /\ x = Response(n)
    BY <2>1, <2>2
  <2>4. n = m
    BY <2>1, <2>3, OutgoingDiffers
  <2>5. Answered(m) = {}
    <3> SUFFICES ASSUME NEW i \in DOMAIN sent, sent[i] = Response(m) PROVE FALSE
      BY DEF Answered
    <3>1. \E l \in Asked \ waiting : sent[i] = Response(l)
      BY OutgoingDiffers DEF RpcInv, AnsweredOnce
    <3> QED
      BY <2>3, <2>4, <3>1, OutgoingDiffers
  <2> QED
    BY <2>3, <2>4, <2>5
<1>12. InOrder'
  <2> SUFFICES ASSUME NEW i \in DOMAIN ready', ready'[i][1] = "handle"
               PROVE  /\ \A k \in DOMAIN ready' :
                           ready'[k][1] = "handle" /\ i < k => ready'[i][2] < ready'[k][2]
                      /\ \A m \in DOMAIN received : Ran(m)' => m < ready'[i][2]
    BY DEF InOrder
  <2>1. \A m \in DOMAIN received : Ran(m)' => Ran(m)
    <3> SUFFICES ASSUME NEW m \in DOMAIN received, Ran(m)', ~Ran(m) PROVE FALSE
      OBVIOUS
    <3>1. m \notin waiting /\ m \notin waiting'
      BY <1>6 DEF Ran
    <3>2. Answered(m)' = Answered(m)
      BY <1>11, <3>1
    <3>3. Numbered(m)' <=> Numbered(m)
      BY DEF Numbered
    <3> QED
      BY <3>1, <3>2, <3>3 DEF Ran
  <2> QED
    BY <1>5, <2>1 DEF RpcInv, InOrder
<1>13. AnsweredOnce'
  <2>1. ASSUME NEW m \in DOMAIN received, NEW i \in Answered(m)', NEW k \in Answered(m)'
        PROVE  i = k
    <3>1. CASE Answered(m)' = Answered(m)
      BY <3>1 DEF RpcInv, AnsweredOnce
    <3>2. CASE Answered(m)' # Answered(m)
      BY <1>8, <1>11, <3>2
    <3> QED
      BY <3>1, <3>2
  <2>2. ASSUME NEW i \in DOMAIN sent'
        PROVE  \/ \E m \in Asked \ waiting' : sent'[i] = Response(m)
               \/ \E s \in DOMAIN streams' : sent'[i] = Push(s)
               \/ sent'[i] = None
    <3>1. CASE i \in DOMAIN sent /\ sent'[i] = sent[i]
      BY <1>6, <3>1 DEF RpcInv, AnsweredOnce
    <3>2. CASE sent' = Append(sent, x) /\ sent' # sent /\ sent'[i] = x
      <4>1. (\E n \in Asked : n \notin waiting' /\ x = Response(n)) \/ \E s \in DOMAIN streams : x = Push(s)
        BY <3>2
      <4> QED
        BY <3>2, <4>1
    <3>3. CASE sent' = Append(sent, x)
      <4>1. /\ DOMAIN sent' = DOMAIN sent \cup {Len(sent) + 1}
            /\ Len(sent) \in Nat /\ DOMAIN sent = 1..Len(sent)
            /\ sent'[Len(sent) + 1] = x /\ \A l \in DOMAIN sent : sent'[l] = sent[l]
        BY <1>1, <3>3, OutboxGrows
      <4>2. sent' # sent
        <5>1. Len(sent) + 1 \in DOMAIN sent' /\ Len(sent) + 1 \notin DOMAIN sent
          BY <4>1
        <5> QED
          BY <5>1
      <4> QED
        BY <3>1, <3>2, <3>3, <4>1, <4>2
    <3> QED
      BY <1>6, <3>1, <3>3
  <2> QED
    BY <1>7, <2>1, <2>2 DEF AnsweredOnce
<1>14. NothingForgotten'
  <2> SUFFICES ASSUME NEW m \in Asked
               PROVE  \/ Answered(m)' # {} \/ m \in waiting'
                      \/ \E i \in DOMAIN ready' : ready'[i] = <<"handle", m>>
    BY <1>7 DEF NothingForgotten
  <2>1. CASE Answered(m) # {}
    BY <1>8, <2>1
  <2>2. CASE m \in waiting /\ m \notin waiting'
    <3>1. x = Response(m) /\ sent' = Append(sent, x)
      BY <2>2
    <3>2. Len(sent) + 1 \in DOMAIN sent' /\ sent'[Len(sent) + 1] = x
      BY <1>1, <3>1, OutboxGrows
    <3> QED
      BY <3>1, <3>2 DEF Answered
  <2>3. CASE \E i \in DOMAIN ready : ready[i] = <<"handle", m>>
    BY <1>4, <2>3
  <2> QED
    BY <2>1, <2>2, <2>3 DEF RpcInv, NothingForgotten
<1>15. NoneComesLast'
  <2>1. CASE main \in {"reading", "gathering"}
    <3>1. \A i \in DOMAIN sent : sent[i] # None
      BY <2>1 DEF RpcInv, NoneComesLast
    <3>2. sent' = sent \/ x # None
      BY OutgoingDiffers
    <3>3. \A i \in DOMAIN sent' : sent'[i] # None
      <4>1. CASE sent' = sent
        BY <3>1, <4>1
      <4>2. CASE sent' = Append(sent, x) /\ x # None
        BY <1>1, <3>1, <4>2, OutboxGrows
      <4> QED
        BY <1>6, <3>2, <4>1, <4>2
    <3>4. main' \in {"reading", "gathering"}
      BY <2>1
    <3> QED
      BY <3>3, <3>4 DEF NoneComesLast
  <2>2. CASE main \in {"closing", "ended"}
    <3>1. /\ waiting = {} /\ \A i \in DOMAIN ready : ready[i][1] # "handle"
          /\ \A m \in Asked : Answered(m) \cap OnTheWire # {}
      BY <2>2 DEF RpcInv, NoneComesLast
    <3>2. waiting' = {} /\ \A i \in DOMAIN ready' : ready'[i][1] # "handle"
      BY <1>5, <1>6, <3>1
    <3>3. \A m \in Asked : (Answered(m) \cap OnTheWire)' # {}
      BY <1>8, <3>1
    <3>4. main' \in {"closing", "ended"}
      BY <2>2
    <3> QED
      BY <1>7, <3>2, <3>3, <3>4 DEF NoneComesLast
  <2> QED
    BY <1>1, <2>1, <2>2
<1>16. main' \in {"reading", "gathering", "closing", "ended"}
  BY <1>1
<1> QED
  BY <1>4, <1>6, <1>9, <1>10, <1>12, <1>13, <1>14, <1>15, <1>16

\* None of these touches a stream or an entry.
LEMMA StreamsUntouched ==
    ASSUME RpcInv, UNCHANGED <<received, streams, held, overtaken>>, NEW x \in Outgoing,
           \/ UNCHANGED sent
           \/ /\ sent' = Append(sent, x)
              /\ \A n, j : x = Response(n) => ~Unsubscribes(n, j)
              /\ \A s : x # Push(s)
    PROVE  EntriesAreRight' /\ StreamsAreHeld' /\ StoppedByUnsubscribe' /\ QuietAfterUnsubscribe'
<1>1. EntriesAreRight'
  BY DEF RpcInv, EntriesAreRight
<1>2. None \in Outgoing
  BY OutgoingTypes
<1>3. /\ DOMAIN streams' = DOMAIN streams /\ overtaken \subseteq overtaken'
      /\ \A s \in DOMAIN streams :
            /\ streams'[s].job = streams[s].job /\ streams'[s].by = streams[s].by
            /\ Live(s)' /\ streams[s].job \notin overtaken' =>
                  Live(s) /\ held'[streams[s].job] = held[streams[s].job]
  BY DEF Live
<1>4. CASE UNCHANGED sent
  <2>1. /\ \A s \in DOMAIN streams : None = Push(s) /\ sent' # sent => Live(s)
        /\ \A n : None # Response(n)
    BY OutgoingDiffers
  <2> QED
    BY <1>1, <1>2, <1>3, <1>4, <2>1, StreamsSettle
<1>5. CASE /\ sent' = Append(sent, x)
           /\ \A n, j : x = Response(n) => ~Unsubscribes(n, j)
           /\ \A s : x # Push(s)
  BY <1>1, <1>3, <1>5, StreamsSettle
<1> QED
  BY <1>4, <1>5

LEMMA PumpAndEndKeep == RpcInv /\ (ServeEnds \/ PumpStops \/ PumpBreaks) => RpcInv'
<1> SUFFICES ASSUME RpcInv, ServeEnds \/ PumpStops \/ PumpBreaks PROVE RpcInv'
  OBVIOUS
<1>1. /\ UNCHANGED <<received, ready, waiting, streams, held, sent, overtaken>>
      /\ main' = main \/ (main = "closing" /\ main' = "ended")
      /\ pump' \in {"pumping", "stopped", "broken"}
  BY DEF ServeEnds, PumpStops, PumpBreaks, RpcInv, RpcTypeOK
<1>2. RpcTypeOK'
  BY <1>1 DEF RpcInv, RpcTypeOK
<1>3. ReadyIsKnown' /\ CallsWait'
  BY <1>1 DEF RpcInv, ReadyIsKnown, Numbered, CallsWait
<1>4. Asked' = Asked /\ OnTheWire' = OnTheWire /\ \A n : Answered(n)' = Answered(n)
  BY <1>1 DEF Asked, OnTheWire, Answered
<1>5. InOrder'
  BY <1>1, <1>4 DEF RpcInv, InOrder, Ran, Numbered
<1>6. AnsweredOnce' /\ NothingForgotten'
  BY <1>1, <1>4 DEF RpcInv, AnsweredOnce, NothingForgotten
<1>7. NoneComesLast'
  BY <1>1, <1>4 DEF RpcInv, NoneComesLast
<1>8. EntriesAreRight' /\ StreamsAreHeld' /\ StoppedByUnsubscribe' /\ QuietAfterUnsubscribe'
  BY <1>1, OutgoingTypes, StreamsUntouched
<1> QED
  BY <1>2, <1>3, <1>5, <1>6, <1>7, <1>8 DEF RpcInv

LEMMA StopPumpKeeps == RpcInv /\ StopPump => RpcInv'
<1> SUFFICES ASSUME RpcInv, StopPump PROVE RpcInv'
  OBVIOUS
<1>1. /\ main = "gathering" /\ waiting = {} /\ \A i \in DOMAIN ready : ready[i][1] # "handle"
      /\ sent' = Append(sent, None) /\ main' = "closing"
      /\ UNCHANGED <<received, ready, waiting, streams, held, pump, overtaken>>
  BY DEF StopPump
<1>2. RpcTypeOK /\ sent \in Seq(Outgoing) /\ None \in Outgoing
  BY OutgoingTypes DEF RpcInv, RpcTypeOK
<1>3. /\ sent' \in Seq(Outgoing) /\ DOMAIN sent' = DOMAIN sent \cup {Len(sent) + 1}
      /\ sent'[Len(sent) + 1] = None /\ \A i \in DOMAIN sent : sent'[i] = sent[i]
      /\ Len(sent) \in Nat /\ DOMAIN sent = 1..Len(sent)
  BY <1>1, <1>2, OutboxGrows
<1>4. \A n : None # Response(n) /\ None # Push(n)
  BY OutgoingDiffers
<1>5. \A n : /\ Answered(n)' = Answered(n)
             /\ Answered(n) \cap OnTheWire \subseteq (Answered(n) \cap OnTheWire)'
  BY <1>1, <1>2, <1>4, AnswersKept
<1>6. RpcTypeOK'
  BY <1>1, <1>2, <1>3 DEF RpcTypeOK
<1>7. ReadyIsKnown' /\ CallsWait'
  BY <1>1 DEF RpcInv, ReadyIsKnown, Numbered, CallsWait
<1>8. Asked' = Asked
  BY <1>1 DEF Asked
<1>9. InOrder'
  BY <1>1 DEF InOrder
<1>10. AnsweredOnce' /\ NothingForgotten'
  BY <1>1, <1>3, <1>5, <1>8 DEF RpcInv, AnsweredOnce, NothingForgotten
<1>11. NoneComesLast'
  <2>1. ASSUME NEW n \in Asked PROVE Answered(n) \cap OnTheWire # {}
    <3>1. Answered(n) # {}
      BY <1>1, <2>1 DEF RpcInv, NothingForgotten
    <3>2. \A i \in DOMAIN sent : sent[i] # None
      BY <1>1 DEF RpcInv, NoneComesLast
    <3>3. Answered(n) \subseteq OnTheWire
      BY <1>3, <3>2 DEF Answered, OnTheWire
    <3> QED
      BY <3>1, <3>3
  <2>2. \A n \in Asked : (Answered(n) \cap OnTheWire)' # {}
    BY <1>5, <2>1
  <2> QED
    BY <1>1, <1>8, <2>2 DEF NoneComesLast
<1>12. EntriesAreRight' /\ StreamsAreHeld' /\ StoppedByUnsubscribe' /\ QuietAfterUnsubscribe'
  BY <1>1, <1>2, <1>4, StreamsUntouched
<1> QED
  BY <1>6, <1>7, <1>9, <1>10, <1>11, <1>12 DEF RpcInv

LEMMA ResumeKeeps ==
    ASSUME RpcInv, NEW n \in waiting, Resume(n)
    PROVE  RpcInv'
<1> DEFINE extra == <<>>
           x == Response(n)
<1>1. /\ waiting' = waiting \ {n} /\ sent' = Replied(n)
      /\ UNCHANGED <<received, main, ready, streams, held, pump, overtaken>>
  BY DEF Resume
<1>2. RpcTypeOK /\ n \in DOMAIN received /\ n \in Nat /\ ready \in Seq(Steps)
  BY DEF RpcInv, RpcTypeOK, Message
<1>3. \/ n \notin Asked /\ UNCHANGED sent
      \/ n \in Asked /\ sent' = Append(sent, x)
  BY <1>1, <1>2 DEF Replied, Asked
<1>4. /\ extra \in Seq({"wake", "forget"} \X Nat) /\ ready' = ready \o extra /\ DOMAIN extra = {}
  BY <1>1, <1>2 DEF Steps
<1>5. x \in Outgoing /\ \A s : x # Push(s)
  BY <1>2, OutgoingTypes, OutgoingDiffers
<1>6. \A m, j : x = Response(m) => ~Unsubscribes(m, j)
  <2> SUFFICES ASSUME NEW m, NEW j, x = Response(m), Unsubscribes(m, j) PROVE FALSE
    OBVIOUS
  <2>1. m = n
    BY OutgoingDiffers
  <2> QED
    BY <2>1 DEF Unsubscribes, RpcInv, CallsWait
<1> HIDE DEF x, extra
<1>7. /\ ready' \in Seq(Steps) /\ sent' \in Seq(Outgoing)
      /\ waiting' \subseteq waiting /\ main' \in {"reading", "gathering", "closing", "ended"}
      /\ ReadyIsKnown' /\ CallsWait'
      /\ InOrder' /\ AnsweredOnce' /\ NothingForgotten' /\ NoneComesLast'
  BY <1>1, <1>3, <1>4, <1>5, AsideAccounts DEF x
<1>8. RpcTypeOK'
  BY <1>1, <1>2, <1>7 DEF RpcTypeOK
<1>9. EntriesAreRight' /\ StreamsAreHeld' /\ StoppedByUnsubscribe' /\ QuietAfterUnsubscribe'
  BY <1>1, <1>3, <1>5, <1>6, StreamsUntouched
<1> QED
  BY <1>7, <1>8, <1>9 DEF RpcInv

LEMMA InputEndsKeeps == RpcInv /\ InputEnds => RpcInv'
<1> SUFFICES ASSUME RpcInv, InputEnds PROVE RpcInv'
  OBVIOUS
<1> DEFINE S == {held[j] : j \in RpcJobs} \ {0}
<1>1. /\ main = "reading" /\ main' = "gathering" /\ streams' = Cancelled(S)
      /\ UNCHANGED <<received, waiting, held, sent, pump, overtaken>>
  BY DEF InputEnds
<1>2. RpcTypeOK /\ ready \in Seq(Steps) /\ streams \in Seq(Streams)
  BY DEF RpcInv, RpcTypeOK
<1>3. S \in SUBSET DOMAIN streams
  BY <1>2 DEF RpcTypeOK, Streams
<1>4. PICK woken \in Woken(S) :
         ready' = ready \o [i \in DOMAIN woken |-> <<"wake", woken[i]>>]
  BY DEF InputEnds
<1> DEFINE extra == [i \in DOMAIN woken |-> <<"wake", woken[i]>>]
<1>5. /\ extra \in Seq({"wake", "forget"} \X Nat)
      /\ \A k \in DOMAIN extra : extra[k][1] = "wake" /\ extra[k][2] \in DOMAIN streams
      /\ ready' = ready \o extra
  BY <1>2, <1>3, <1>4, WakesAreKnown
<1>6. /\ streams' \in Seq(Streams) /\ DOMAIN streams' = DOMAIN streams
      /\ Len(streams') = Len(streams)
      /\ \A s \in DOMAIN streams :
           /\ streams'[s].job = streams[s].job /\ streams'[s].by = streams[s].by
           /\ streams[s].at = "over" => streams'[s].at = "over"
           /\ Live(s)' => Live(s) /\ s \notin S
  BY <1>1, <1>2, CancelKeeps
<1> HIDE DEF S, extra
<1>7. /\ ready' \in Seq(Steps) /\ sent' \in Seq(Outgoing)
      /\ waiting' \subseteq waiting /\ main' \in {"reading", "gathering", "closing", "ended"}
      /\ ReadyIsKnown' /\ CallsWait'
      /\ InOrder' /\ AnsweredOnce' /\ NothingForgotten' /\ NoneComesLast'
  <2>1. None \in Outgoing
    BY OutgoingTypes
  <2> QED
    BY <1>1, <1>5, <1>6, <2>1, AsideAccounts
<1>8. RpcTypeOK'
  BY <1>1, <1>2, <1>6, <1>7 DEF RpcTypeOK
<1>9. EntriesAreRight'
  <2>1. \A j \in RpcJobs : held[j] # 0 => held[j] \in DOMAIN streams
    BY <1>2 DEF RpcTypeOK, Streams
  <2> QED
    BY <1>1, <1>6, <2>1 DEF RpcInv, EntriesAreRight
<1>10. StreamsAreHeld' /\ StoppedByUnsubscribe' /\ QuietAfterUnsubscribe'
  <2>1. None \in Outgoing
    BY OutgoingTypes
  <2>2. /\ \A s \in DOMAIN streams : None = Push(s) /\ sent' # sent => Live(s)
        /\ \A n : None # Response(n)
    BY OutgoingDiffers
  <2>3. \A s \in DOMAIN streams :
           /\ streams'[s].job = streams[s].job /\ streams'[s].by = streams[s].by
           /\ Live(s)' /\ streams[s].job \notin overtaken' =>
                 Live(s) /\ held'[streams[s].job] = held[streams[s].job]
    BY <1>1, <1>6
  <2>4. overtaken \subseteq overtaken' /\ sent' = sent
    BY <1>1
  <2> QED
    BY <1>1, <1>6, <2>1, <2>2, <2>3, <2>4, StreamsSettle
<1> QED
  BY <1>7, <1>8, <1>9, <1>10 DEF RpcInv

LEMMA StreamPushesKeeps ==
    ASSUME RpcInv, NEW s \in DOMAIN streams, StreamPushes(s)
    PROVE  RpcInv'
<1> DEFINE x == Push(s)
<1>1. /\ RpcTypeOK /\ streams \in Seq(Streams) /\ streams[s] \in Streams
      /\ ready \in Seq(Steps) /\ s \in Nat
  BY DEF RpcInv, RpcTypeOK
<1>2. /\ streams[s].at = "running" /\ UNCHANGED <<received, main, waiting, held, pump, overtaken>>
  BY DEF StreamPushes
<1>3. PICK new \in Streams, extra \in Seq({"wake", "forget"} \X Nat) :
         /\ streams' = [streams EXCEPT ![s] = new] /\ ready' = ready \o extra
         /\ new.job = streams[s].job /\ new.by = streams[s].by
         /\ \A k \in DOMAIN extra : extra[k] = <<"forget", s>> /\ new.at = "over"
  <2>1. CASE /\ streams' = [streams EXCEPT ![s].pushed = @ + 1] /\ UNCHANGED ready
    <3> DEFINE new == [streams[s] EXCEPT !.pushed = @ + 1]
               extra == <<>>
    <3>1. new \in Streams /\ new.job = streams[s].job /\ new.by = streams[s].by
      <4>1. streams[s].pushed + 1 \in Nat
        BY <1>1 DEF Streams
      <4> QED
        BY <1>1, <4>1 DEF Streams
    <3>2. /\ extra \in Seq({"wake", "forget"} \X Nat) /\ ready' = ready \o extra
          /\ DOMAIN extra = {}
      BY <1>1, <2>1 DEF Steps
    <3>3. streams' = [streams EXCEPT ![s] = new]
      BY <2>1
    <3> QED
      BY <3>1, <3>2, <3>3
  <2>2. CASE streams' = [streams EXCEPT ![s].at = "over"] /\ ready' = Append(ready, <<"forget", s>>)
    <3> DEFINE new == [streams[s] EXCEPT !.at = "over"]
               extra == <<<<"forget", s>>>>
    <3>1. new \in Streams /\ new.job = streams[s].job /\ new.by = streams[s].by /\ new.at = "over"
      BY <1>1 DEF Streams, Stages
    <3>2. <<"forget", s>> \in {"wake", "forget"} \X Nat
      BY <1>1
    <3>3. /\ extra \in Seq({"wake", "forget"} \X Nat) /\ DOMAIN extra = {1}
          /\ extra[1] = <<"forget", s>>
      BY <3>2
    <3>4. Append(ready, <<"forget", s>>) = ready \o extra
      BY <1>1, <3>2, AppendSeen DEF Steps
    <3>5. streams' = [streams EXCEPT ![s] = new] /\ ready' = ready \o extra
      BY <2>2, <3>4
    <3>6. \A k \in DOMAIN extra : extra[k] = <<"forget", s>> /\ new.at = "over"
      BY <3>1, <3>3
    <3> HIDE DEF new, extra
    <3> QED
      BY <3>1, <3>3, <3>5, <3>6
  <2> QED
    BY <2>1, <2>2 DEF StreamPushes
<1>4. UNCHANGED sent \/ sent' = Append(sent, x)
  BY DEF StreamPushes
<1>5. x \in Outgoing /\ \A n : x # Response(n)
  BY <1>1, OutgoingTypes, OutgoingDiffers
<1>6. /\ streams' \in Seq(Streams) /\ DOMAIN streams' = DOMAIN streams
      /\ Len(streams') = Len(streams) /\ streams'[s] = new
      /\ \A t \in DOMAIN streams : t # s => streams'[t] = streams[t]
  BY <1>1, <1>3
<1>7. Live(s)
  BY <1>2 DEF Live
<1>8. \A t \in DOMAIN streams :
         /\ streams'[t].job = streams[t].job /\ streams'[t].by = streams[t].by
         /\ Live(t)' => Live(t)
         /\ streams[t].at = "over" => streams'[t].at = "over"
  <2> SUFFICES ASSUME NEW t \in DOMAIN streams
               PROVE  /\ streams'[t].job = streams[t].job /\ streams'[t].by = streams[t].by
                      /\ Live(t)' => Live(t)
                      /\ streams[t].at = "over" => streams'[t].at = "over"
    OBVIOUS
  <2>1. CASE t = s
    BY <1>2, <1>3, <1>6, <1>7, <2>1
  <2>2. CASE t # s
    BY <1>6, <2>2 DEF Live
  <2> QED
    BY <2>1, <2>2
<1> HIDE DEF x
<1>9. /\ ready' \in Seq(Steps) /\ sent' \in Seq(Outgoing)
      /\ waiting' \subseteq waiting /\ main' \in {"reading", "gathering", "closing", "ended"}
      /\ ReadyIsKnown' /\ CallsWait'
      /\ InOrder' /\ AnsweredOnce' /\ NothingForgotten' /\ NoneComesLast'
  <2>1. \A k \in DOMAIN extra :
           /\ extra[k][2] \in DOMAIN streams
           /\ extra[k][1] = "forget" => streams'[extra[k][2]].at = "over"
    <3> SUFFICES ASSUME NEW k \in DOMAIN extra
                 PROVE  extra[k][2] \in DOMAIN streams /\ streams'[extra[k][2]].at = "over"
      OBVIOUS
    <3>1. extra[k][2] = s /\ new.at = "over"
      BY <1>3
    <3> QED
      BY <1>6, <3>1
  <2>2. \/ UNCHANGED <<sent, waiting>>
        \/ \E t \in DOMAIN streams : x = Push(t) /\ sent' = Append(sent, x) /\ UNCHANGED waiting
    BY <1>2, <1>4 DEF x
  <2> QED
    BY <1>2, <1>3, <1>5, <1>6, <1>8, <2>1, <2>2, AsideAccounts
<1>10. RpcTypeOK'
  BY <1>1, <1>2, <1>6, <1>9 DEF RpcTypeOK
<1>11. EntriesAreRight'
  <2>1. \A j \in RpcJobs : held[j] # 0 => held[j] \in DOMAIN streams
    BY <1>1 DEF RpcTypeOK, Streams
  <2> QED
    BY <1>2, <1>6, <1>8, <2>1 DEF RpcInv, EntriesAreRight
<1>12. StreamsAreHeld' /\ StoppedByUnsubscribe' /\ QuietAfterUnsubscribe'
  <2>1. \A t \in DOMAIN streams :
           /\ streams'[t].job = streams[t].job /\ streams'[t].by = streams[t].by
           /\ Live(t)' /\ streams[t].job \notin overtaken' =>
                 Live(t) /\ held'[streams[t].job] = held[streams[t].job]
    BY <1>2, <1>8
  <2>2. \A t \in DOMAIN streams : x = Push(t) /\ sent' # sent => Live(t)
    BY <1>7, OutgoingDiffers DEF x
  <2>3. overtaken \subseteq overtaken' /\ (sent' = sent \/ sent' = Append(sent, x)) /\ UNCHANGED received
    BY <1>2, <1>4
  <2> QED
    BY <1>5, <1>6, <2>1, <2>2, <2>3, StreamsSettle
<1> QED
  BY <1>9, <1>10, <1>11, <1>12 DEF RpcInv

\* A message is read: it is given a handler, behind every other, or answered at once.
LEMMA ReadKeeps == RpcInv /\ Read => RpcInv'
<1> SUFFICES ASSUME RpcInv, Read PROVE RpcInv'
  OBVIOUS
<1> PICK n : n = Len(received) + 1
  OBVIOUS
<1>1. /\ RpcTypeOK /\ received \in Seq(Message) /\ ready \in Seq(Steps) /\ sent \in Seq(Outgoing)
      /\ DOMAIN received = 1..Len(received) /\ Len(received) \in Nat
      /\ DOMAIN ready = 1..Len(ready) /\ Len(ready) \in Nat
  BY DEF RpcInv, RpcTypeOK, Message, Steps
<1>2. PICK m \in Message :
         /\ received' = Append(received, m)
         /\ IF m.kind = "garbled"
            THEN sent' = Append(sent, Response(n)) /\ UNCHANGED ready
            ELSE ready' = Append(ready, <<"handle", n>>) /\ UNCHANGED sent
  BY DEF Read
<1>3. main = "reading" /\ UNCHANGED <<main, waiting, streams, held, pump, overtaken>>
  BY DEF Read
<1>4. /\ received' \in Seq(Message) /\ DOMAIN received' = DOMAIN received \cup {n}
      /\ n \notin DOMAIN received /\ n \in Nat /\ received'[n] = m
      /\ \A i \in DOMAIN received : received'[i] = received[i] /\ i < n
  BY <1>1, <1>2 DEF Message
<1>5. Response(n) \in Outgoing /\ \A s : Response(n) # Push(s) /\ Response(n) # None
  BY <1>4, OutgoingTypes, OutgoingDiffers
<1>6. /\ ready' \in Seq(Steps)
      /\ \A i \in DOMAIN ready' :
           \/ i \in DOMAIN ready /\ ready'[i] = ready[i]
           \/ i = Len(ready) + 1 /\ ready'[i] = <<"handle", n>> /\ m.kind # "garbled"
      /\ \A i \in DOMAIN ready : i \in DOMAIN ready' /\ ready'[i] = ready[i]
      /\ m.kind # "garbled" => Len(ready) + 1 \in DOMAIN ready' /\ ready'[Len(ready) + 1] = <<"handle", n>>
  <2>1. CASE m.kind = "garbled"
    BY <1>1, <1>2, <2>1
  <2>2. CASE m.kind # "garbled"
    <3>1. ready' = Append(ready, <<"handle", n>>) /\ <<"handle", n>> \in Steps
      BY <1>2, <1>4, <2>2 DEF Steps
    <3>2. /\ ready' \in Seq(Steps) /\ DOMAIN ready' = DOMAIN ready \cup {Len(ready) + 1}
          /\ ready'[Len(ready) + 1] = <<"handle", n>>
          /\ \A i \in DOMAIN ready : ready'[i] = ready[i]
      BY <1>1, <3>1, AppendSeen
    <3> QED
      BY <2>2, <3>2
  <2> QED
    BY <2>1, <2>2
<1>7. sent' \in Seq(Outgoing) /\ (sent' = sent \/ (m.kind = "garbled" /\ sent' = Append(sent, Response(n))))
  BY <1>1, <1>2, <1>5, OutboxGrows
<1>8. \A i \in DOMAIN sent : sent[i] # Response(n)
  <2> SUFFICES ASSUME NEW i \in DOMAIN sent, sent[i] = Response(n) PROVE FALSE
    OBVIOUS
  <2>1. \E l \in Asked \ waiting : sent[i] = Response(l)
    BY OutgoingDiffers DEF RpcInv, AnsweredOnce
  <2> QED
    BY <1>4, <2>1, OutgoingDiffers DEF Asked
<1>9. Answered(n) = {}
  BY <1>8 DEF Answered
<1>10. \A l : /\ Answered(l) \subseteq Answered(l)'
              /\ l # n => Answered(l)' = Answered(l)
              /\ Answered(l)' \ Answered(l) \subseteq {Len(sent) + 1}
  BY <1>1, <1>5, <1>7, AnswersKept, OutgoingDiffers
<1>11. \A l \in DOMAIN received : (l \in Asked' <=> l \in Asked) /\ (Numbered(l)' <=> Numbered(l))
  BY <1>4 DEF Asked, Numbered
<1>12. Asked \subseteq Asked' /\ Asked' \subseteq Asked \cup {n} /\ Asked \subseteq DOMAIN received
  BY <1>4, <1>11 DEF Asked
<1>13. RpcTypeOK'
  <2>1. waiting' \subseteq DOMAIN received'
    BY <1>1, <1>3, <1>4 DEF RpcTypeOK
  <2> QED
    BY <1>1, <1>3, <1>4, <1>6, <1>7, <2>1 DEF RpcTypeOK
<1>14. ReadyIsKnown'
  <2> SUFFICES ASSUME NEW i \in DOMAIN ready'
               PROVE  /\ ready'[i][1] = "handle" =>
                            ready'[i][2] \in DOMAIN received' /\ received'[ready'[i][2]].kind # "garbled"
                      /\ ready'[i][1] # "handle" => ready'[i][2] \in DOMAIN streams
                      /\ ready'[i][1] = "forget" => streams[ready'[i][2]].at = "over"
    BY <1>3 DEF ReadyIsKnown, Numbered
  <2>1. CASE i \in DOMAIN ready /\ ready'[i] = ready[i]
    BY <1>4, <2>1 DEF RpcInv, ReadyIsKnown, Numbered
  <2>2. CASE ready'[i] = <<"handle", n>> /\ m.kind # "garbled"
    BY <1>4, <2>2
  <2> QED
    BY <1>6, <2>1, <2>2
<1>15. EntriesAreRight'
  BY <1>3, <1>4 DEF RpcInv, EntriesAreRight
<1>16. CallsWait'
  BY <1>1, <1>3, <1>4 DEF RpcInv, CallsWait, RpcTypeOK
<1>17. \A l \in DOMAIN received' : Ran(l)' => \/ l \in DOMAIN received /\ Ran(l)
                                              \/ l = n /\ m.kind = "garbled" /\ ~Numbered(n)'
  <2> SUFFICES ASSUME NEW l \in DOMAIN received', Ran(l)'
               PROVE  \/ l \in DOMAIN received /\ Ran(l)
                      \/ l = n /\ m.kind = "garbled" /\ ~Numbered(n)'
    OBVIOUS
  <2>1. CASE l \in DOMAIN received
    <3>1. l # n
      BY <1>4, <2>1
    <3> QED
      BY <1>3, <1>10, <1>11, <2>1, <3>1 DEF Ran
  <2>2. CASE l = n
    <3>1. n \notin waiting /\ \A s \in DOMAIN streams : streams[s].by # n
      BY <1>1, <1>4 DEF RpcTypeOK, RpcInv, EntriesAreRight
    <3>2. Numbered(n)' /\ Answered(n)' # {}
      BY <1>3, <2>2, <3>1 DEF Ran
    <3>3. sent' = sent
      BY <1>4, <1>7, <3>2 DEF Numbered
    <3> QED
      BY <1>9, <3>2, <3>3 DEF Answered
  <2> QED
    BY <1>4, <2>1, <2>2
<1>18. InOrder'
  <2> SUFFICES ASSUME NEW i \in DOMAIN ready', ready'[i][1] = "handle"
               PROVE  /\ \A k \in DOMAIN ready' :
                           ready'[k][1] = "handle" /\ i < k => ready'[i][2] < ready'[k][2]
                      /\ \A l \in DOMAIN received' : Ran(l)' => l < ready'[i][2]
    BY DEF InOrder
  <2>1. CASE i \in DOMAIN ready /\ ready'[i] = ready[i]
    <3>1. ready[i][2] \in DOMAIN received
      BY <2>1 DEF RpcInv, ReadyIsKnown
    <3>2. ASSUME NEW k \in DOMAIN ready', ready'[k][1] = "handle", i < k
          PROVE  ready'[i][2] < ready'[k][2]
      <4>1. CASE k \in DOMAIN ready /\ ready'[k] = ready[k]
        BY <2>1, <3>2, <4>1 DEF RpcInv, InOrder
      <4>2. CASE ready'[k] = <<"handle", n>>
        BY <1>4, <2>1, <3>1, <4>2
      <4> QED
        BY <1>6, <4>1, <4>2
    <3>3. ASSUME NEW l \in DOMAIN received', Ran(l)'
          PROVE  l < ready'[i][2]
      <4>1. CASE l \in DOMAIN received /\ Ran(l)
        BY <2>1, <4>1 DEF RpcInv, InOrder
      <4>2. CASE l = n /\ m.kind = "garbled"
        <5>1. waiting' = waiting /\ n \notin waiting
          BY <1>1, <1>3, <1>4 DEF RpcTypeOK
        <5>2. ~Numbered(n)'
          BY <1>4, <4>2 DEF Numbered
        <5>3. \A s \in DOMAIN streams' : streams'[s].by # n
          BY <1>3, <1>4 DEF RpcInv, EntriesAreRight
        <5> QED
          BY <3>3, <4>2, <5>1, <5>2, <5>3 DEF Ran
      <4> QED
        BY <1>17, <3>3, <4>1, <4>2
    <3> QED
      BY <3>2, <3>3
  <2>2. CASE i = Len(ready) + 1 /\ ready'[i] = <<"handle", n>> /\ m.kind # "garbled"
    <3>1. ASSUME NEW k \in DOMAIN ready', i < k PROVE FALSE
      BY <1>1, <1>6, <2>2, <3>1
    <3>2. \A l \in DOMAIN received' : Ran(l)' => l < n
      BY <1>4, <1>17, <2>2
    <3> QED
      BY <2>2, <3>1, <3>2
  <2> QED
    BY <1>6, <2>1, <2>2
<1>19. AnsweredOnce'
  <2>1. ASSUME NEW l \in DOMAIN received', NEW i \in Answered(l)', NEW k \in Answered(l)'
        PROVE  i = k
    <3>1. CASE l = n
      BY <1>9, <1>10, <3>1
    <3>2. CASE l # n
      BY <1>4, <1>10, <3>2 DEF RpcInv, AnsweredOnce
    <3> QED
      BY <3>1, <3>2
  <2>2. ASSUME NEW i \in DOMAIN sent'
        PROVE  \/ \E l \in Asked' \ waiting' : sent'[i] = Response(l)
               \/ \E s \in DOMAIN streams' : sent'[i] = Push(s)
               \/ sent'[i] = None
    <3>1. CASE i \in DOMAIN sent /\ sent'[i] = sent[i]
      BY <1>3, <1>12, <3>1 DEF RpcInv, AnsweredOnce
    <3>2. CASE sent'[i] = Response(n) /\ m.kind = "garbled"
      <4>1. n \in Asked'
        BY <1>4, <3>2 DEF Asked
      <4>2. n \notin waiting'
        BY <1>1, <1>3, <1>4 DEF RpcTypeOK
      <4> QED
        BY <3>2, <4>1, <4>2
    <3>3. CASE sent' = Append(sent, Response(n)) /\ m.kind = "garbled"
      BY <1>1, <1>5, <3>1, <3>2, <3>3, OutboxGrows
    <3> QED
      BY <1>7, <3>1, <3>3
  <2> QED
    BY <2>1, <2>2 DEF AnsweredOnce
<1>20. NothingForgotten'
  <2> SUFFICES ASSUME NEW l \in Asked'
               PROVE  \/ Answered(l)' # {} \/ l \in waiting'
                      \/ \E i \in DOMAIN ready' : ready'[i] = <<"handle", l>>
    BY DEF NothingForgotten
  <2>1. CASE l \in Asked
    BY <1>3, <1>6, <1>10, <2>1 DEF RpcInv, NothingForgotten
  <2>2. CASE l = n /\ m.kind # "garbled"
    BY <1>6, <2>2
  <2>3. CASE l = n /\ m.kind = "garbled"
    <3>1. sent' = Append(sent, Response(n))
      BY <1>2, <2>3
    <3>2. Len(sent) + 1 \in DOMAIN sent' /\ sent'[Len(sent) + 1] = Response(n)
      BY <1>1, <1>5, <3>1, OutboxGrows
    <3> QED
      BY <2>3, <3>2 DEF Answered
  <2> QED
    BY <1>12, <2>1, <2>2, <2>3
<1>21. NoneComesLast'
  <2>1. \A i \in DOMAIN sent : sent[i] # None
    BY <1>3 DEF RpcInv, NoneComesLast
  <2>2. \A i \in DOMAIN sent' : sent'[i] # None
    <3>1. CASE sent' = Append(sent, Response(n))
      BY <1>1, <1>5, <2>1, <3>1, OutboxGrows
    <3> QED
      BY <1>7, <2>1, <3>1
  <2> QED
    BY <1>3, <2>2 DEF NoneComesLast
<1>22. StreamsAreHeld'
  BY <1>3 DEF RpcInv, StreamsAreHeld, Live
<1>23. \A l \in DOMAIN received' : \A j : Unsubscribes(l, j)' /\ Answered(l)' # {} =>
          l \in DOMAIN received /\ Unsubscribes(l, j) /\ Answered(l) # {}
  <2> SUFFICES ASSUME NEW l \in DOMAIN received', NEW j, Unsubscribes(l, j)', Answered(l)' # {}
               PROVE  l \in DOMAIN received /\ Unsubscribes(l, j) /\ Answered(l) # {}
    OBVIOUS
  <2>1. CASE l = n
    <3>1. m.kind = "request"
      BY <1>4, <2>1 DEF Unsubscribes
    <3>2. sent' = sent
      BY <1>7, <3>1
    <3> QED
      BY <1>9, <2>1, <3>2 DEF Answered
  <2>2. CASE l # n
    BY <1>4, <1>10, <2>2 DEF Unsubscribes
  <2> QED
    BY <2>1, <2>2
<1>24. StoppedByUnsubscribe'
  <2>1. \A s : Live(s)' <=> Live(s)
    BY <1>3 DEF Live
  <2> QED
    BY <1>3, <1>23, <2>1 DEF RpcInv, StoppedByUnsubscribe
<1>25. QuietAfterUnsubscribe'
  <2> SUFFICES ASSUME NEW l \in DOMAIN received', NEW s \in DOMAIN streams,
                      NEW i \in DOMAIN sent', NEW k \in DOMAIN sent',
                      Unsubscribes(l, streams[s].job)', streams[s].by < l,
                      streams[s].job \notin overtaken, sent'[i] = Response(l), i < k,
                      sent'[k] = Push(s)
               PROVE  FALSE
    BY <1>3 DEF QuietAfterUnsubscribe
  <2>1. Answered(l)' # {}
    BY DEF Answered
  <2>2. l \in DOMAIN received /\ Unsubscribes(l, streams[s].job)
    BY <1>3, <1>23, <2>1
  <2>3. CASE sent' = Append(sent, Response(n))
    <3>1. /\ Len(sent) \in Nat /\ DOMAIN sent = 1..Len(sent)
          /\ DOMAIN sent' = DOMAIN sent \cup {Len(sent) + 1}
          /\ sent'[Len(sent) + 1] = Response(n) /\ \A h \in DOMAIN sent : sent'[h] = sent[h]
      BY <1>1, <1>5, <2>3, OutboxGrows
    <3>2. k \in DOMAIN sent /\ i \in DOMAIN sent
      BY <1>5, <3>1
    <3>3. sent[i] = Response(l) /\ sent[k] = Push(s)
      BY <3>1, <3>2
    <3>4. QuietAfterUnsubscribe
      BY DEF RpcInv
    <3> QED
      BY <2>2, <3>2, <3>3, <3>4 DEF QuietAfterUnsubscribe
  <2>4. CASE sent' = sent
    BY <2>2, <2>4 DEF RpcInv, QuietAfterUnsubscribe
  <2> QED
    BY <1>7, <2>3, <2>4
<1> QED
  BY <1>13, <1>14, <1>15, <1>16, <1>18, <1>19, <1>20, <1>21, <1>22, <1>24, <1>25 DEF RpcInv

LEMMA RpcStart == RpcInit => RpcInv
<1> SUFFICES ASSUME RpcInit PROVE RpcInv
  OBVIOUS
<1>1. /\ received = <<>> /\ ready = <<>> /\ waiting = {} /\ streams = <<>> /\ sent = <<>>
      /\ main = "reading" /\ pump = "pumping" /\ overtaken = {}
      /\ held = [j \in RpcJobs |-> 0]
  BY DEF RpcInit
<1>2. RpcTypeOK
  BY <1>1 DEF RpcTypeOK
<1>3. ReadyIsKnown /\ EntriesAreRight /\ CallsWait /\ InOrder
  BY <1>1 DEF ReadyIsKnown, EntriesAreRight, CallsWait, InOrder
<1>4. AnsweredOnce /\ NothingForgotten /\ NoneComesLast
  BY <1>1 DEF AnsweredOnce, NothingForgotten, NoneComesLast, Asked
<1>5. StreamsAreHeld /\ StoppedByUnsubscribe /\ QuietAfterUnsubscribe
  BY <1>1 DEF StreamsAreHeld, StoppedByUnsubscribe, QuietAfterUnsubscribe
<1> QED
  BY <1>2, <1>3, <1>4, <1>5 DEF RpcInv

LEMMA RpcStutters == RpcInv /\ UNCHANGED rpcVars => RpcInv'
BY DEF RpcInv, rpcVars, RpcTypeOK, ReadyIsKnown, EntriesAreRight, CallsWait, InOrder, Ran,
       AnsweredOnce, NothingForgotten, NoneComesLast, StreamsAreHeld, StoppedByUnsubscribe,
       QuietAfterUnsubscribe, Numbered, Asked, Answered, OnTheWire, Live, Unsubscribes

LEMMA RpcStep == RpcInv /\ [RpcNext]_rpcVars => RpcInv'
<1> SUFFICES ASSUME RpcInv, [RpcNext]_rpcVars PROVE RpcInv'
  OBVIOUS
<1>1. CASE Read \/ InputEnds \/ StopPump \/ Turn
  BY <1>1, ReadKeeps, InputEndsKeeps, StopPumpKeeps, TurnKeeps
<1>2. CASE ServeEnds \/ PumpStops \/ PumpBreaks
  BY <1>2, PumpAndEndKeep
<1>3. CASE \E n \in waiting : Resume(n)
  BY <1>3, ResumeKeeps
<1>4. CASE \E s \in DOMAIN streams : StreamPushes(s)
  BY <1>4, StreamPushesKeeps
<1>5. CASE UNCHANGED rpcVars
  BY <1>5, RpcStutters
<1> QED
  BY <1>1, <1>2, <1>3, <1>4, <1>5 DEF RpcNext

LEMMA RpcInductive == RpcSpec => []RpcInv
BY RpcStart, RpcStep, PTL DEF RpcSpec

-----------------------------------------------------------------------------
(* The theorem *)

\* Whatever the peer sends, and however handlers, streams and cancellations follow
\* each other on the loop: every message but a notification is answered once, and
\* before the pump is told to stop; the connection holds every stream that pushes;
\* and an unsubscribe that was answered is the end of the streams before it, but for
\* a job whose entry a late callback has taken (rpc/server.py: serve, _handle,
\* _subscription, _stream).
THEOREM ConnectionSound == RpcSpec => []ConnectionIsSound
<1>1. RpcInv => ConnectionIsSound
  <2> SUFFICES ASSUME RpcInv PROVE ConnectionIsSound
    OBVIOUS
  <2>1. ASSUME NEW n \in DOMAIN received \ Asked PROVE Answered(n) = {}
    <3> SUFFICES ASSUME NEW i \in DOMAIN sent, sent[i] = Response(n) PROVE FALSE
      BY DEF Answered
    <3>1. \E l \in Asked \ waiting : sent[i] = Response(l)
      BY OutgoingDiffers DEF RpcInv, AnsweredOnce
    <3> QED
      BY <3>1, OutgoingDiffers
  <2>2. EveryRequestAnswered
    BY <2>1 DEF EveryRequestAnswered, RpcInv, AnsweredOnce, NoneComesLast
  <2> QED
    BY <2>2 DEF ConnectionIsSound, RpcInv
<1> QED
  BY RpcInductive, <1>1, PTL

-----------------------------------------------------------------------------
(* Reads of one job *)

\* Where run_solve is once it knows the verdict, once the verdict is in the row,
\* and while the live entry is filled.
Late     == writer \in {"recorded", "absorbing status", "absorbing result",
                        "absorbing summary", "retiring", "ended"}
Writers  == {"submitting", "queued", "solving", "saving", "recording", "recorded",
             "absorbing status", "absorbing result", "absorbing summary", "retiring", "ended"}

Rows    == {Row(s, s = "done") : s \in Status} \cup {Missing}
Entries == [status : Status, result : BOOLEAN, summary : BOOLEAN]
Inside  == {"looking", "loading", "checking", "checking done", "checking payload", "building"}
Answers == {"none", "payload missing", "crashed", "empty", "not finished", "not found",
            "did not succeed", "complete"}

Calls ==
    [at : Inside \cup {"idle", "waiting", "asking", "answered"}, patient : BOOLEAN,
     fields : BOOLEAN, holds : {"nothing", "entry", "record"}, copy : Entries, torn : BOOLEAN,
     answer : Answers, status : Status \cup {"none"}]
Pollers == [checked : BOOLEAN, next : Nat, read : Seq(Event), final : BOOLEAN]

ReadsTypeOK ==
    /\ record \in Rows
    /\ payload \in BOOLEAN /\ cached \in BOOLEAN /\ sweeping \in BOOLEAN
    /\ purged \in BOOLEAN /\ removed \in BOOLEAN
    /\ told \in Seq(Event)
    /\ entry \in Entries
    /\ writer \in Writers
    /\ verdict \in Terminal \cup {"none"}
    /\ reports \in 0..MaxProgress
    /\ reader \in Calls
    /\ poller \in Pollers

\* The verdict as it is in the row and in a live entry that is filled.
RowOfVerdict   == Row(verdict, verdict = "done")
EntryOfVerdict == [status |-> verdict, result |-> verdict = "done", summary |-> verdict = "done"]

WriterIs ==
    /\ writer \in {"saving", "recording", "recorded", "absorbing status", "absorbing result",
                   "absorbing summary", "retiring"} => verdict \in Terminal
    /\ writer = "saving" => verdict = "done"
    /\ cached => writer \notin {"submitting", "ended"}
    /\ writer \in {"submitting", "queued", "solving", "saving", "recording", "recorded",
                   "absorbing status"} => entry = Fresh
    /\ writer \in {"absorbing result", "absorbing summary"} => entry.status = verdict
    /\ writer = "absorbing summary" => entry.result = (verdict = "done")
    /\ writer = "retiring" => entry = EntryOfVerdict

RowIs ==
    /\ Late => record.status \notin Unfinished
    /\ ~Late => record.status \notin Terminal
    /\ ~purged => (record = Missing <=> writer = "submitting")
    /\ ~purged /\ Late /\ writer # "ended" => record = RowOfVerdict
    /\ ~removed /\ (record.kind \/ (writer = "recording" /\ verdict = "done")) => payload

\* What a caller holds.
EntryIs ==
    reader.holds = "entry" =>
        /\ writer # "submitting"
        /\ entry.status \in Terminal => Late /\ entry.status = verdict
                                        /\ (~purged => record = RowOfVerdict)
        /\ reader.patient => entry.status \in Terminal
        /\ ~reader.torn => writer \in {"retiring", "ended"} /\ entry = EntryOfVerdict
                           /\ verdict \in Terminal

CopyIs ==
    reader.holds = "record" =>
        /\ reader.copy.summary = (reader.copy.status = "done")
        /\ reader.patient => reader.copy.status \in Terminal
        /\ reader.copy.status \in Terminal /\ ~purged => record.status = reader.copy.status
        /\ reader.at \in {"looking", "loading"} => reader.copy.summary /\ (payload \/ removed)
        /\ reader.at \in {"checking", "checking done", "checking payload"}
              /\ reader.fields /\ reader.copy.summary => reader.copy.result \/ removed

Steady == reader.holds = "record" \/ ~reader.torn

ReaderIs ==
    /\ reader.at # "idle" => writer # "submitting"
    /\ reader.at \in Inside => reader.holds # "nothing"
    /\ reader.at \in {"looking", "loading"} => reader.holds = "record"
    /\ reader.at \in {"idle", "waiting", "asking"} => reader.holds = "nothing"
    /\ reader.at # "answered" => reader.answer = "none"
    /\ reader.at = "asking" /\ reader.patient => Late /\ (cached => entry.status \in Terminal)
    /\ reader.at = "checking done" /\ (Steady \/ reader.patient)
          => InHand.status \notin {"failed", "cancelled"}
    /\ reader.at \in {"checking payload", "building"} /\ Steady => InHand.status = "done"
    /\ reader.answer = "did not succeed" => reader.status \in {"failed", "cancelled"}

PollerIs ==
    /\ poller.checked => ~poller.final
    /\ ~purged => poller.next <= Len(told)

ReadsInvar ==
    /\ ReadsTypeOK /\ WriterIs /\ RowIs /\ EntryIs /\ CopyIs /\ ReaderIs /\ PollerIs
    /\ ReadsAreRight

USE ReadsAssumption, RecordsAssumption

\* What is in an entry as it is made, in one that is filled, and in the row.
LEMMA EventFacts ==
    /\ \A s \in {"running"} \cup Terminal : StatusEvent(s) \in Event
    /\ \A n \in 1..MaxProgress : ProgressEvent(n) \in Event
BY DEF StatusEvent, ProgressEvent, Event

LEMMA EntryFacts ==
    /\ Fresh.status = "queued" /\ "queued" \notin Terminal
    /\ EntryOfVerdict.status = verdict
    /\ verdict = "done" => EntryOfVerdict.result /\ EntryOfVerdict.summary
    /\ RowOfVerdict.status = verdict
BY DEF Fresh, Terminal, EntryOfVerdict, RowOfVerdict, Row

\* An answer is given, or the call goes on, and nothing else of it changes.
LEMMA AnswerGiven ==
    ASSUME ReadsTypeOK, NEW what, NEW status, AnswerWith(what, status)
    PROVE  /\ reader'.at = "answered" /\ reader'.answer = what /\ reader'.status = status
           /\ reader'.patient = reader.patient /\ reader'.fields = reader.fields
           /\ reader'.holds = reader.holds /\ reader'.copy = reader.copy
           /\ reader'.torn = reader.torn
BY DEF AnswerWith, ReadsTypeOK, Calls

LEMMA CallGoesOn ==
    ASSUME ReadsTypeOK, NEW place, GoOnTo(place)
    PROVE  /\ reader'.at = place /\ reader'.answer = reader.answer
           /\ reader'.status = reader.status
           /\ reader'.patient = reader.patient /\ reader'.fields = reader.fields
           /\ reader'.holds = reader.holds /\ reader'.copy = reader.copy
           /\ reader'.torn = reader.torn
BY DEF GoOnTo, ReadsTypeOK, Calls

\* What a step beside the calls keeps of them.
LEMMA CallsStay ==
    ASSUME ReaderIs, UNCHANGED <<reader, entry>>, Late => Late',
           writer # "submitting" => writer' # "submitting" /\ cached' \in {cached, FALSE}
    PROVE  ReaderIs'
<1>1. InHand' = InHand /\ Steady' = Steady
  BY DEF InHand, Steady
<1>2. reader.at # "idle" => writer # "submitting"
  BY DEF ReaderIs
<1>3. reader.at = "asking" /\ reader.patient => Late' /\ (cached' => entry.status \in Terminal)
  BY <1>2 DEF ReaderIs
<1> QED
  BY <1>1, <1>2, <1>3 DEF ReaderIs

LEMMA ReaderIsKept ==
    ASSUME ReadsTypeOK, WriterIs, RowIs, EntryIs, CopyIs, ReaderIs, [ReadsNext]_readsVars
    PROVE  ReaderIs'
<1> USE DEF jobSide, readerSide, mishapSide
<1>1. CASE SubmitJob \/ BeginSolve \/ ReportProgress \/ SolveEnds \/ PutVerdict \/ TellVerdict
  <2>1. UNCHANGED <<reader, entry>> /\ (Late => Late')
    BY <1>1 DEF SubmitJob, BeginSolve, ReportProgress, SolveEnds, PutVerdict, SaveThenRecord, TellVerdict, Late
  <2>2. writer # "submitting" => writer' # "submitting" /\ cached' \in {cached, FALSE}
    BY <1>1 DEF SubmitJob, BeginSolve, ReportProgress, SolveEnds, PutVerdict, SaveThenRecord, TellVerdict
  <2> QED
    BY <2>1, <2>2, CallsStay
<1>2. CASE Absorb
  <2>1. /\ UNCHANGED <<reader, cached>> /\ Late' /\ Late
        /\ writer # "submitting" /\ writer' # "submitting" /\ writer \notin {"retiring", "ended"}
    BY <1>2 DEF Absorb, AbsorbSteps, Late
  <2>2. entry.status \in Terminal => entry'.status = entry.status
    <3>1. writer = "absorbing status" => entry.status \notin Terminal
      BY EntryFacts DEF WriterIs
    <3> QED
      BY <1>2, <3>1 DEF Absorb, AbsorbSteps, ReadsTypeOK, Calls, Entries
  <2>3. reader.holds = "entry" => reader.torn /\ (reader.patient => entry.status \in Terminal)
    BY <2>1 DEF EntryIs
  <2>4. Steady' = Steady /\ (Steady \/ reader.patient => InHand'.status = InHand.status)
    BY <2>1, <2>2, <2>3 DEF Steady, InHand
  <2> QED
    BY <2>1, <2>2, <2>4 DEF ReaderIs
<1>3. CASE RetireJob \/ SweepRows \/ SweepFiles \/ CleanUp \/ CheckOwner \/ ReadPage \/ UNCHANGED readsVars
  <2>1. UNCHANGED <<reader, entry>> /\ (Late => Late') /\ cached' \in {cached, FALSE}
        /\ (writer # "submitting" => writer' # "submitting")
    BY <1>3 DEF RetireJob, SweepRows, SweepFiles, CleanUp, CheckOwner, ReadPage, readsVars, Late
  <2> QED
    BY <2>1, CallsStay
<1>4. CASE Restart \/ ReaderAgain
  <2>1. reader' = NoCall
    BY <1>4 DEF Restart, ReaderAgain
  <2> QED
    BY <2>1 DEF NoCall, ReaderIs, Inside
<1>5. CASE AskForAnswer
  <2>1. /\ reader'.at \in {"waiting", "asking"} /\ writer' # "submitting"
        /\ reader'.at = "asking" => ~reader'.patient
        /\ reader'.holds = "nothing" /\ reader'.answer = "none"
    BY <1>5 DEF AskForAnswer, NoCall
  <2> QED
    BY <2>1 DEF ReaderIs, Inside
<1>6. CASE WaitForEnd
  <2>0. UNCHANGED <<entry, cached, writer>> /\ (Late => Late') /\ reader.at = "waiting"
    BY <1>6 DEF WaitForEnd, Late
  <2>1. CASE GoOnTo("asking") /\ Late /\ (cached => entry.status \in Terminal)
    <3>1. /\ reader'.at = "asking" /\ reader'.holds = "nothing" /\ reader'.answer = "none"
          /\ writer' # "submitting"
      BY <2>0, <2>1, CallGoesOn DEF ReaderIs
    <3>2. Late' /\ (cached' => entry'.status \in Terminal)
      BY <2>0, <2>1
    <3> QED
      BY ONLY <3>1, <3>2 DEF ReaderIs, Inside
  <2>2. CASE AnswerWith("not found", "none")
    BY <2>0, <2>2, AnswerGiven DEF ReaderIs, Inside
  <2>3. cached /\ entry.status \in Terminal => Late
    <3>1. entry.status \in Terminal => entry # Fresh
      BY DEF Fresh, Terminal
    <3> QED
      BY <3>1 DEF WriterIs, Late, ReadsTypeOK, Calls, Writers
  <2>4. ~cached /\ record.status \in Terminal => Late
    BY DEF RowIs
  <2> QED
    BY <1>6, <2>1, <2>2, <2>3, <2>4 DEF WaitForEnd
<1>7. CASE GetJob
  <2>0. UNCHANGED <<entry, cached, writer>> /\ reader.at = "asking" /\ writer # "submitting"
    BY <1>7 DEF GetJob, ReaderIs
  <2>1. CASE reader' = [reader EXCEPT !.at = "checking", !.holds = "entry", !.torn = (writer # "retiring")]
    BY <2>0, <2>1 DEF ReaderIs, ReadsTypeOK, Calls, Inside
  <2>2. CASE AnswerWith("not found", "none")
    BY <2>0, <2>2, AnswerGiven DEF ReaderIs, Inside
  <2>3. CASE reader' = [reader EXCEPT
                  !.at = IF reader.fields /\ record.kind THEN "looking" ELSE "checking",
                  !.holds = "record",
                  !.copy = [status |-> record.status, result |-> FALSE, summary |-> record.kind]]
    <3>1. /\ reader'.at \in {"looking", "checking"} /\ reader'.holds = "record"
          /\ reader'.answer = reader.answer
      BY <2>3 DEF ReadsTypeOK, Calls
    <3> QED
      BY <2>0, <3>1 DEF ReaderIs, Inside
  <2> QED
    BY <1>7, <2>1, <2>2, <2>3 DEF GetJob
<1>8. CASE LookForPayload \/ LoadPayload
  <2>0. UNCHANGED <<entry, cached, writer>> /\ reader.at \in {"looking", "loading"}
    BY <1>8 DEF LookForPayload, LoadPayload
  <2>1. CASE reader'.at \in {"loading", "checking"} /\ reader'.holds = reader.holds /\ reader'.answer = reader.answer
    BY <2>0, <2>1 DEF ReaderIs, Inside
  <2>2. CASE AnswerWith("crashed", "none")
    BY <2>0, <2>2, AnswerGiven DEF ReaderIs, Inside
  <2> QED
    BY <1>8, <2>1, <2>2, CallGoesOn DEF LookForPayload, LoadPayload, ReadsTypeOK, Calls
<1>9. CASE CheckSucceeded \/ CheckDone \/ CheckPayload \/ BuildAnswer
  <2>0. /\ UNCHANGED <<entry, cached, writer>>
        /\ reader.at \in {"checking", "checking done", "checking payload", "building"}
    BY <1>9 DEF CheckSucceeded, CheckDone, CheckPayload, BuildAnswer
  <2>1. ASSUME NEW what, NEW status, AnswerWith(what, status),
               what = "did not succeed" => status \in {"failed", "cancelled"}
        PROVE  ReaderIs'
    BY <2>0, <2>1, AnswerGiven DEF ReaderIs, Inside
  <2>2. ASSUME NEW place, GoOnTo(place)
        PROVE  /\ InHand' = InHand /\ Steady' = Steady
               /\ reader'.at = place /\ reader'.holds = reader.holds /\ reader'.answer = reader.answer
               /\ reader'.patient = reader.patient
    BY <2>0, <2>2, CallGoesOn DEF InHand, Steady
  <2>9. ASSUME NEW place, GoOnTo(place)
        PROVE  writer' # "submitting" /\ reader'.holds # "nothing" /\ reader'.answer = "none"
    BY <2>0, <2>2, <2>9 DEF ReaderIs, Inside
  <2>3. CASE GoOnTo("checking done") /\ InHand.status \notin {"failed", "cancelled"}
    <3>1. InHand'.status \notin {"failed", "cancelled"} /\ reader'.at = "checking done"
      BY <2>2, <2>3
    <3> QED
      BY ONLY <2>3, <2>9, <3>1 DEF ReaderIs, Inside
  <2>8. CASE /\ GoOnTo("checking payload") \/ GoOnTo("building")
             /\ InHand.status = "done" \/ ~Steady
    <3>1. /\ reader'.at \in {"checking payload", "building"}
          /\ Steady' => InHand'.status = "done"
      BY <2>2, <2>8
    <3> QED
      BY ONLY <2>8, <2>9, <3>1 DEF ReaderIs, Inside
  <2>4. CASE CheckSucceeded
    BY <2>1, <2>3, <2>4 DEF CheckSucceeded
  <2>5. CASE CheckDone
    BY <2>1, <2>8, <2>5 DEF CheckDone
  <2>6. CASE CheckPayload
    BY <2>1, <2>8, <2>6 DEF CheckPayload, ReaderIs
  <2>7. CASE BuildAnswer
    BY <2>1, <2>7 DEF BuildAnswer
  <2> QED
    BY <1>9, <2>4, <2>5, <2>6, <2>7
<1> QED
  BY <1>1, <1>2, <1>3, <1>4, <1>5, <1>6, <1>7, <1>8, <1>9 DEF ReadsNext

\* An answer that was given stays right: what it was excused with does not go away.
LEMMA AnswersStay ==
    ASSUME AnswersAreRight, UNCHANGED reader, removed' \in {removed, TRUE},
           purged' \in {purged, TRUE},
           reader.answer = "did not succeed" /\ ~purged' => record' \in {record, Missing}
    PROVE  AnswersAreRight'
BY DEF AnswersAreRight

\* What may be answered, and with which status.
Right(what, status) ==
    /\ what \in {"payload missing", "crashed"} => removed \/ reader.torn
    /\ what = "empty" => reader.torn
    /\ what = "not finished" => ~reader.patient /\ (status \in Unfinished \/ reader.torn)
    /\ what = "not found" => purged
    /\ what = "did not succeed" /\ record # Missing /\ ~purged => status = record.status

LEMMA AnsweredRightly ==
    ASSUME ReadsTypeOK, NEW what, NEW status, AnswerWith(what, status),
           UNCHANGED <<removed, purged, record>>, Right(what, status)
    PROVE  AnswersAreRight'
<1>1. /\ reader'.answer = what /\ reader'.status = status
      /\ reader'.patient = reader.patient /\ reader'.torn = reader.torn
  BY AnswerGiven
<1>2. removed' = removed /\ purged' = purged /\ record' = record
  OBVIOUS
<1>3. /\ reader.torn \in BOOLEAN /\ removed \in BOOLEAN
      /\ reader.patient \in BOOLEAN /\ purged \in BOOLEAN
  BY DEF ReadsTypeOK, Calls
<1>4. Right(what, status)
  OBVIOUS
<1> QED
  BY ONLY <1>1, <1>2, <1>3, <1>4 DEF AnswersAreRight, Right

LEMMA AnswersAreRightKept ==
    ASSUME ReadsTypeOK, WriterIs, RowIs, EntryIs, CopyIs, ReaderIs, AnswersAreRight, [ReadsNext]_readsVars
    PROVE  AnswersAreRight'
<1> USE DEF jobSide, readerSide, mishapSide
<1>1. CASE SubmitJob \/ BeginSolve \/ PutVerdict
  <2>1. UNCHANGED <<reader, removed, purged>> /\ ~Late
    BY <1>1 DEF SubmitJob, BeginSolve, PutVerdict, SaveThenRecord, Late
  <2>2. reader.answer = "did not succeed" /\ ~purged => FALSE
    BY <2>1 DEF AnswersAreRight, ReaderIs, RowIs, Terminal
  <2> QED
    BY <2>1, <2>2, AnswersStay
<1>2. CASE ReportProgress \/ SolveEnds \/ TellVerdict \/ Absorb \/ RetireJob \/ SweepRows \/ SweepFiles
           \/ CleanUp \/ CheckOwner \/ ReadPage \/ UNCHANGED readsVars
  <2>1. /\ UNCHANGED reader /\ record' \in {record, Missing}
        /\ removed' \in {removed, TRUE} /\ purged' \in {purged, TRUE}
    BY <1>2 DEF ReportProgress, SolveEnds, TellVerdict, Absorb, RetireJob, SweepRows, SweepFiles,
                CleanUp, CheckOwner, ReadPage, readsVars
  <2> QED
    BY <2>1, AnswersStay
<1>3. CASE Restart \/ AskForAnswer \/ ReaderAgain
  <2>1. reader' = NoCall => reader'.answer = "none"
    BY DEF NoCall
  <2>2. AskForAnswer => reader'.answer = "none"
    BY DEF AskForAnswer, NoCall
  <2>3. reader'.answer = "none"
    BY <1>3, <2>1, <2>2 DEF Restart, ReaderAgain
  <2> QED
    BY <2>3 DEF AnswersAreRight
<1>4. CASE WaitForEnd
  <2>0. /\ UNCHANGED <<removed, purged, record>> /\ reader.at = "waiting" /\ reader.answer = "none"
        /\ record = Missing => purged
    BY <1>4 DEF WaitForEnd, ReaderIs, RowIs
  <2>1. CASE GoOnTo("asking")
    BY <2>0, <2>1, CallGoesOn DEF AnswersAreRight
  <2>2. CASE record = Missing /\ AnswerWith("not found", "none")
    <3>1. Right("not found", "none")
      BY <2>0, <2>2 DEF Right
    <3> QED
      BY <2>0, <2>2, <3>1, AnsweredRightly
  <2> QED
    BY <1>4, <2>1, <2>2 DEF WaitForEnd
<1>5. CASE GetJob
  <2>0. /\ UNCHANGED <<removed, purged, record>> /\ reader.at = "asking" /\ reader.answer = "none"
        /\ record = Missing => purged
    BY <1>5 DEF GetJob, ReaderIs, RowIs
  <2>1. CASE reader'.answer = "none"
    BY <2>1 DEF AnswersAreRight
  <2>2. CASE record = Missing /\ AnswerWith("not found", "none")
    <3>1. Right("not found", "none")
      BY <2>0, <2>2 DEF Right
    <3> QED
      BY <2>0, <2>2, <3>1, AnsweredRightly
  <2> QED
    BY <1>5, <2>0, <2>1, <2>2 DEF GetJob, ReadsTypeOK, Calls
<1>6. CASE LookForPayload \/ LoadPayload
  <2>0. /\ UNCHANGED <<removed, purged, record>> /\ reader.at \in {"looking", "loading"}
        /\ reader.answer = "none" /\ (payload \/ removed)
    BY <1>6 DEF LookForPayload, LoadPayload, ReaderIs, CopyIs
  <2>1. CASE reader'.answer = "none"
    BY <2>1 DEF AnswersAreRight
  <2>2. CASE ~payload /\ AnswerWith("crashed", "none")
    <3>1. Right("crashed", "none")
      BY <2>0, <2>2 DEF Right
    <3> QED
      BY <2>0, <2>2, <3>1, AnsweredRightly
  <2> QED
    BY <1>6, <2>0, <2>1, <2>2, CallGoesOn DEF LookForPayload, LoadPayload, ReadsTypeOK, Calls
<1>7. CASE CheckSucceeded \/ CheckDone \/ CheckPayload \/ BuildAnswer
  <2>0. /\ UNCHANGED <<removed, purged, record>>
        /\ reader.at \in {"checking", "checking done", "checking payload", "building"}
        /\ reader.answer = "none"
    BY <1>7 DEF CheckSucceeded, CheckDone, CheckPayload, BuildAnswer, ReaderIs
  <2>1. ASSUME NEW place, GoOnTo(place) PROVE AnswersAreRight'
    BY <2>0, <2>1, CallGoesOn DEF AnswersAreRight
  <2>2. CASE CheckSucceeded
    <3>1. InHand.status \in {"failed", "cancelled"} /\ ~purged => record.status = InHand.status
      <4>1. reader.holds \in {"entry", "record"}
        BY <2>0 DEF ReaderIs, Inside, ReadsTypeOK, Calls
      <4>2. CASE reader.holds = "record"
        BY <4>2 DEF InHand, CopyIs, Terminal
      <4>3. CASE reader.holds = "entry"
        BY <4>3 DEF InHand, EntryIs, RowOfVerdict, Row, Terminal
      <4> QED
        BY <4>1, <4>2, <4>3
    <3>2. CASE AnswerWith("did not succeed", InHand.status) /\ InHand.status \in {"failed", "cancelled"}
      <4>1. Right("did not succeed", InHand.status)
        BY <3>1, <3>2 DEF Right
      <4> QED
        BY <2>0, <3>2, <4>1, AnsweredRightly
    <3> QED
      BY <2>1, <2>2, <3>2 DEF CheckSucceeded
  <2>3. CASE CheckDone
    <3>1. CASE AnswerWith("not finished", InHand.status) /\ InHand.status # "done"
      <4>1. reader.at = "checking done" /\ reader.holds \in {"entry", "record"}
        BY <2>0, <2>3 DEF CheckDone, ReaderIs, ReadsTypeOK, Calls, Inside
      <4>2. InHand.status \in Unfinished \cup Terminal
        BY DEF InHand, ReadsTypeOK, Calls, Entries, Status
      <4>3. reader.patient => InHand.status \in Terminal
        BY <4>1 DEF InHand, EntryIs, CopyIs
      <4>4. Steady \/ reader.patient => InHand.status \notin Terminal
        BY <3>1, <4>1 DEF ReaderIs, Terminal
      <4>5. ~reader.patient /\ (InHand.status \in Unfinished \/ reader.torn)
        BY <4>1, <4>2, <4>3, <4>4 DEF Steady
      <4>6. Right("not finished", InHand.status)
        BY <4>5 DEF Right
      <4> QED
        BY <2>0, <3>1, <4>6, AnsweredRightly
    <3> QED
      BY <2>1, <2>3, <3>1 DEF CheckDone
  <2>4. CASE CheckPayload
    <3>1. CASE AnswerWith("payload missing", "done") /\ reader.fields /\ ~InHand.result
      <4>1. reader.at = "checking payload" /\ reader.holds \in {"entry", "record"}
        BY <2>0, <2>4 DEF CheckPayload, ReaderIs, ReadsTypeOK, Calls, Inside
      <4>2. Steady => InHand.status = "done"
        BY <4>1 DEF ReaderIs
      <4>3. ASSUME reader.holds = "record" PROVE removed
        <5>1. reader.copy.status = "done" /\ ~reader.copy.result
          BY <3>1, <4>2, <4>3 DEF InHand, Steady
        <5>2. reader.copy.summary = TRUE
          BY <4>3, <5>1 DEF CopyIs
        <5> QED
          BY <3>1, <4>1, <4>3, <5>1, <5>2 DEF CopyIs
      <4>4. ~(reader.holds = "entry" /\ ~reader.torn)
        BY <3>1, <4>2, EntryFacts DEF EntryIs, InHand, Steady
      <4>5. removed \/ reader.torn
        BY <4>1, <4>3, <4>4
      <4>6. Right("payload missing", "done")
        BY <4>5 DEF Right
      <4> QED
        BY <2>0, <3>1, <4>6, AnsweredRightly
    <3> QED
      BY <2>1, <2>4, <3>1 DEF CheckPayload
  <2>5. CASE BuildAnswer
    <3>1. reader.at = "building" /\ reader.holds \in {"entry", "record"}
      BY <2>0, <2>5 DEF BuildAnswer, ReaderIs, ReadsTypeOK, Calls, Inside
    <3>2. Steady => InHand.status = "done"
      BY <3>1 DEF ReaderIs
    <3>3. Steady => InHand.summary
      BY <3>1, <3>2, EntryFacts DEF Steady, InHand, EntryIs, CopyIs
    <3>4. ~InHand.summary => reader.torn
      BY <3>1, <3>3 DEF Steady
    <3>5. CASE AnswerWith("complete", "done")
      <4>1. Right("complete", "done")
        BY DEF Right
      <4> QED
        BY <2>0, <3>5, <4>1, AnsweredRightly
    <3>6. CASE AnswerWith("empty", "done") /\ ~InHand.summary
      <4>1. Right("empty", "done")
        BY <3>4, <3>6 DEF Right
      <4> QED
        BY <2>0, <3>6, <4>1, AnsweredRightly
    <3> QED
      BY <2>5, <3>5, <3>6 DEF BuildAnswer
  <2> QED
    BY <1>7, <2>2, <2>3, <2>4, <2>5
<1> QED
  BY <1>1, <1>2, <1>3, <1>4, <1>5, <1>6, <1>7 DEF ReadsNext

LEMMA RowTypes ==
    /\ Missing \in Rows /\ Row("queued", FALSE) \in Rows /\ Row("running", FALSE) \in Rows
    /\ Row("failed", FALSE) \in Rows /\ Row("done", TRUE) \in Rows
    /\ verdict \in Terminal => Row(verdict, verdict = "done") \in Rows
<1>1. \A s \in Status : Row(s, s = "done") \in Rows
  BY DEF Rows
<1>2. /\ Row("queued", "queued" = "done") = Row("queued", FALSE)
      /\ Row("running", "running" = "done") = Row("running", FALSE)
      /\ Row("failed", "failed" = "done") = Row("failed", FALSE)
      /\ Row("done", "done" = "done") = Row("done", TRUE)
  BY DEF Row
<1>3. {"queued", "running", "failed", "done"} \subseteq Status /\ Terminal \subseteq Status
  BY DEF Status, Unfinished, Terminal
<1>4. Missing \in Rows
  BY DEF Rows
<1> QED
  BY <1>1, <1>2, <1>3, <1>4

LEMMA NoCallType == NoCall \in Calls
BY DEF NoCall, Calls, Fresh, Entries, Status, Unfinished, Terminal, Inside, Answers

LEMMA AnswerType ==
    ASSUME reader \in Calls, NEW what \in Answers, NEW status \in Status \cup {"none"},
           AnswerWith(what, status)
    PROVE  reader' \in Calls
BY DEF AnswerWith, Calls

LEMMA GoOnType ==
    ASSUME reader \in Calls, NEW place \in Inside \cup {"asking"}, GoOnTo(place)
    PROVE  reader' \in Calls
BY DEF GoOnTo, Calls

\* What JobManager.get leaves in a caller's hands.
LEMMA HoldType ==
    ASSUME reader \in Calls, NEW place \in {"looking", "checking"},
           NEW holds \in {"entry", "record"}, NEW copy \in Entries, NEW torn \in BOOLEAN,
           reader' = [reader EXCEPT !.at = place, !.holds = holds, !.copy = copy, !.torn = torn]
    PROVE  reader' \in Calls
BY DEF Calls, Inside

\* A page is a page, and its events are events.
LEMMA PageTypes ==
    ASSUME told \in Seq(Event), poller \in Pollers, NEW limit \in Limits
    PROVE  Page(limit) \in Pollers
<1> DEFINE end == IF poller.next + limit < Len(told) THEN poller.next + limit ELSE Len(told)
           page == SubSeq(told, poller.next + 1, end)
<1>1. poller.next \in Nat /\ limit \in Nat /\ Len(told) \in Nat /\ poller.read \in Seq(Event)
  BY DEF Pollers
<1>2. page \in Seq(Event)
  <2>1. end \in Nat /\ end <= Len(told) /\ poller.next + 1 \in Nat /\ poller.next + 1 >= 1
    BY <1>1
  <2> HIDE DEF end
  <2>2. \A i \in (poller.next + 1)..end : told[i] \in Event
    BY <1>1, <2>1
  <2> QED
    BY <1>1, <2>1, <2>2, SubSeqProperties
<1>3. poller.next + Len(page) \in Nat /\ poller.read \o page \in Seq(Event)
  BY <1>1, <1>2
<1>4. EndsIn(page) \in BOOLEAN
  BY DEF EndsIn
<1>5. Page(limit) = [checked |-> FALSE, next |-> poller.next + Len(page),
                     read |-> poller.read \o page, final |-> EndsIn(page)]
  BY DEF Page
<1> HIDE DEF page
<1> QED
  BY <1>3, <1>4, <1>5 DEF Pollers

LEMMA InHandTypes ==
    ASSUME ReadsTypeOK
    PROVE  InHand \in Entries /\ InHand.status \in Status
BY DEF InHand, ReadsTypeOK, Calls, Entries

LEMMA ReadsTypeOKKept ==
    ASSUME ReadsTypeOK, WriterIs, ReaderIs, [ReadsNext]_readsVars
    PROVE  ReadsTypeOK'
<1> USE DEF jobSide, readerSide, mishapSide
<1>0. reader \in Calls
  BY DEF ReadsTypeOK
<1>1. CASE UNCHANGED jobSide /\ UNCHANGED mishapSide /\ reader' \in Calls /\ poller' \in Pollers
  BY <1>1 DEF ReadsTypeOK
<1>2. CASE SubmitJob
  BY <1>2, EventFacts, RowTypes DEF SubmitJob, ReadsTypeOK, WriterIs, Writers
<1>3. CASE BeginSolve
  <2>1. Append(told, StatusEvent("running")) \in Seq(Event)
    BY EventFacts DEF ReadsTypeOK
  <2> QED
    BY <1>3, <2>1, RowTypes DEF BeginSolve, ReadsTypeOK, Writers
<1>4. CASE ReportProgress
  BY <1>4, EventFacts, RowTypes DEF ReportProgress, ReadsTypeOK, WriterIs, Writers
<1>5. CASE SolveEnds
  BY <1>5, EventFacts, RowTypes DEF SolveEnds, ReadsTypeOK, WriterIs, Writers
<1>6. CASE PutVerdict
  BY <1>6, EventFacts, RowTypes DEF PutVerdict, ReadsTypeOK, WriterIs, Writers, SaveThenRecord
<1>7. CASE TellVerdict
  <2>1. StatusEvent(verdict) \in Event
    BY <1>7, EventFacts DEF TellVerdict, WriterIs
  <2>2. Append(told, StatusEvent(verdict)) \in Seq(Event)
    BY <2>1 DEF ReadsTypeOK
  <2> QED
    BY <1>7, <2>2 DEF TellVerdict, ReadsTypeOK, Writers
<1>8. CASE Absorb
  <2>1. verdict \in Status
    BY <1>8 DEF Absorb, AbsorbSteps, WriterIs, Status
  <2>2. entry' \in Entries
    BY <1>8, <2>1 DEF Absorb, AbsorbSteps, Entries, ReadsTypeOK
  <2> QED
    BY <1>8, <2>2 DEF Absorb, AbsorbSteps, ReadsTypeOK, Writers
<1>9. CASE RetireJob
  BY <1>9, EventFacts, RowTypes DEF RetireJob, ReadsTypeOK, WriterIs, Writers
<1>10. CASE SweepRows
  <2>1. <<>> \in Seq(Event)
    OBVIOUS
  <2> QED
    BY <1>10, <2>1, RowTypes DEF SweepRows, ReadsTypeOK
<1>11. CASE SweepFiles
  BY <1>11, EventFacts, RowTypes DEF SweepFiles, ReadsTypeOK, WriterIs, Writers
<1>12. CASE CleanUp
  BY <1>12, EventFacts, RowTypes DEF CleanUp, ReadsTypeOK, WriterIs, Writers
<1>13. CASE Restart
  <2>1. StatusEvent("failed") \in Event
    BY EventFacts DEF Terminal
  <2>2. told' \in Seq(Event) /\ record' \in Rows
    <3>1. Append(told, StatusEvent("failed")) \in Seq(Event)
      BY <2>1 DEF ReadsTypeOK
    <3> QED
      BY <1>13, <3>1, RowTypes DEF Restart, ReadsTypeOK
  <2>3. reader' \in Calls /\ poller' \in Pollers
    BY <1>13, NoCallType, AnswerType, GoOnType DEF Restart, ReadsTypeOK, Pollers
  <2> QED
    BY <1>13, <2>2, <2>3 DEF Restart, ReadsTypeOK, Writers
<1>14. CASE AskForAnswer
  <2>1. PICK patient, fields \in BOOLEAN :
             reader' = [NoCall EXCEPT !.at = IF patient THEN "waiting" ELSE "asking",
                                      !.patient = patient, !.fields = fields]
    BY <1>14 DEF AskForAnswer
  <2>2. reader' \in Calls
    BY ONLY <2>1, NoCallType DEF Calls
  <2> QED
    BY <1>1, <1>14, <2>2 DEF AskForAnswer, ReadsTypeOK
<1>15. CASE WaitForEnd
  <2>1. reader' \in Calls
    BY <1>15, NoCallType, AnswerType, GoOnType DEF WaitForEnd, ReadsTypeOK, Answers
  <2> QED
    BY <1>1, <1>15, <2>1 DEF WaitForEnd, ReadsTypeOK
<1>16. CASE GetJob
  <2>0. reader = [at |-> reader.at, patient |-> reader.patient, fields |-> reader.fields,
                  holds |-> reader.holds, copy |-> reader.copy, torn |-> reader.torn,
                  answer |-> reader.answer, status |-> reader.status]
        /\ reader.copy \in Entries /\ reader.torn \in BOOLEAN /\ reader.fields \in BOOLEAN
    BY <1>0 DEF Calls
  <2>1. ASSUME reader' = [reader EXCEPT !.at = "checking", !.holds = "entry",
                                        !.torn = (writer # "retiring")]
        PROVE  reader' \in Calls
    <3>1. PICK torn \in BOOLEAN : torn = (writer # "retiring")
      OBVIOUS
    <3>2. reader' = [reader EXCEPT !.at = "checking", !.holds = "entry", !.copy = reader.copy,
                                   !.torn = torn]
      BY <2>0, <2>1, <3>1
    <3> QED
      BY <1>0, <2>0, <3>1, <3>2, HoldType
  <2>2. ASSUME AnswerWith("not found", "none") PROVE reader' \in Calls
    <3>1. "not found" \in Answers /\ "none" \in Status \cup {"none"}
      BY DEF Answers
    <3> QED
      BY <1>0, <2>2, <3>1, AnswerType
  <2>3. ASSUME record # Missing,
               reader' = [reader EXCEPT
                  !.at = IF reader.fields /\ record.kind THEN "looking" ELSE "checking",
                  !.holds = "record",
                  !.copy = [status |-> record.status, result |-> FALSE, summary |-> record.kind]]
        PROVE  reader' \in Calls
    <3>1. record.status \in Status /\ record.kind \in BOOLEAN
      <4>1. PICK s \in Status : record = Row(s, s = "done")
        BY <2>3 DEF ReadsTypeOK, Rows
      <4>2. record.status = s /\ record.kind = (s = "done")
        BY <4>1 DEF Row
      <4> QED
        BY <4>2
    <3>2. PICK copy \in Entries :
             copy = [status |-> record.status, result |-> FALSE, summary |-> record.kind]
      BY <3>1 DEF Entries
    <3>3. PICK place \in {"looking", "checking"} :
             place = IF reader.fields /\ record.kind THEN "looking" ELSE "checking"
      OBVIOUS
    <3>4. reader' = [reader EXCEPT !.at = place, !.holds = "record", !.copy = copy]
      BY <2>3, <3>2, <3>3
    <3>5. reader' = [reader EXCEPT !.at = place, !.holds = "record", !.copy = copy,
                                   !.torn = reader.torn]
      BY ONLY <2>0, <3>4
    <3> QED
      BY <1>0, <2>0, <3>2, <3>3, <3>5, HoldType
  <2>4. reader' \in Calls
    BY <1>16, <2>1, <2>2, <2>3 DEF GetJob
  <2> QED
    BY <1>1, <1>16, <2>4 DEF GetJob, ReadsTypeOK
<1>17. CASE LookForPayload \/ LoadPayload
  <2>1. CASE LookForPayload
    <3>1. reader' \in Calls
      BY <1>0, <2>1, GoOnType DEF LookForPayload, Inside
    <3> QED
      BY <1>1, <2>1, <3>1 DEF LookForPayload, ReadsTypeOK
  <2>2. CASE LoadPayload
    <3>1. ASSUME reader' = [reader EXCEPT !.at = "checking", !.copy.result = TRUE]
          PROVE  reader' \in Calls
      <4>1. PICK copy \in Entries : copy = [reader.copy EXCEPT !.result = TRUE]
        BY <1>0 DEF Calls, Entries
      <4>2. reader' = [reader EXCEPT !.at = "checking", !.copy = copy]
        BY <3>1, <4>1
      <4> QED
        BY ONLY <1>0, <4>1, <4>2 DEF Calls, Inside
    <3>2. "crashed" \in Answers /\ "none" \in Status \cup {"none"}
      BY DEF Answers
    <3>3. reader' \in Calls
      BY <1>0, <2>2, <3>1, <3>2, AnswerType DEF LoadPayload
    <3> QED
      BY <1>1, <2>2, <3>3 DEF LoadPayload, ReadsTypeOK
  <2> QED
    BY <1>17, <2>1, <2>2
<1>18. CASE CheckSucceeded \/ CheckDone
  <2>1. reader' \in Calls
    BY <1>18, NoCallType, AnswerType, GoOnType, InHandTypes DEF CheckSucceeded, CheckDone, ReadsTypeOK, Answers, Inside
  <2> QED
    BY <1>1, <1>18, <2>1 DEF CheckSucceeded, CheckDone, ReadsTypeOK
<1>19. CASE CheckPayload \/ BuildAnswer
  <2>1. reader' \in Calls
    BY <1>19, NoCallType, AnswerType, GoOnType DEF CheckPayload, BuildAnswer, ReadsTypeOK, Answers, Inside, Status, Terminal
  <2> QED
    BY <1>1, <1>19, <2>1 DEF CheckPayload, BuildAnswer, ReadsTypeOK
<1>20. CASE ReaderAgain
  BY <1>1, <1>20, NoCallType, AnswerType, GoOnType DEF ReaderAgain, ReadsTypeOK
<1>21. CASE CheckOwner
  <2>1. poller' \in Pollers
    BY <1>21 DEF CheckOwner, ReadsTypeOK, Pollers
  <2> QED
    BY <1>1, <1>21, <2>1 DEF CheckOwner, ReadsTypeOK
<1>22. CASE ReadPage
  <2>1. poller' \in Pollers
    BY <1>22, PageTypes DEF ReadPage, ReadsTypeOK
  <2> QED
    BY <1>1, <1>22, <2>1 DEF ReadPage, ReadsTypeOK
<1>23. CASE UNCHANGED readsVars
  BY <1>1, <1>23 DEF readsVars, ReadsTypeOK
<1> QED
  BY <1>2, <1>3, <1>4, <1>5, <1>6, <1>7, <1>8, <1>9, <1>10, <1>11, <1>12, <1>13, <1>14, <1>15,
     <1>16, <1>17, <1>18, <1>19, <1>20, <1>21, <1>22, <1>23 DEF ReadsNext

\* A call and a page leave the job as it is.
LEMMA CallsLeaveTheJob ==
    ASSUME AskForAnswer \/ WaitForEnd \/ GetJob \/ LookForPayload \/ LoadPayload
            \/ CheckSucceeded \/ CheckDone \/ CheckPayload \/ BuildAnswer \/ ReaderAgain
            \/ CheckOwner \/ ReadPage \/ UNCHANGED readsVars
    PROVE  UNCHANGED jobSide /\ UNCHANGED mishapSide
BY DEF AskForAnswer, WaitForEnd, GetJob, LookForPayload, LoadPayload, CheckSucceeded,
       CheckDone, CheckPayload, BuildAnswer, ReaderAgain, CheckOwner, ReadPage,
       readsVars

LEMMA WriterIsKept ==
    ASSUME ReadsTypeOK, WriterIs, [ReadsNext]_readsVars
    PROVE  WriterIs'
<1> USE DEF jobSide, readerSide, mishapSide, WriterIs, ReadsTypeOK, Fresh, EntryOfVerdict, Terminal
<1>1. CASE SubmitJob
  BY <1>1 DEF SubmitJob
<1>2. CASE BeginSolve
  BY <1>2 DEF BeginSolve
<1>3. CASE ReportProgress
  BY <1>3 DEF ReportProgress
<1>4. CASE SolveEnds
  BY <1>4 DEF SolveEnds
<1>5. CASE PutVerdict
  BY <1>5 DEF PutVerdict, SaveThenRecord
<1>6. CASE TellVerdict
  BY <1>6 DEF TellVerdict
<1>7. CASE Absorb
  <2>1. CASE writer = "absorbing status"
    BY <1>7, <2>1 DEF Absorb, AbsorbSteps, Entries
  <2>2. CASE writer = "absorbing result"
    BY <1>7, <2>2 DEF Absorb, AbsorbSteps, Entries
  <2>3. CASE writer = "absorbing summary"
    BY <1>7, <2>3 DEF Absorb, AbsorbSteps, Entries
  <2> QED
    BY <1>7, <2>1, <2>2, <2>3 DEF Absorb, AbsorbSteps
<1>8. CASE RetireJob
  BY <1>8 DEF RetireJob
<1>9. CASE SweepRows
  BY <1>9 DEF SweepRows, Suspended
<1>10. CASE SweepFiles
  BY <1>10 DEF SweepFiles
<1>11. CASE CleanUp
  BY <1>11 DEF CleanUp
<1>12. CASE Restart
  BY <1>12 DEF Restart
<1>13. CASE AskForAnswer \/ WaitForEnd \/ GetJob \/ LookForPayload \/ LoadPayload
           \/ CheckSucceeded \/ CheckDone \/ CheckPayload \/ BuildAnswer \/ ReaderAgain
           \/ CheckOwner \/ ReadPage \/ UNCHANGED readsVars
  <2>1. UNCHANGED jobSide /\ UNCHANGED mishapSide
    BY ONLY <1>13, CallsLeaveTheJob
  <2> QED
    BY <2>1
<1> QED
  BY <1>1, <1>2, <1>3, <1>4, <1>5, <1>6, <1>7, <1>8, <1>9, <1>10, <1>11, <1>12, <1>13 DEF ReadsNext

\* The next process closes what the last one left open.
LEMMA RestartedRow ==
    ASSUME ReadsTypeOK, RowIs, Restart
    PROVE  /\ record'.status \notin Unfinished /\ (record' = Missing <=> record = Missing)
           /\ record'.kind => record.kind
<1>1. CASE record # Missing /\ record.status \in Unfinished
  <2>1. record' = Row("failed", FALSE)
    BY <1>1 DEF Restart
  <2> QED
    BY <1>1, <2>1 DEF Row, Missing, NoRow, Unfinished
<1>2. CASE ~(record # Missing /\ record.status \in Unfinished)
  <2>1. record' = record
    BY <1>2 DEF Restart
  <2> QED
    BY <1>2, <2>1 DEF Row, Missing, NoRow, Unfinished
<1> QED
  BY <1>1, <1>2

LEMMA RowIsKept ==
    ASSUME ReadsTypeOK, WriterIs, RowIs, [ReadsNext]_readsVars
    PROVE  RowIs'
<1> USE DEF jobSide, readerSide, mishapSide, RowIs, WriterIs, ReadsTypeOK, RowOfVerdict, Row, Rows, Missing,
           NoRow, Late, Terminal, Unfinished, Status
<1>1. CASE SubmitJob
  BY <1>1 DEF SubmitJob
<1>2. CASE BeginSolve
  BY <1>2 DEF BeginSolve
<1>3. CASE ReportProgress
  BY <1>3 DEF ReportProgress
<1>4. CASE SolveEnds
  BY <1>4 DEF SolveEnds
<1>5. CASE PutVerdict
  <2>1. CASE writer = "saving"
    BY <1>5, <2>1 DEF PutVerdict, SaveThenRecord
  <2>2. CASE writer = "recording"
    BY <1>5, <2>2 DEF PutVerdict, SaveThenRecord
  <2> QED
    BY <1>5, <2>1, <2>2 DEF PutVerdict, SaveThenRecord
<1>6. CASE TellVerdict
  BY <1>6 DEF TellVerdict
<1>7. CASE Absorb
  BY <1>7 DEF Absorb, AbsorbSteps
<1>8. CASE RetireJob
  BY <1>8 DEF RetireJob
<1>9. CASE SweepRows
  BY <1>9 DEF SweepRows, Suspended
<1>10. CASE SweepFiles
  BY <1>10 DEF SweepFiles
<1>11. CASE CleanUp
  BY <1>11 DEF CleanUp
<1>12. CASE Restart
  <2>1. /\ writer # "submitting" /\ writer' = "ended"
        /\ UNCHANGED <<verdict, payload, purged, removed>>
    BY <1>12 DEF Restart
  <2>2. /\ record'.status \notin Unfinished /\ (record' = Missing <=> record = Missing)
        /\ record'.kind => record.kind
    BY <1>12, RestartedRow
  <2> QED
    BY ONLY RowIs, <2>1, <2>2 DEF RowIs, Late
<1>13. CASE AskForAnswer \/ WaitForEnd \/ GetJob \/ LookForPayload \/ LoadPayload
           \/ CheckSucceeded \/ CheckDone \/ CheckPayload \/ BuildAnswer \/ ReaderAgain
           \/ CheckOwner \/ ReadPage \/ UNCHANGED readsVars
  <2>1. UNCHANGED jobSide /\ UNCHANGED mishapSide
    BY ONLY <1>13, CallsLeaveTheJob
  <2> QED
    BY <2>1
<1> QED
  BY <1>1, <1>2, <1>3, <1>4, <1>5, <1>6, <1>7, <1>8, <1>9, <1>10, <1>11, <1>12, <1>13 DEF ReadsNext

\* A call keeps what it was handed until it ends.
LEMMA CallKeepsWhatItHolds ==
    ASSUME ReadsTypeOK,
           WaitForEnd \/ LookForPayload \/ LoadPayload \/ CheckSucceeded \/ CheckDone
             \/ CheckPayload \/ BuildAnswer \/ CheckOwner \/ ReadPage \/ UNCHANGED readsVars
    PROVE  /\ reader'.holds = reader.holds /\ reader'.torn = reader.torn
           /\ reader'.patient = reader.patient /\ reader'.fields = reader.fields
           /\ reader'.copy.status = reader.copy.status
           /\ reader'.copy.summary = reader.copy.summary
<1>1. CASE UNCHANGED reader
  BY <1>1
<1>2. CASE \E what, status : AnswerWith(what, status)
  BY <1>2, AnswerGiven
<1>3. CASE \E place : GoOnTo(place)
  BY <1>3, CallGoesOn
<1>4. CASE reader' = [reader EXCEPT !.at = "checking", !.copy.result = TRUE]
  BY <1>4 DEF ReadsTypeOK, Calls, Entries
<1> QED
  BY <1>1, <1>2, <1>3, <1>4
  DEF WaitForEnd, LookForPayload, LoadPayload, CheckSucceeded, CheckDone, CheckPayload,
      BuildAnswer, CheckOwner, ReadPage, readsVars, readerSide

\* What JobManager.get hands over, and what it leaves of the call.
LEMMA Handed ==
    ASSUME ReadsTypeOK, ReaderIs, GetJob
    PROVE  \/ /\ cached /\ reader'.at = "checking" /\ reader'.holds = "entry"
              /\ reader'.torn = (writer # "retiring") /\ reader'.patient = reader.patient
           \/ reader'.holds = "nothing"
           \/ /\ ~cached /\ record # Missing /\ reader'.holds = "record"
              /\ reader'.at = IF reader.fields /\ record.kind THEN "looking" ELSE "checking"
              /\ reader'.copy.status = record.status /\ reader'.copy.summary = record.kind
              /\ reader'.patient = reader.patient /\ reader'.fields = reader.fields
<1>1. CASE cached
  <2>1. reader' = [reader EXCEPT !.at = "checking", !.holds = "entry", !.torn = (writer # "retiring")]
    BY <1>1 DEF GetJob, ReadsTypeOK
  <2>2. PICK torn : torn = (writer # "retiring")
    OBVIOUS
  <2>3. /\ reader'.at = "checking" /\ reader'.holds = "entry" /\ reader'.torn = torn
        /\ reader'.patient = reader.patient
    BY <2>1, <2>2 DEF ReadsTypeOK, Calls
  <2> QED
    BY <1>1, <2>2, <2>3
<1>2. CASE ~cached /\ record = Missing
  <2>1. AnswerWith("not found", "none") /\ reader.holds = "nothing"
    BY <1>2 DEF GetJob, ReaderIs
  <2> QED
    BY <2>1, AnswerGiven
<1>3. CASE ~cached /\ record # Missing
  <2>1. PICK copy : copy = [status |-> record.status, result |-> FALSE, summary |-> record.kind]
    OBVIOUS
  <2>2. PICK place : place = IF reader.fields /\ record.kind THEN "looking" ELSE "checking"
    OBVIOUS
  <2>3. reader' = [reader EXCEPT !.at = place, !.holds = "record", !.copy = copy]
    BY <1>3, <2>1, <2>2 DEF GetJob
  <2>4. copy.status = record.status /\ copy.summary = record.kind
    BY ONLY <2>1
  <2>5. reader \in Calls
    BY DEF ReadsTypeOK
  <2>6. /\ reader'.at = place /\ reader'.holds = "record" /\ reader'.copy = copy
        /\ reader'.patient = reader.patient /\ reader'.fields = reader.fields
    BY ONLY <2>3, <2>5 DEF Calls
  <2> QED
    BY ONLY <1>3, <2>2, <2>4, <2>6
<1> QED
  BY <1>1, <1>2, <1>3

\* A call begins with empty hands.
LEMMA BeginsEmptyHanded ==
    ASSUME AskForAnswer \/ ReaderAgain
    PROVE  reader'.holds = "nothing"
<1>1. CASE AskForAnswer
  <2>1. PICK patient, fields \in BOOLEAN :
           reader' = [NoCall EXCEPT !.at = IF patient THEN "waiting" ELSE "asking",
                                    !.patient = patient, !.fields = fields]
    BY <1>1 DEF AskForAnswer
  <2> QED
    BY <2>1 DEF NoCall
<1>2. CASE ReaderAgain
  BY <1>2 DEF ReaderAgain, NoCall
<1> QED
  BY <1>1, <1>2

\* A live entry that tells a verdict tells the job's, and is told late.
LEMMA LiveEntry ==
    ASSUME ReadsTypeOK, WriterIs, cached, entry.status \in Terminal
    PROVE  Late /\ entry.status = verdict /\ writer # "ended"
<1>1. entry # Fresh
  BY EntryFacts
<1>2. writer \in {"absorbing result", "absorbing summary", "retiring"}
  BY <1>1 DEF WriterIs, ReadsTypeOK, Writers
<1> QED
  BY <1>2, EntryFacts DEF WriterIs, Late

LEMMA RowFacts ==
    ASSUME ReadsTypeOK, record # Missing
    PROVE  record.status \in Unfinished \cup Terminal /\ record.kind = (record.status = "done")
<1>1. PICK s \in Status : record = Row(s, s = "done")
  BY DEF ReadsTypeOK, Rows
<1> QED
  BY <1>1 DEF Row, Status

\* Only JobManager.get and a look at the payload bring a call to the payload.
LEMMA CallMovesOn ==
    ASSUME ReadsTypeOK,
           WaitForEnd \/ CheckSucceeded \/ CheckDone \/ CheckPayload \/ BuildAnswer
    PROVE  reader'.at \notin {"looking", "loading"}
<1>1. CASE WaitForEnd
  BY <1>1 DEF WaitForEnd, AnswerWith, GoOnTo, ReadsTypeOK, Calls
<1>2. CASE CheckSucceeded
  BY <1>2 DEF CheckSucceeded, AnswerWith, GoOnTo, ReadsTypeOK, Calls
<1>3. CASE CheckDone
  BY <1>3 DEF CheckDone, AnswerWith, GoOnTo, ReadsTypeOK, Calls
<1>4. CASE CheckPayload
  BY <1>4 DEF CheckPayload, AnswerWith, GoOnTo, ReadsTypeOK, Calls
<1>5. CASE BuildAnswer
  BY <1>5 DEF BuildAnswer, AnswerWith, GoOnTo, ReadsTypeOK, Calls
<1> QED
  BY <1>1, <1>2, <1>3, <1>4, <1>5

LEMMA EntryIsKept ==
    ASSUME ReadsTypeOK, WriterIs, RowIs, EntryIs, ReaderIs, [ReadsNext]_readsVars
    PROVE  EntryIs'
<1> USE DEF jobSide, readerSide, mishapSide, EntryIs, ReaderIs, RowIs, WriterIs, ReadsTypeOK,
        RowOfVerdict, EntryOfVerdict, Late, Terminal, Unfinished, Status, Fresh, NoCall, Entries, Writers
<1>1. CASE SubmitJob
  BY <1>1 DEF SubmitJob
<1>2. CASE BeginSolve
  BY <1>2 DEF BeginSolve
<1>3. CASE ReportProgress
  BY <1>3 DEF ReportProgress
<1>4. CASE SolveEnds
  BY <1>4 DEF SolveEnds
<1>5. CASE PutVerdict
  BY <1>5 DEF PutVerdict, SaveThenRecord
<1>6. CASE TellVerdict
  BY <1>6 DEF TellVerdict
<1>7. CASE Absorb
  BY <1>7 DEF Absorb, AbsorbSteps
<1>8. CASE RetireJob
  BY <1>8 DEF RetireJob
<1>9. CASE SweepRows
  BY <1>9 DEF SweepRows, Suspended
<1>10. CASE SweepFiles
  BY <1>10 DEF SweepFiles
<1>11. CASE CleanUp
  BY <1>11 DEF CleanUp
<1>12. CASE Restart
  BY <1>12 DEF Restart
<1>13. CASE AskForAnswer \/ ReaderAgain
  <2>1. reader'.holds = "nothing"
    BY ONLY <1>13, BeginsEmptyHanded
  <2> QED
    BY ONLY <2>1 DEF EntryIs
<1>14. CASE GetJob
  <2>1. UNCHANGED jobSide /\ UNCHANGED mishapSide
    BY ONLY <1>14, CallsLeaveTheJob
  <2>2. CASE /\ cached /\ reader'.at = "checking" /\ reader'.holds = "entry"
             /\ reader'.torn = (writer # "retiring") /\ reader'.patient = reader.patient
    <3>1. reader.at = "asking"
      BY <1>14 DEF GetJob
    <3>2. /\ writer # "submitting" /\ (reader.patient => entry.status \in Terminal)
          /\ writer = "retiring" => entry = EntryOfVerdict /\ verdict \in Terminal
      BY <2>2, <3>1
    <3>3. entry.status \in Terminal => Late /\ entry.status = verdict /\ writer # "ended"
      BY ONLY <2>2, ReadsTypeOK, WriterIs, LiveEntry
    <3>4. entry.status \in Terminal /\ ~purged => record = RowOfVerdict
      BY <3>3
    <3>5. /\ UNCHANGED <<writer, entry, verdict, purged, record>>
          /\ Late' = Late /\ RowOfVerdict' = RowOfVerdict /\ EntryOfVerdict' = EntryOfVerdict
      BY <2>1
    <3> QED
      BY ONLY <2>2, <3>2, <3>3, <3>4, <3>5 DEF EntryIs
  <2> QED
    BY ONLY <1>14, ReadsTypeOK, ReaderIs, Handed, <2>2 DEF EntryIs
<1>15. CASE WaitForEnd \/ LookForPayload \/ LoadPayload \/ CheckSucceeded \/ CheckDone
           \/ CheckPayload \/ BuildAnswer \/ CheckOwner \/ ReadPage \/ UNCHANGED readsVars
  <2>1. UNCHANGED jobSide /\ UNCHANGED mishapSide
    BY ONLY <1>15, CallsLeaveTheJob
  <2>2. /\ reader'.holds = reader.holds /\ reader'.torn = reader.torn
        /\ reader'.patient = reader.patient
    BY ONLY <1>15, ReadsTypeOK, CallKeepsWhatItHolds
  <2> QED
    BY ONLY EntryIs, <2>1, <2>2 DEF EntryIs, jobSide, mishapSide, RowOfVerdict, EntryOfVerdict, Late
<1> QED
  BY <1>1, <1>2, <1>3, <1>4, <1>5, <1>6, <1>7, <1>8, <1>9, <1>10, <1>11, <1>12, <1>13, <1>14, <1>15 DEF ReadsNext

LEMMA CopyIsKept ==
    ASSUME ReadsTypeOK, WriterIs, RowIs, CopyIs, ReaderIs, [ReadsNext]_readsVars
    PROVE  CopyIs'
<1> USE DEF jobSide, readerSide, mishapSide, CopyIs, ReaderIs, RowIs, WriterIs, ReadsTypeOK,
        Row, Rows, Missing, NoRow, RowOfVerdict, EntryOfVerdict, Late, Terminal, Unfinished, Status,
        Fresh, NoCall, Entries
<1>1. CASE SubmitJob
  BY <1>1 DEF SubmitJob
<1>2. CASE BeginSolve
  BY <1>2 DEF BeginSolve
<1>3. CASE ReportProgress
  BY <1>3 DEF ReportProgress
<1>4. CASE SolveEnds
  BY <1>4 DEF SolveEnds
<1>5. CASE PutVerdict
  BY <1>5 DEF PutVerdict, SaveThenRecord
<1>6. CASE TellVerdict
  BY <1>6 DEF TellVerdict
<1>7. CASE Absorb
  BY <1>7 DEF Absorb, AbsorbSteps
<1>8. CASE RetireJob
  BY <1>8 DEF RetireJob
<1>9. CASE SweepRows
  BY <1>9 DEF SweepRows, Suspended
<1>10. CASE SweepFiles
  BY <1>10 DEF SweepFiles
<1>11. CASE CleanUp
  BY <1>11 DEF CleanUp
<1>12. CASE Restart
  BY <1>12 DEF Restart
<1>13. CASE AskForAnswer \/ ReaderAgain
  <2>1. reader'.holds = "nothing"
    BY ONLY <1>13, BeginsEmptyHanded
  <2> QED
    BY ONLY <2>1 DEF CopyIs
<1>14. CASE GetJob
  <2>1. UNCHANGED jobSide /\ UNCHANGED mishapSide
    BY ONLY <1>14, CallsLeaveTheJob
  <2>2. CASE /\ ~cached /\ record # Missing /\ reader'.holds = "record"
             /\ reader'.at = IF reader.fields /\ record.kind THEN "looking" ELSE "checking"
             /\ reader'.copy.status = record.status /\ reader'.copy.summary = record.kind
             /\ reader'.patient = reader.patient /\ reader'.fields = reader.fields
    <3>1. reader.at = "asking"
      BY <1>14 DEF GetJob
    <3>2. record.status \in Unfinished \cup Terminal /\ record.kind = (record.status = "done")
      BY ONLY <2>2, ReadsTypeOK, RowFacts
    <3>3. reader.patient => record.status \in Terminal
      <4>1. reader.patient => record.status \notin Unfinished
        BY <3>1
      <4> QED
        BY <3>2, <4>1
    <3>4. record.kind => payload \/ removed
      OBVIOUS
    <3>5. UNCHANGED <<payload, removed, purged, record>>
      BY <2>1
    <3> QED
      BY ONLY <2>2, <3>2, <3>3, <3>4, <3>5 DEF CopyIs
  <2> QED
    BY ONLY <1>14, ReadsTypeOK, ReaderIs, Handed, <2>2 DEF CopyIs
<1>15. CASE WaitForEnd \/ LookForPayload \/ LoadPayload \/ CheckSucceeded \/ CheckDone
           \/ CheckPayload \/ BuildAnswer \/ CheckOwner \/ ReadPage \/ UNCHANGED readsVars
  <2>1. UNCHANGED jobSide /\ UNCHANGED mishapSide
    BY ONLY <1>15, CallsLeaveTheJob
  <2>2. /\ reader'.holds = reader.holds /\ reader'.torn = reader.torn
        /\ reader'.patient = reader.patient /\ reader'.fields = reader.fields
        /\ reader'.copy.status = reader.copy.status
        /\ reader'.copy.summary = reader.copy.summary
    BY ONLY <1>15, ReadsTypeOK, CallKeepsWhatItHolds
  <2>3. ASSUME reader.holds = "record", reader'.at \in {"looking", "loading"}
        PROVE  reader.copy.summary /\ (payload \/ removed)
    <3>1. reader.at \in {"looking", "loading"}
      <4>1. CASE LookForPayload \/ LoadPayload
        BY ONLY <4>1 DEF LookForPayload, LoadPayload
      <4>2. CASE WaitForEnd \/ CheckSucceeded \/ CheckDone \/ CheckPayload \/ BuildAnswer
        BY ONLY <2>3, <4>2, ReadsTypeOK, CallMovesOn
      <4>3. CASE CheckOwner \/ ReadPage \/ UNCHANGED readsVars
        BY ONLY <2>3, <4>3 DEF CheckOwner, ReadPage, readsVars, readerSide
      <4> QED
        BY ONLY <1>15, <4>1, <4>2, <4>3
    <3> QED
      BY ONLY <2>3, <3>1, CopyIs DEF CopyIs
  <2>4. ASSUME reader.holds = "record", reader.fields, reader.copy.summary,
               reader'.at \in {"checking", "checking done", "checking payload"}
        PROVE  reader'.copy.result \/ removed
    <3>1. CASE LoadPayload
      <4>1. ASSUME AnswerWith("crashed", "none") PROVE FALSE
        BY ONLY <2>4, <4>1, ReadsTypeOK, AnswerGiven
      <4>2. reader' = [reader EXCEPT !.at = "checking", !.copy.result = TRUE]
        BY ONLY <3>1, <4>1 DEF LoadPayload
      <4>3. reader \in Calls
        BY ONLY ReadsTypeOK DEF ReadsTypeOK
      <4> QED
        BY ONLY <4>2, <4>3 DEF Calls, Entries
    <3>2. CASE LookForPayload
      <4>1. reader.at = "looking" /\ (payload => reader'.at = "loading")
        BY ONLY <3>2, ReadsTypeOK, CallGoesOn DEF LookForPayload
      <4> QED
        BY ONLY <2>4, <4>1, CopyIs DEF CopyIs
    <3>3. CASE ~LoadPayload /\ ~LookForPayload
      <4>1. /\ reader.at \in {"checking", "checking done", "checking payload"}
            /\ reader'.copy = reader.copy
        BY ONLY <1>15, <2>4, <3>3, ReadsTypeOK, ReaderIs, AnswerGiven, CallGoesOn
        DEF WaitForEnd, CheckSucceeded, CheckDone, CheckPayload, ReaderIs,
            BuildAnswer, CheckOwner, ReadPage, readsVars, readerSide
      <4> QED
        BY ONLY <2>4, <4>1, CopyIs DEF CopyIs
    <3> QED
      BY <3>1, <3>2, <3>3
  <2>5. UNCHANGED <<payload, removed, purged, record>>
    BY <2>1
  <2> QED
    BY ONLY CopyIs, <2>2, <2>3, <2>4, <2>5 DEF CopyIs
<1> QED
  BY <1>1, <1>2, <1>3, <1>4, <1>5, <1>6, <1>7, <1>8, <1>9, <1>10, <1>11, <1>12, <1>13, <1>14, <1>15 DEF ReadsNext

LEMMA PrefixOf ==
    ASSUME NEW l \in Seq(Event), NEW m \in Nat, NEW n \in Nat, m <= n, n <= Len(l)
    PROVE  /\ SubSeq(l, m + 1, n) \in Seq(Event) /\ Len(SubSeq(l, m + 1, n)) = n - m
           /\ \A i \in 1..n - m : SubSeq(l, m + 1, n)[i] = l[m + i]
<1>1. m + 1 \in Int /\ n \in Int /\ \A i \in (m + 1)..n : l[i] \in Event
  OBVIOUS
<1>2. /\ SubSeq(l, m + 1, n) \in Seq(Event)
      /\ Len(SubSeq(l, m + 1, n)) = IF m + 1 <= n THEN n - (m + 1) + 1 ELSE 0
      /\ \A i \in 1..n - (m + 1) + 1 : SubSeq(l, m + 1, n)[i] = l[m + 1 + i - 1]
  BY <1>1, SubSeqProperties
<1>3. n - (m + 1) + 1 = n - m /\ \A i \in 1..n - m : m + 1 + i - 1 = m + i
  OBVIOUS
<1> QED
  BY <1>2, <1>3

\* A page of a log goes on where the part before it ended.
LEMMA PrefixThenPage ==
    ASSUME NEW l \in Seq(Event), NEW m \in Nat, NEW n \in Nat, m <= n, n <= Len(l)
    PROVE  SubSeq(l, 1, m) \o SubSeq(l, m + 1, n) = SubSeq(l, 1, n)
<1> DEFINE before == SubSeq(l, 1, m)
           page   == SubSeq(l, m + 1, n)
           both   == SubSeq(l, 1, n)
<1>1. /\ before \in Seq(Event) /\ Len(before) = m /\ \A i \in 1..m : before[i] = l[i]
  BY PrefixOf, 0 + 1 = 1
<1>2. /\ page \in Seq(Event) /\ Len(page) = n - m /\ \A i \in 1..n - m : page[i] = l[m + i]
  BY PrefixOf
<1>3. /\ both \in Seq(Event) /\ Len(both) = n /\ \A i \in 1..n : both[i] = l[i]
  BY PrefixOf, 0 + 1 = 1
<1> HIDE DEF before, page, both
<1>4. /\ before \o page \in Seq(Event) /\ Len(before \o page) = n
      /\ \A i \in 1..n : (before \o page)[i] = IF i <= m THEN before[i] ELSE page[i - m]
  <2>1. /\ before \o page \in Seq(Event) /\ Len(before \o page) = m + (n - m)
        /\ \A i \in 1..m + (n - m) : (before \o page)[i] = IF i <= m THEN before[i] ELSE page[i - m]
    <3>1. /\ before \o page \in Seq(Event) /\ Len(before \o page) = Len(before) + Len(page)
          /\ \A i \in 1..Len(before) + Len(page) :
               (before \o page)[i] = IF i <= Len(before) THEN before[i] ELSE page[i - Len(before)]
      BY ONLY <1>1, <1>2, ConcatProperties
    <3> QED
      BY ONLY <1>1, <1>2, <3>1
  <2>2. m + (n - m) = n
    OBVIOUS
  <2> QED
    BY ONLY <2>1, <2>2
<1>5. \A i \in 1..n : (before \o page)[i] = both[i]
  <2> TAKE i \in 1..n
  <2>1. CASE i <= m
    BY <1>1, <1>3, <1>4, <2>1
  <2>2. CASE ~(i <= m)
    <3>1. i - m \in 1..n - m /\ m + (i - m) = i
      BY <2>2
    <3>2. page[i - m] = l[i]
      BY <1>2, <3>1
    <3> QED
      BY <1>3, <1>4, <2>2, <3>2
  <2> QED
    BY <2>1, <2>2
<1> QED
  BY <1>3, <1>4, <1>5, SeqEqual DEF before, page, both

\* What a poller read is no other when the log grows.
LEMMA GrownLog ==
    ASSUME NEW l \in Seq(Event), NEW e \in Event, NEW m \in Nat, m <= Len(l)
    PROVE  /\ SubSeq(Append(l, e), 1, m) = SubSeq(l, 1, m)
           /\ m <= Len(Append(l, e))
<1>1. /\ Append(l, e) \in Seq(Event) /\ Len(Append(l, e)) = Len(l) + 1
      /\ \A i \in 1..Len(l) : Append(l, e)[i] = l[i]
  BY AppendProperties
<1>2. /\ SubSeq(l, 1, m) \in Seq(Event) /\ Len(SubSeq(l, 1, m)) = m
      /\ \A i \in 1..m : SubSeq(l, 1, m)[i] = l[i]
  BY PrefixOf, 0 + 1 = 1
<1>3. /\ SubSeq(Append(l, e), 1, m) \in Seq(Event) /\ Len(SubSeq(Append(l, e), 1, m)) = m
      /\ \A i \in 1..m : SubSeq(Append(l, e), 1, m)[i] = Append(l, e)[i]
  BY <1>1, PrefixOf, 0 + 1 = 1
<1>4. \A i \in 1..m : SubSeq(Append(l, e), 1, m)[i] = SubSeq(l, 1, m)[i]
  BY <1>1, <1>2, <1>3
<1> QED
  BY <1>1, <1>2, <1>3, <1>4, SeqEqual

\* A verdict is in what was read and the page together if it is in one of them.
LEMMA EndsInEither ==
    ASSUME NEW a \in Seq(Event), NEW b \in Seq(Event)
    PROVE  EndsIn(a \o b) = (EndsIn(a) \/ EndsIn(b))
<1>1. /\ Len(a \o b) = Len(a) + Len(b) /\ DOMAIN (a \o b) = 1..Len(a) + Len(b)
      /\ DOMAIN a = 1..Len(a) /\ DOMAIN b = 1..Len(b) /\ Len(a) \in Nat /\ Len(b) \in Nat
      /\ \A i \in 1..Len(a) : (a \o b)[i] = a[i]
      /\ \A i \in 1..Len(b) : (a \o b)[Len(a) + i] = b[i]
  OBVIOUS
<1>2. ASSUME EndsIn(a \o b) PROVE EndsIn(a) \/ EndsIn(b)
  <2>1. PICK i \in 1..Len(a) + Len(b) : IsTerminal((a \o b)[i])
    BY <1>1, <1>2 DEF EndsIn
  <2>2. CASE i <= Len(a)
    BY <1>1, <2>1, <2>2 DEF EndsIn
  <2>3. CASE ~(i <= Len(a))
    <3>1. i - Len(a) \in 1..Len(b) /\ Len(a) + (i - Len(a)) = i
      BY <1>1, <2>1, <2>3
    <3>2. (a \o b)[i] = b[i - Len(a)]
      BY <1>1, <3>1
    <3> QED
      BY <1>1, <2>1, <3>1, <3>2 DEF EndsIn
  <2> QED
    BY <2>2, <2>3
<1>3. ASSUME EndsIn(a) PROVE EndsIn(a \o b)
  <2>1. PICK i \in 1..Len(a) : IsTerminal(a[i])
    BY <1>1, <1>3 DEF EndsIn
  <2>2. i \in 1..Len(a) + Len(b) /\ IsTerminal((a \o b)[i])
    BY <1>1, <2>1
  <2> QED
    BY <1>1, <2>2 DEF EndsIn
<1>4. ASSUME EndsIn(b) PROVE EndsIn(a \o b)
  <2>1. PICK i \in 1..Len(b) : IsTerminal(b[i])
    BY <1>1, <1>4 DEF EndsIn
  <2>2. Len(a) + i \in 1..Len(a) + Len(b) /\ IsTerminal((a \o b)[Len(a) + i])
    BY <1>1, <2>1
  <2> QED
    BY <1>1, <2>2 DEF EndsIn
<1>5. EndsIn(a \o b) \in BOOLEAN /\ EndsIn(a) \in BOOLEAN /\ EndsIn(b) \in BOOLEAN
  BY DEF EndsIn
<1> HIDE DEF EndsIn
<1> QED
  BY <1>2, <1>3, <1>4, <1>5

PagesInv == PollerIs /\ PagesAreTheLog

\* A step that leaves the pages alone and at most adds to the log.
LEMMA PagesStay ==
    ASSUME ReadsTypeOK, PagesInv, UNCHANGED purged, NEW e \in Event,
           told' \in {told, Append(told, e)},
           poller' \in {poller, [poller EXCEPT !.checked = FALSE]}
    PROVE  PagesInv'
<1>1. /\ poller'.next = poller.next /\ poller'.read = poller.read /\ poller'.final = poller.final
      /\ poller'.checked => poller.checked
  BY DEF ReadsTypeOK, Pollers
<1>2. poller.next \in Nat /\ told \in Seq(Event)
  BY DEF ReadsTypeOK, Pollers
<1>3. ~purged => poller.next <= Len(told)
  BY DEF PagesInv, PollerIs
<1>4. ~purged => /\ SubSeq(told', 1, poller.next) = SubSeq(told, 1, poller.next)
                 /\ poller.next <= Len(told')
  <2>1. CASE told' = told
    BY <1>3, <2>1
  <2>2. CASE told' = Append(told, e)
    BY <1>2, <1>3, <2>2, GrownLog
  <2> QED
    BY <2>1, <2>2
<1>5. purged' = purged
  OBVIOUS
<1> QED
  BY ONLY PagesInv, <1>1, <1>4, <1>5 DEF PagesInv, PollerIs, PagesAreTheLog

\* The page a poller is handed continues what it read.
LEMMA PageKeeps ==
    ASSUME ReadsTypeOK, PagesInv, ReadPage
    PROVE  PagesInv'
<1>1. PICK limit \in Limits : poller' = Page(limit)
  BY DEF ReadPage
<1> DEFINE end  == IF poller.next + limit < Len(told) THEN poller.next + limit ELSE Len(told)
           page == SubSeq(told, poller.next + 1, end)
<1>2. /\ poller' = [checked |-> FALSE, next |-> poller.next + Len(page),
                    read |-> poller.read \o page, final |-> EndsIn(page)]
      /\ poller.checked
  BY <1>1 DEF Page, ReadPage
<1>3. /\ ~poller'.checked /\ poller'.next = poller.next + Len(page)
      /\ poller'.read = poller.read \o page /\ poller'.final = EndsIn(page)
  BY <1>2
<1>4. UNCHANGED <<told, purged>>
  BY DEF ReadPage, jobSide, mishapSide
<1>5. ASSUME ~purged
      PROVE  /\ poller'.next <= Len(told)
             /\ poller'.read = SubSeq(told, 1, poller'.next)
             /\ poller'.next = Len(poller'.read)
             /\ poller'.final = EndsIn(poller'.read)
  <2>1. /\ poller.next \in Nat /\ poller.next <= Len(told) /\ limit \in Nat /\ Len(told) \in Nat
        /\ told \in Seq(Event) /\ poller.read \in Seq(Event)
    BY <1>5 DEF PagesInv, PollerIs, ReadsTypeOK, Pollers
  <2>2. end \in Nat /\ poller.next <= end /\ end <= Len(told)
    BY <2>1
  <2>3. /\ poller.read = SubSeq(told, 1, poller.next) /\ poller.next = Len(poller.read)
        /\ poller.final = EndsIn(poller.read) /\ ~poller.final
    BY <1>2, <1>5 DEF PagesInv, PollerIs, PagesAreTheLog
  <2> HIDE DEF end
  <2>4. page \in Seq(Event) /\ Len(page) = end - poller.next
    BY <2>1, <2>2, PrefixOf
  <2>5. poller.read \o page = SubSeq(told, 1, end)
    <3>1. SubSeq(told, 1, poller.next) \o SubSeq(told, poller.next + 1, end) = SubSeq(told, 1, end)
      BY ONLY <2>1, <2>2, PrefixThenPage
    <3> QED
      BY ONLY <2>3, <3>1
  <2>6. poller'.next = end
    BY <1>3, <2>1, <2>2, <2>4
  <2>7. Len(poller'.read) = end
    <3>1. Len(SubSeq(told, 1, end)) = end
      BY <2>1, <2>2, PrefixOf, 0 + 1 = 1
    <3> QED
      BY <1>3, <2>5, <3>1
  <2>8. EndsIn(poller.read \o page) = EndsIn(page)
    <3>1. ~EndsIn(poller.read)
      BY ONLY <2>3
    <3>2. EndsIn(poller.read \o page) = (EndsIn(poller.read) \/ EndsIn(page))
      BY ONLY <2>1, <2>4, EndsInEither
    <3>3. EndsIn(page) \in BOOLEAN
      BY DEF EndsIn
    <3> QED
      BY ONLY <3>1, <3>2, <3>3
  <2> QED
    BY <1>3, <2>2, <2>5, <2>6, <2>7, <2>8
<1> HIDE DEF page
<1> QED
  BY <1>3, <1>4, <1>5 DEF PagesInv, PollerIs, PagesAreTheLog

LEMMA PagesInvKept ==
    ASSUME ReadsTypeOK, WriterIs, PagesInv, [ReadsNext]_readsVars
    PROVE  PagesInv'
<1> USE DEF jobSide, readerSide, mishapSide
<1>0. StatusEvent("failed") \in Event /\ StatusEvent("running") \in Event
  BY EventFacts DEF Terminal
<1>1. CASE SubmitJob \/ SolveEnds \/ PutVerdict \/ Absorb \/ RetireJob \/ SweepFiles \/ CleanUp
           \/ AskForAnswer \/ WaitForEnd \/ GetJob \/ LookForPayload \/ LoadPayload
           \/ CheckSucceeded \/ CheckDone \/ CheckPayload \/ BuildAnswer \/ ReaderAgain
           \/ UNCHANGED readsVars
  <2>1. UNCHANGED <<told, purged, poller>>
    BY <1>1 DEF SubmitJob, SolveEnds, PutVerdict, Absorb, RetireJob, SweepFiles, CleanUp,
                AskForAnswer, WaitForEnd, GetJob, LookForPayload, LoadPayload, CheckSucceeded,
                CheckDone, CheckPayload, BuildAnswer, ReaderAgain, readsVars
  <2> QED
    BY <1>0, <2>1, PagesStay
<1>2. CASE BeginSolve
  BY <1>0, <1>2, PagesStay DEF BeginSolve
<1>3. CASE ReportProgress
  <2>1. reports' \in 1..MaxProgress
    BY <1>3 DEF ReportProgress, ReadsTypeOK
  <2> QED
    BY <1>3, <2>1, EventFacts, PagesStay DEF ReportProgress
<1>4. CASE TellVerdict
  <2>1. StatusEvent(verdict) \in Event
    BY <1>4, EventFacts DEF TellVerdict, WriterIs
  <2> QED
    BY <1>4, <2>1, PagesStay DEF TellVerdict
<1>5. CASE Restart
  <2>1. told' \in {told, Append(told, StatusEvent("failed"))}
    BY <1>5 DEF Restart
  <2>2. poller' = [poller EXCEPT !.checked = FALSE] /\ purged' = purged
    BY <1>5 DEF Restart
  <2> QED
    BY <1>0, <2>1, <2>2, PagesStay
<1>6. CASE SweepRows
  <2>1. purged' = TRUE /\ poller' = poller
    BY <1>6 DEF SweepRows
  <2> QED
    BY <2>1 DEF PagesInv, PollerIs, PagesAreTheLog
<1>7. CASE CheckOwner
  <2>1. /\ UNCHANGED <<told, purged>> /\ ~poller.final
        /\ poller'.next = poller.next /\ poller'.read = poller.read /\ poller'.final = poller.final
    BY <1>7 DEF CheckOwner, ReadsTypeOK, Pollers
  <2> QED
    BY ONLY PagesInv, <2>1 DEF PagesInv, PollerIs, PagesAreTheLog
<1>8. CASE ReadPage
  BY <1>8, PageKeeps
<1> QED
  BY <1>1, <1>2, <1>3, <1>4, <1>5, <1>6, <1>7, <1>8 DEF ReadsNext

LEMMA ReadsInitInv == ReadsInit => ReadsInvar
<1> SUFFICES ASSUME ReadsInit PROVE ReadsInvar
  OBVIOUS
<1> USE DEF ReadsInit
<1>1. ReadsTypeOK
  <2>1. Fresh \in Entries /\ poller \in Pollers /\ reader \in Calls /\ record \in Rows
    BY NoCallType, RowTypes DEF Fresh, Entries, Status, Unfinished, Pollers
  <2>2. told \in Seq(Event) /\ writer \in Writers /\ reports \in 0..MaxProgress
    BY RecordsAssumption DEF Writers
  <2> QED
    BY <2>1, <2>2 DEF ReadsTypeOK
<1>2. WriterIs
  BY DEF WriterIs
<1>3. RowIs
  BY DEF RowIs, Late, Missing, Row, NoRow, Terminal
<1>4. EntryIs /\ CopyIs
  BY DEF EntryIs, CopyIs, NoCall
<1>5. ReaderIs /\ AnswersAreRight
  BY DEF ReaderIs, NoCall, Inside, AnswersAreRight
<1>6. PollerIs /\ PagesAreTheLog
  <2>1. SubSeq(<<>>, 1, 0) = <<>>
    BY SubSeqEmpty
  <2>2. EndsIn(<<>>) = FALSE
    BY DEF EndsIn
  <2>3. /\ poller.read = <<>> /\ poller.next = 0 /\ poller.final = FALSE /\ ~poller.checked
        /\ told = <<>> /\ Len(<<>>) = 0
    OBVIOUS
  <2>4. poller.final = EndsIn(poller.read)
    BY ONLY <2>2, <2>3
  <2>5. poller.read = SubSeq(told, 1, poller.next) /\ poller.next = Len(poller.read)
    BY ONLY <2>1, <2>3
  <2>6. poller.next <= Len(told) /\ (poller.checked => ~poller.final)
    BY ONLY <2>3
  <2> QED
    BY ONLY <2>4, <2>5, <2>6 DEF PollerIs, PagesAreTheLog
<1> QED
  BY <1>1, <1>2, <1>3, <1>4, <1>5, <1>6 DEF ReadsInvar, ReadsAreRight

LEMMA ReadsInvKept == ReadsInvar /\ [ReadsNext]_readsVars => ReadsInvar'
<1> SUFFICES ASSUME ReadsInvar, [ReadsNext]_readsVars PROVE ReadsInvar'
  OBVIOUS
<1>1. /\ ReadsTypeOK /\ WriterIs /\ RowIs /\ EntryIs /\ CopyIs /\ ReaderIs
      /\ AnswersAreRight /\ PagesInv
  BY DEF ReadsInvar, ReadsAreRight, PagesInv
<1>2. ReadsTypeOK' /\ WriterIs' /\ RowIs' /\ EntryIs' /\ CopyIs' /\ ReaderIs'
  BY <1>1, ReadsTypeOKKept, WriterIsKept, RowIsKept, EntryIsKept, CopyIsKept, ReaderIsKept
<1>3. AnswersAreRight' /\ PagesInv'
  BY <1>1, AnswersAreRightKept, PagesInvKept
<1> QED
  BY <1>2, <1>3 DEF ReadsInvar, ReadsAreRight, PagesInv

\* Every answer a caller is given is the job's, but for the two kinds of call
\* that may be told less (AnswersAreRight), and the pages a poller reads are
\* the event log (PagesAreTheLog).
THEOREM ReadsRight == ReadsSpec => []ReadsAreRight
<1>1. ReadsInvar => ReadsAreRight
  BY DEF ReadsInvar
<1> QED
  BY <1>1, ReadsInitInv, ReadsInvKept, PTL DEF ReadsSpec
=============================================================================
