-------------------------- MODULE ArqWorkersProofs --------------------------
(***************************************************************************)
(* Theorems about ArqWorkers for every set of jobs, workers and readers    *)
(* and every number of deaths and faults:                                  *)
(*                                                                         *)
(*   ArqTypeCorrect     every variable keeps its type;                     *)
(*   ArqVerdictsAreFinal  no second try rewrites a stored verdict;         *)
(*   ArqVerdictsAreEarned  one verdict, announced after its progress;      *)
(*   ArqDeliveryIsOrdered  a reader misses only what the bus lost or let   *)
(*                      be overtaken, and sees the rest in the log's order.*)
(***************************************************************************)
EXTENDS ArqWorkers, EventStreamProofs, FiniteSetTheorems

USE RecordsAssumption, StreamAssumption, ArqAssumption

RowsOK ==
    /\ stored \in [Jobs -> Status \cup {NoRow}]
    /\ error \in [Jobs -> WorkerError]
    /\ log \in [Jobs -> Seq(Event)]

QueueOK ==
    /\ run \in [Jobs -> RunState]
    /\ home \in [Jobs -> Workers \cup {NoWorker}]
    /\ tries \in [Jobs -> 0..MaxTries]
    /\ enqueued \subseteq Jobs

CancelOK == flags \subseteq Jobs /\ asked \subseteq Jobs

ThreadOK ==
    /\ thread \in [Jobs -> {"none", "solving"} \cup Finished]
    /\ steps \in [Jobs -> 0..MaxProgress]

EmitOK ==
    /\ pending \in [Jobs -> Seq(1..MaxProgress)]
    /\ gathered \in [Jobs -> SUBSET (1..MaxProgress)]
    /\ wire \in [Jobs -> SUBSET Delivery]

StreamOK ==
    /\ ReaderOK
    /\ loading \subseteq {r \in Readers : reading[r] # NoJob}
    /\ high \in [Readers -> Nat]
    /\ missed \in [Readers -> SUBSET Event]

BoundOK == deaths \in 0..MaxDeaths /\ faults \in 0..MaxFaults

LEMMA TypeParts ==
    TypeOK <=> RowsOK /\ QueueOK /\ CancelOK /\ ThreadOK /\ EmitOK /\ StreamOK /\ BoundOK
BY DEF TypeOK, RowsOK, QueueOK, CancelOK, ThreadOK, EmitOK, StreamOK, BoundOK

LEMMA TypePartsNext ==
    /\ RowsOK' /\ QueueOK' /\ CancelOK' /\ ThreadOK' /\ EmitOK' /\ StreamOK' /\ BoundOK'
    => TypeOK'
BY DEF TypeOK, RowsOK, QueueOK, CancelOK, ThreadOK, EmitOK, StreamOK, BoundOK

\* A group of variables that a step leaves alone keeps its type.
LEMMA Frames ==
    /\ RowsOK   /\ UNCHANGED storeVars  => RowsOK'
    /\ QueueOK  /\ UNCHANGED queueVars  => QueueOK'
    /\ CancelOK /\ UNCHANGED cancelVars => CancelOK'
    /\ ThreadOK /\ UNCHANGED threadVars => ThreadOK'
    /\ EmitOK   /\ UNCHANGED emitVars   => EmitOK'
    /\ StreamOK /\ UNCHANGED streamVars => StreamOK'
    /\ BoundOK  /\ UNCHANGED boundVars  => BoundOK'
<1>1. RowsOK /\ UNCHANGED storeVars => RowsOK'
  BY DEF RowsOK, storeVars
<1>2. QueueOK /\ UNCHANGED queueVars => QueueOK'
  BY DEF QueueOK, queueVars
<1>3. CancelOK /\ UNCHANGED cancelVars => CancelOK'
  BY DEF CancelOK, cancelVars
<1>4. ThreadOK /\ UNCHANGED threadVars => ThreadOK'
  BY DEF ThreadOK, threadVars
<1>5. EmitOK /\ UNCHANGED emitVars => EmitOK'
  BY DEF EmitOK, emitVars
<1>6. StreamOK /\ UNCHANGED streamVars => StreamOK'
  BY DEF StreamOK, ReaderOK, streamVars, readerVars
<1>7. BoundOK /\ UNCHANGED boundVars => BoundOK'
  BY DEF BoundOK, boundVars
<1> QED
  BY <1>1, <1>2, <1>3, <1>4, <1>5, <1>6, <1>7

-----------------------------------------------------------------------------
(* How far a job has come says what its row holds *)

\* A job in arq's queue with a try left was never given to a worker.
Stage(j) ==
    /\ stored[j] = NoRow <=> run[j] = "none"
    /\ run[j] \in {"saved", "enqueued"} => stored[j] = "queued"
    /\ run[j] \in {"announcing", "solving", "broken"} => stored[j] = "running"
    /\ run[j] \in {"draining", "verdict", "closing", "ended"} => stored[j] \in Terminal
    /\ run[j] \in Held => tries[j] >= MaxTries
    /\ j \in enqueued /\ tries[j] < MaxTries => run[j] = "enqueued"

\* A terminal event on its way was announced from a stored verdict.
Sent(j) ==
    \A d \in wire[j] : /\ IsTerminal(d.event) => stored[j] \in Terminal
                       /\ IsStatus(d.event) /\ ~IsTerminal(d.event) =>
                             run[j] \in {"announcing", "broken"}

Staged == \A j \in Jobs : Stage(j) /\ Sent(j)

TypeInv == TypeOK /\ Staged

\* A step that leaves a stored verdict alone.
FinalStep ==
    \A j \in Jobs : stored[j] \in Terminal => stored'[j] = stored[j] /\ error'[j] = error[j]

LEMMA StatusFacts ==
    /\ NoRow \notin Terminal /\ NoRow \notin Unfinished /\ "queued" # NoRow /\ "running" # NoRow
    /\ "queued" \notin Terminal /\ "running" \notin Terminal /\ "failed" \in Terminal
    /\ "done" \in Terminal /\ "cancelled" \in Terminal
    /\ Unfinished = {"queued", "running"}
BY DEF NoRow, Terminal, Unfinished

\* Nothing the invariant speaks of changes for job k.
Untouched(k) ==
    /\ UNCHANGED <<stored[k], error[k], run[k], tries[k], wire[k]>>
    /\ k \in enqueued' => k \in enqueued

LEMMA StageFrame ==
    ASSUME NEW k \in Jobs, Stage(k), Sent(k), Untouched(k)
    PROVE  Stage(k)' /\ Sent(k)'
BY DEF Stage, Sent, Untouched

\* What an event is tells what it is not.
LEMMA EventKinds ==
    /\ ~IsTerminal(StatusEvent("running")) /\ IsStatus(StatusEvent("running"))
    /\ \A s \in Terminal : IsTerminal(StatusEvent(s)) /\ IsStatus(StatusEvent(s))
    /\ \A n : /\ ~IsStatus(ProgressEvent(n)) /\ ~IsTerminal(ProgressEvent(n))
             /\ IsProgress(ProgressEvent(n)) /\ ProgressEvent(n).iteration = n
    /\ \A s : ~IsProgress(StatusEvent(s)) /\ StatusEvent(s).status = s
BY DEF IsTerminal, IsStatus, IsProgress, StatusEvent, ProgressEvent, Terminal

\* One job's step.
LEMMA OneJob ==
    ASSUME Staged, NEW j \in Jobs, \A k \in Jobs \ {j} : Untouched(k),
           Stage(j)' /\ Sent(j)',
           stored[j] \in Terminal => stored'[j] = stored[j] /\ error'[j] = error[j]
    PROVE  Staged' /\ FinalStep
<1>1. \A k \in Jobs \ {j} : Stage(k)' /\ Sent(k)'
  BY StageFrame DEF Staged
<1> QED
  BY <1>1 DEF Staged, FinalStep, Untouched

\* What a worker's step finds of the job it is about.
LEMMA TypeFacts ==
    ASSUME TypeInv
    PROVE  /\ stored \in [Jobs -> Status \cup {NoRow}] /\ error \in [Jobs -> WorkerError]
           /\ log \in [Jobs -> Seq(Event)]
           /\ run \in [Jobs -> RunState] /\ tries \in [Jobs -> 0..MaxTries]
           /\ thread \in [Jobs -> {"none", "solving"} \cup Finished]
           /\ steps \in [Jobs -> 0..MaxProgress]
           /\ pending \in [Jobs -> Seq(1..MaxProgress)]
           /\ gathered \in [Jobs -> SUBSET (1..MaxProgress)]
           /\ wire \in [Jobs -> SUBSET Delivery]
           /\ \A j \in Jobs : Stage(j) /\ Sent(j)
BY DEF TypeInv, TypeOK, Staged

LEMMA TakeStage ==
    ASSUME TypeInv, NEW w \in Workers, NEW j \in Jobs, Take(w, j)
    PROVE  run[j] = "enqueued" /\ stored[j] = "queued" /\ tries'[j] >= MaxTries
<1>1. Stage(j) /\ tries[j] \in 0..1 /\ tries[j] < 1 /\ tries'[j] = tries[j] + 1 /\ j \in enqueued
  BY TypeFacts DEF Take, MaxTries
<1> QED
  BY <1>1 DEF Stage, MaxTries

\* Emitting puts one more event on the wire of one job.
LEMMA EmitStage ==
    ASSUME TypeInv, NEW j \in Jobs, NEW e, Emit(j, e)
    PROVE  /\ \A d \in wire'[j] : d \in wire[j] \/ d.event = e
           /\ \A k \in Jobs \ {j} : wire'[k] = wire[k] /\ log'[k] = log[k]
BY TypeFacts DEF Emit

LEMMA StageStep ==
    ASSUME TypeInv, [Next]_vars
    PROVE  Staged' /\ FinalStep
<1> USE TypeFacts
<1> USE DEF storeVars, queueVars, cancelVars, threadVars, emitVars
<1>0. Staged
  BY DEF TypeInv
<1>1. ASSUME NEW j \in Jobs, Save(j) PROVE Staged' /\ FinalStep
  <2>1. \A k \in Jobs \ {j} : Untouched(k)
    BY <1>1 DEF Save, Untouched
  <2>2. Stage(j)' /\ Sent(j)'
    BY <1>1, StatusFacts DEF Save, Stage, Sent, Held
  <2> QED
    BY <1>0, <1>1, <2>1, <2>2, OneJob, StatusFacts DEF Save
<1>2. ASSUME NEW j \in Jobs, Enqueue(j) PROVE Staged' /\ FinalStep
  <2>1. \A k \in Jobs \ {j} : Untouched(k)
    BY <1>2 DEF Enqueue, Untouched
  <2>2. Stage(j)' /\ Sent(j)'
    BY <1>2, StatusFacts DEF Enqueue, Stage, Sent, Held
  <2> QED
    BY <1>0, <1>2, <2>1, <2>2, OneJob DEF Enqueue
<1>3. ASSUME NEW j \in Jobs, Cancel(j) \/ ThreadStep(j) \/ Watch(j) PROVE Staged' /\ FinalStep
  <2>1. \A k \in Jobs : Untouched(k)
    BY <1>3 DEF Cancel, ThreadStep, Progress, FinishThread, Watch, Untouched
  <2> QED
    BY <1>0, <2>1, StageFrame DEF Staged, FinalStep, Untouched
<1>4. ASSUME NEW w \in Workers, NEW j \in Jobs, Begin(w, j) PROVE Staged' /\ FinalStep
  <2>1. run[j] = "enqueued" /\ stored[j] = "queued" /\ tries'[j] >= MaxTries
    BY <1>4, TakeStage DEF Begin
  <2>2. /\ \A d \in wire'[j] : d \in wire[j] \/ d.event = StatusEvent("running")
        /\ \A k \in Jobs \ {j} : wire'[k] = wire[k]
    BY <1>4, EmitStage DEF Begin
  <2>3. \A k \in Jobs \ {j} : Untouched(k)
    BY <1>4, <2>2 DEF Begin, Take, Untouched
  <2>4. Stage(j)'
    BY <1>4, <2>1, StatusFacts DEF Begin, Take, Stage, Held
  <2>5. Sent(j)'
    BY <1>4, <2>1, <2>2, StatusFacts, EventKinds DEF Begin, Sent
  <2> QED
    BY <1>0, <2>1, <2>3, <2>4, <2>5, OneJob, StatusFacts
<1>5. ASSUME NEW w \in Workers, NEW j \in Jobs, Disown(w, j) PROVE Staged' /\ FinalStep
  <2>1. run[j] = "enqueued" /\ stored[j] = "queued" /\ tries'[j] >= MaxTries
    BY <1>5, TakeStage DEF Disown
  <2>2. /\ \A d \in wire'[j] : d \in wire[j] \/ d.event = StatusEvent("failed")
        /\ \A k \in Jobs \ {j} : wire'[k] = wire[k]
    BY <1>5, EmitStage DEF Disown
  <2>3. \A k \in Jobs \ {j} : Untouched(k)
    BY <1>5, <2>2 DEF Disown, Take, Untouched
  <2>4. Stage(j)'
    BY <1>5, <2>1, StatusFacts DEF Disown, Take, Stage, Held
  <2>5. Sent(j)'
    BY <1>5, <2>1, <2>2, StatusFacts, EventKinds DEF Disown, Sent
  <2> QED
    BY <1>0, <2>1, <2>3, <2>4, <2>5, OneJob, StatusFacts
<1>6. ASSUME NEW w \in Workers, NEW j \in Jobs, Reject(w, j) PROVE Staged' /\ FinalStep
  <2>1. run[j] = "enqueued" /\ stored[j] = "queued" /\ tries'[j] >= MaxTries
    BY <1>6, TakeStage DEF Reject
  <2>2. \A k \in Jobs \ {j} : Untouched(k)
    BY <1>6 DEF Reject, Take, Untouched
  <2>3. Stage(j)' /\ Sent(j)'
    BY <1>6, <2>1, StatusFacts DEF Reject, Take, Stage, Sent, Held
  <2> QED
    BY <1>0, <1>6, <2>1, <2>2, <2>3, OneJob DEF Reject
<1>7. ASSUME NEW j \in Jobs, Discard(j) PROVE Staged' /\ FinalStep
  <2>1. \A k \in Jobs : Untouched(k)
    BY <1>7 DEF Discard, Untouched
  <2> QED
    BY <1>0, <2>1, StageFrame DEF Staged, FinalStep, Untouched
<1>8. ASSUME NEW j \in Jobs, StartSolve(j) PROVE Staged' /\ FinalStep
  <2>1. \A k \in Jobs \ {j} : Untouched(k)
    BY <1>8 DEF StartSolve, Untouched
  <2>2. Stage(j)' /\ Sent(j)'
    BY <1>8, StatusFacts DEF StartSolve, Stage, Sent, Held
  <2> QED
    BY <1>0, <1>8, <2>1, <2>2, OneJob DEF StartSolve
<1>9. ASSUME NEW j \in Jobs, EmitProgress(j) PROVE Staged' /\ FinalStep
  <2>1. /\ \A d \in wire'[j] : d \in wire[j] \/ d.event = ProgressEvent(Head(pending[j]))
        /\ \A k \in Jobs \ {j} : wire'[k] = wire[k]
    BY <1>9, EmitStage DEF EmitProgress
  <2>2. \A k \in Jobs \ {j} : Untouched(k)
    BY <1>9, <2>1 DEF EmitProgress, Untouched
  <2>3. Stage(j)' /\ Sent(j)'
    BY <1>9, <2>1, EventKinds DEF EmitProgress, Stage, Sent
  <2> QED
    BY <1>0, <1>9, <2>2, <2>3, OneJob DEF EmitProgress
<1>10. ASSUME NEW j \in Jobs, NEW s \in Terminal, NEW why, run[j] = "solving", Conclude(j, s, why),
              UNCHANGED <<tries, enqueued, wire>>
       PROVE  Staged' /\ FinalStep
  <2>1. \A k \in Jobs \ {j} : Untouched(k)
    BY <1>10 DEF Conclude, Untouched
  <2>2. run'[j] \in {"verdict", "draining"} /\ stored'[j] = s /\ stored[j] = "running"
    BY <1>10 DEF Conclude, Stage
  <2>3. Stage(j)' /\ Sent(j)'
    BY <1>10, <2>2, StatusFacts DEF Stage, Sent, Held
  <2> QED
    BY <1>0, <2>1, <2>2, <2>3, OneJob, StatusFacts
<1>11. ASSUME NEW j \in Jobs, ResumeWork(j) \/ ResumeTimeout(j) PROVE Staged' /\ FinalStep
  <2>1. CASE ResumeWork(j)
    <3>1. Outcome(j) \in Terminal
      BY <2>1, StatusFacts DEF ResumeWork, Outcome, Finished
    <3> QED
      BY <1>10, <2>1, <3>1 DEF ResumeWork
  <2>2. CASE ResumeTimeout(j)
    BY <1>10, <2>2, StatusFacts DEF ResumeTimeout
  <2> QED
    BY <1>11, <2>1, <2>2
<1>12. ASSUME NEW j \in Jobs, Drained(j) PROVE Staged' /\ FinalStep
  <2>1. \A k \in Jobs \ {j} : Untouched(k)
    BY <1>12 DEF Drained, Untouched
  <2>2. Stage(j)' /\ Sent(j)'
    BY <1>12, StatusFacts DEF Drained, Stage, Sent, Held
  <2> QED
    BY <1>0, <1>12, <2>1, <2>2, OneJob DEF Drained
<1>13. ASSUME NEW j \in Jobs, EmitVerdict(j) PROVE Staged' /\ FinalStep
  <2>1. /\ \A d \in wire'[j] : d \in wire[j] \/ d.event = StatusEvent(stored[j])
        /\ \A k \in Jobs \ {j} : wire'[k] = wire[k]
    BY <1>13, EmitStage DEF EmitVerdict
  <2>2. \A k \in Jobs \ {j} : Untouched(k)
    BY <1>13, <2>1 DEF EmitVerdict, Untouched
  <2>3. Stage(j)'
    BY <1>13, StatusFacts DEF EmitVerdict, Stage, Held
  <2>4. stored[j] \in Terminal /\ stored'[j] = stored[j] /\ run[j] = "verdict"
    BY <1>13 DEF EmitVerdict, Stage
  <2>5. Sent(j)'
    BY <2>1, <2>4, EventKinds DEF Sent
  <2> QED
    BY <1>0, <1>13, <2>2, <2>3, <2>5, OneJob DEF EmitVerdict
<1>14. ASSUME NEW j \in Jobs, Return(j) PROVE Staged' /\ FinalStep
  <2>1. \A k \in Jobs \ {j} : Untouched(k)
    BY <1>14 DEF Return, Untouched
  <2>2. Stage(j)' /\ Sent(j)'
    BY <1>14, StatusFacts DEF Return, Stage, Sent, Held
  <2> QED
    BY <1>0, <1>14, <2>1, <2>2, OneJob DEF Return
<1>15. ASSUME NEW j \in Jobs, NEW d \in wire[j], Arrive(j, d) PROVE Staged' /\ FinalStep
  <2>1. \A k \in Jobs \ {j} : Untouched(k)
    BY <1>15 DEF Arrive, Untouched
  <2>2. Stage(j)' /\ Sent(j)'
    BY <1>15 DEF Arrive, Stage, Sent
  <2> QED
    BY <1>0, <1>15, <2>1, <2>2, OneJob DEF Arrive
<1>16. ASSUME NEW j \in Jobs, NEW d \in wire[j], PublishFails(j, d) PROVE Staged' /\ FinalStep
  <2>1. \A k \in Jobs \ {j} : Untouched(k)
    BY <1>16 DEF PublishFails, Untouched
  <2>2. \/ run'[j] = run[j] /\ ~IsStatus(d.event)
        \/ run'[j] = "ended" /\ IsTerminal(d.event)
        \/ run'[j] = "broken" /\ IsStatus(d.event) /\ ~IsTerminal(d.event)
    BY <1>16 DEF PublishFails
  <2>3. Stage(j)'
    BY <1>16, <2>2, StatusFacts DEF PublishFails, Stage, Sent, Held
  <2>4. Sent(j)'
    BY <1>16, <2>2, StatusFacts DEF PublishFails, Stage, Sent
  <2> QED
    BY <1>0, <1>16, <2>1, <2>3, <2>4, OneJob DEF PublishFails
<1>17. ASSUME NEW r \in Readers, \/ ReadHistory(r) \/ Replay(r) \/ Receive(r) \/ Leave(r)
                                \/ \E j \in Jobs : Subscribe(r, j)
       PROVE  Staged' /\ FinalStep
  <2>1. \A k \in Jobs : Untouched(k)
    BY <1>17 DEF ReadHistory, Replay, Receive, Leave, Subscribe, Untouched
  <2> QED
    BY <1>0, <2>1, StageFrame DEF Staged, FinalStep, Untouched
<1>18. ASSUME NEW w \in Workers, WorkerDies(w) PROVE Staged' /\ FinalStep
  <2>1. FinalStep
    BY <1>18 DEF WorkerDies, FinalStep
  <2>2. ASSUME NEW k \in Jobs PROVE Stage(k)' /\ Sent(k)'
    <3>1. \/ run'[k] = run[k] /\ (k \in enqueued' => k \in enqueued)
          \/ run'[k] = "lost" /\ run[k] \in Held
      BY <1>18 DEF WorkerDies
    <3>2. (run'[k] = run[k] /\ wire'[k] = wire[k]) \/ wire'[k] = {}
      BY <1>18 DEF WorkerDies
    <3>3. UNCHANGED <<stored[k], error[k], tries[k]>>
      BY <1>18 DEF WorkerDies
    <3>4. /\ tries[k] \in 0..1 /\ Stage(k) /\ Sent(k)
          /\ run[k] \in Held => tries[k] = 1 /\ run[k] # "none"
      BY DEF Stage, MaxTries, Held
    <3>5. Stage(k)'
      BY <3>1, <3>3, <3>4 DEF Stage, MaxTries, Held
    <3>6. Sent(k)'
      BY <3>2, <3>3, <3>4 DEF Sent
    <3> QED
      BY <3>5, <3>6
  <2> QED
    BY <2>1, <2>2 DEF Staged
<1>19. CASE ApiDies
  <2>1. FinalStep
    BY <1>19 DEF ApiDies, FinalStep
  <2>2. ASSUME NEW k \in Jobs PROVE Stage(k)' /\ Sent(k)'
    BY <1>19, StatusFacts DEF ApiDies, Stage, Sent, Held
  <2> QED
    BY <2>1, <2>2 DEF Staged
<1>20. CASE RedisRestarts
  <2>1. FinalStep
    BY <1>20 DEF RedisRestarts, FinalStep
  <2>2. ASSUME NEW k \in Jobs PROVE Stage(k)' /\ Sent(k)'
    BY <1>20, StatusFacts DEF RedisRestarts, Stage, Sent, Held
  <2> QED
    BY <2>1, <2>2 DEF Staged
<1>21. CASE UNCHANGED vars
  <2>1. \A k \in Jobs : Untouched(k)
    BY <1>21 DEF vars, Untouched
  <2> QED
    BY <1>0, <2>1, StageFrame DEF Staged, FinalStep, Untouched
<1> QED
  BY <1>1, <1>2, <1>3, <1>4, <1>5, <1>6, <1>7, <1>8, <1>9, <1>11, <1>12, <1>13, <1>14, <1>15,
     <1>16, <1>17, <1>18, <1>19, <1>20, <1>21 DEF Next, WorkerStep

-----------------------------------------------------------------------------
(* Types *)

LEMMA EmitType ==
    ASSUME TypeOK, NEW j \in Jobs, NEW e \in Event, Emit(j, e)
    PROVE  log' \in [Jobs -> Seq(Event)] /\ wire' \in [Jobs -> SUBSET Delivery]
<1>1. log \in [Jobs -> Seq(Event)] /\ wire \in [Jobs -> SUBSET Delivery]
  BY DEF TypeOK
<1>2. log' \in [Jobs -> Seq(Event)]
  BY <1>1 DEF Emit, SqliteAddEvent
<1>3. Len(log'[j]) \in Nat
  BY <1>2
<1>4. [seq |-> Len(log'[j]), event |-> e] \in Delivery
  BY <1>3 DEF Delivery
<1> QED
  BY <1>1, <1>2, <1>4 DEF Emit

LEMMA UnsettledType ==
    ASSUME TypeOK, NEW j \in Jobs
    PROVE  Unsettled(j) \subseteq 1..MaxProgress
<1>1. pending[j] \in Seq(1..MaxProgress) /\ wire[j] \subseteq Delivery
  BY DEF TypeOK
<1>2. ToSet(pending[j]) \subseteq 1..MaxProgress
  BY <1>1 DEF ToSet
<1>3. \A d \in wire[j] : IsProgress(d.event) => d.event.iteration \in 1..MaxProgress
  BY <1>1 DEF Delivery, Event, IsProgress
<1> QED
  BY <1>2, <1>3 DEF Unsettled

\* A step of a reader's stream keeps its type.
LEMMA TidyType ==
    ASSUME StreamOK, TidyBus
    PROVE  high' \in [Readers -> Nat] /\ missed' \in [Readers -> SUBSET Event]
BY DEF StreamOK, TidyBus

LEMMA DetachType ==
    ASSUME ReaderOK, NEW R, Detach(R)
    PROVE  ReaderOK'
<1>1. <<>> \in Seq(Event) /\ <<>> \in Seq(Delivery)
  OBVIOUS
<1> QED
  BY <1>1 DEF ReaderOK, Detach

LEMMA StreamStepType ==
    ASSUME StreamOK, NEW r \in Readers, ReplayNext(r) \/ ReceiveNext(r)
    PROVE  ReaderOK' /\ \A q \in Readers \ {r} : reading'[q] = reading[q]
<1>0. /\ ReaderOK /\ history[r] \in Seq(Event) /\ queue[r] \in Seq(Delivery)
      /\ replayed[r] \in Nat
  BY DEF StreamOK, ReaderOK
<1>1. CASE ReplayNext(r)
  <2>1. Head(history[r]) \in Event /\ Tail(history[r]) \in Seq(Event) /\ replayed[r] + 1 \in Nat
    BY <1>0, <1>1 DEF ReplayNext
  <2>2. ReaderOK'
    BY <1>0, <1>1, <2>1, HandOnType DEF ReplayNext
  <2> QED
    BY <1>1, <2>2 DEF ReplayNext, HandOn, ReaderOK, StreamOK
<1>2. CASE ReceiveNext(r)
  <2>1. Head(queue[r]) \in Delivery /\ Tail(queue[r]) \in Seq(Delivery)
    BY <1>0, <1>2 DEF ReceiveNext
  <2>2. Head(queue[r]).event \in Event /\ Head(queue[r]).seq \in Nat /\ <<>> \in Seq(Event)
    BY <2>1 DEF Delivery
  <2>3. CASE Head(queue[r]).seq <= replayed[r]
    <3>1. /\ queue' = [queue EXCEPT ![r] = Tail(queue[r])]
          /\ UNCHANGED <<reading, history, replayed, seen>>
      BY <1>2, <2>3 DEF ReceiveNext
    <3> QED
      BY <1>0, <2>1, <3>1 DEF ReaderOK
  <2>4. CASE ~(Head(queue[r]).seq <= replayed[r])
    <3>1. HandOn(r, Head(queue[r]).event, Head(queue[r]).seq, <<>>, Tail(queue[r]))
      BY <1>2, <2>4 DEF ReceiveNext
    <3>2. ReaderOK'
      BY <1>0, <2>1, <2>2, <3>1, HandOnType
    <3> QED
      BY <3>1, <3>2 DEF HandOn, ReaderOK, StreamOK
  <2> QED
    BY <2>3, <2>4
<1> QED
  BY <1>1, <1>2

LEMMA ArriveType ==
    ASSUME TypeInv, NEW j \in Jobs, NEW d \in wire[j], Arrive(j, d)
    PROVE  TypeOK'
<1>0. RowsOK /\ QueueOK /\ CancelOK /\ ThreadOK /\ EmitOK /\ StreamOK /\ BoundOK
  BY TypeParts DEF TypeInv
<1>1. PICK gone \in SUBSET Attached(j) :
        /\ faults' = faults + Cardinality(gone) /\ faults' <= MaxFaults
        /\ LET there == Attached(j) \ gone IN
             /\ queue' = [r \in Readers |-> IF r \in there THEN Append(queue[r], d) ELSE queue[r]]
             /\ high' = [r \in Readers |->
                           IF r \in there /\ d.seq > high[r] THEN d.seq ELSE high[r]]
             /\ missed' = [r \in Readers |->
                             IF r \in gone \/ (r \in there /\ d.seq < high[r])
                             THEN missed[r] \cup {d.event} ELSE missed[r]]
  BY DEF Arrive
<1>2. d \in Delivery /\ d.seq \in Nat /\ d.event \in Event
  BY <1>0 DEF EmitOK, Delivery
<1>3. Cardinality(gone) \in Nat
  <2>1. gone \subseteq Readers
    BY DEF Attached
  <2> QED
    BY <2>1, FS_Subset, FS_CardinalityType
<1>4. BoundOK'
  BY <1>0, <1>1, <1>3 DEF BoundOK, Arrive
<1>5. queue' \in [Readers -> Seq(Delivery)]
  BY <1>0, <1>1, <1>2 DEF StreamOK, ReaderOK
<1>6. high' \in [Readers -> Nat] /\ missed' \in [Readers -> SUBSET Event]
  BY <1>0, <1>1, <1>2 DEF StreamOK
<1>7. StreamOK'
  BY <1>0, <1>5, <1>6 DEF StreamOK, ReaderOK, Arrive
<1>8. EmitOK'
  BY <1>0 DEF EmitOK, Arrive
<1>9. RowsOK' /\ QueueOK' /\ CancelOK' /\ ThreadOK'
  BY <1>0, Frames DEF Arrive
<1> QED
  BY <1>4, <1>7, <1>8, <1>9, TypePartsNext

LEMMA TakeType ==
    ASSUME TypeOK, NEW w \in Workers, NEW j \in Jobs, Take(w, j)
    PROVE  /\ home' \in [Jobs -> Workers \cup {NoWorker}] /\ tries' \in [Jobs -> 0..MaxTries]
           /\ enqueued' \subseteq Jobs
<1>1. tries[j] \in 0..1 /\ tries[j] < 1
  BY DEF TypeOK, Take, MaxTries
<1>2. tries[j] + 1 \in 0..1
  BY <1>1
<1> QED
  BY <1>2 DEF TypeOK, Take, MaxTries

LEMMA TypeStep ==
    ASSUME TypeInv, [Next]_vars
    PROVE  TypeOK'
<1>0. RowsOK /\ QueueOK /\ CancelOK /\ ThreadOK /\ EmitOK /\ StreamOK /\ BoundOK
  BY TypeParts DEF TypeInv
<1>1. ASSUME NEW j \in Jobs, Save(j) PROVE TypeOK'
  <2>1. RowsOK'
    BY <1>0, <1>1 DEF Save, RowsOK, Status, Unfinished
  <2>2. QueueOK'
    BY <1>0, <1>1 DEF Save, QueueOK, RunState
  <2> QED
    BY <1>0, <1>1, <2>1, <2>2, Frames, TypePartsNext DEF Save
<1>2. ASSUME NEW j \in Jobs, Enqueue(j) PROVE TypeOK'
  <2>1. QueueOK'
    BY <1>0, <1>2 DEF Enqueue, QueueOK, RunState, Stuck
  <2>2. BoundOK'
    BY <1>0, <1>2 DEF Enqueue, BoundOK
  <2> QED
    BY <1>0, <1>2, <2>1, <2>2, Frames, TypePartsNext DEF Enqueue
<1>3. ASSUME NEW j \in Jobs, Cancel(j) \/ Watch(j) PROVE TypeOK'
  <2>1. CancelOK'
    BY <1>0, <1>3 DEF Cancel, Watch, CancelOK
  <2> QED
    BY <1>0, <1>3, <2>1, Frames, TypePartsNext DEF Cancel, Watch
<1>4. ASSUME NEW w \in Workers, NEW j \in Jobs, Begin(w, j) PROVE TypeOK'
  <2>1. log' \in [Jobs -> Seq(Event)] /\ wire' \in [Jobs -> SUBSET Delivery]
    BY <1>4, EventFacts, EmitType DEF Begin, TypeInv
  <2>2. RowsOK' /\ EmitOK'
    BY <1>0, <1>4, <2>1 DEF Begin, RowsOK, EmitOK, Status, Unfinished
  <2>3. QueueOK'
    BY <1>0, <1>4, TakeType DEF Begin, QueueOK, RunState, Held, TypeInv
  <2> QED
    BY <1>0, <1>4, <2>2, <2>3, Frames, TypePartsNext DEF Begin
<1>5. ASSUME NEW w \in Workers, NEW j \in Jobs, Disown(w, j) PROVE TypeOK'
  <2>1. log' \in [Jobs -> Seq(Event)] /\ wire' \in [Jobs -> SUBSET Delivery]
    BY <1>5, EventFacts, StatusFacts, EmitType DEF Disown, TypeInv
  <2>2. RowsOK' /\ EmitOK'
    BY <1>0, <1>5, <2>1 DEF Disown, RowsOK, EmitOK, Status, Terminal, WorkerError
  <2>3. QueueOK'
    BY <1>0, <1>5, TakeType DEF Disown, QueueOK, RunState, Held, TypeInv
  <2> QED
    BY <1>0, <1>5, <2>2, <2>3, Frames, TypePartsNext DEF Disown
<1>6. ASSUME NEW w \in Workers, NEW j \in Jobs, Reject(w, j) PROVE TypeOK'
  <2>1. QueueOK'
    BY <1>0, <1>6, TakeType DEF Reject, QueueOK, RunState, Stuck, TypeInv
  <2> QED
    BY <1>0, <1>6, <2>1, Frames, TypePartsNext DEF Reject
<1>7. ASSUME NEW j \in Jobs, Discard(j) PROVE TypeOK'
  <2>1. QueueOK'
    BY <1>0, <1>7 DEF Discard, QueueOK
  <2> QED
    BY <1>0, <1>7, <2>1, Frames, TypePartsNext DEF Discard
<1>8. ASSUME NEW j \in Jobs, StartSolve(j) PROVE TypeOK'
  <2>1. QueueOK' /\ ThreadOK'
    BY <1>0, <1>8 DEF StartSolve, QueueOK, ThreadOK, RunState, Held
  <2> QED
    BY <1>0, <1>8, <2>1, Frames, TypePartsNext DEF StartSolve
<1>9. ASSUME NEW j \in Jobs, Progress(j) PROVE TypeOK'
  <2>1. steps[j] + 1 \in 1..MaxProgress /\ steps[j] + 1 \in 0..MaxProgress
    BY <1>0, <1>9 DEF Progress, ThreadOK
  <2>2. Append(pending[j], steps[j] + 1) \in Seq(1..MaxProgress)
    BY <1>0, <2>1 DEF EmitOK
  <2>3. ThreadOK' /\ EmitOK'
    BY <1>0, <1>9, <2>1, <2>2 DEF Progress, ThreadOK, EmitOK
  <2> QED
    BY <1>0, <1>9, <2>3, Frames, TypePartsNext DEF Progress
<1>10. ASSUME NEW j \in Jobs, FinishThread(j) PROVE TypeOK'
  <2>1. ThreadOK'
    BY <1>0, <1>10 DEF FinishThread, ThreadOK
  <2> QED
    BY <1>0, <1>10, <2>1, Frames, TypePartsNext DEF FinishThread
<1>11. ASSUME NEW j \in Jobs, EmitProgress(j) PROVE TypeOK'
  <2>1. Head(pending[j]) \in 1..MaxProgress /\ Tail(pending[j]) \in Seq(1..MaxProgress)
    <3>1. pending[j] \in Seq(1..MaxProgress) /\ pending[j] # <<>>
      BY <1>0, <1>11 DEF EmitProgress, EmitOK
    <3> QED
      BY <3>1, HeadTail
  <2>2. log' \in [Jobs -> Seq(Event)] /\ wire' \in [Jobs -> SUBSET Delivery]
    BY <1>11, <2>1, EventFacts, EmitType DEF EmitProgress, TypeInv
  <2>3. RowsOK' /\ EmitOK'
    BY <1>0, <1>11, <2>1, <2>2 DEF EmitProgress, RowsOK, EmitOK
  <2> QED
    BY <1>0, <1>11, <2>3, Frames, TypePartsNext DEF EmitProgress
<1>12. ASSUME NEW j \in Jobs, NEW s \in Terminal, NEW why \in WorkerError, Conclude(j, s, why),
              UNCHANGED <<log, home, tries, enqueued, pending, wire>>
       PROVE  RowsOK' /\ QueueOK' /\ EmitOK'
  <2>1. Unsettled(j) \subseteq 1..MaxProgress
    BY UnsettledType DEF TypeInv
  <2> QED
    BY <1>0, <1>12, <2>1 DEF Conclude, RowsOK, QueueOK, EmitOK, Status, RunState, Held
<1>13. ASSUME NEW j \in Jobs, ResumeWork(j) PROVE TypeOK'
  <2>1. /\ Outcome(j) \in Terminal
        /\ (IF thread[j] = "raised" THEN "exception" ELSE "none") \in WorkerError
    BY <1>13, StatusFacts DEF ResumeWork, Outcome, Finished, WorkerError, Error
  <2>2. RowsOK' /\ QueueOK' /\ EmitOK'
    BY <1>12, <1>13, <2>1 DEF ResumeWork
  <2> QED
    BY <1>0, <1>13, <2>2, Frames, TypePartsNext DEF ResumeWork
<1>14. ASSUME NEW j \in Jobs, ResumeTimeout(j) PROVE TypeOK'
  <2>1. RowsOK' /\ QueueOK' /\ EmitOK'
    BY <1>12, <1>14, StatusFacts DEF ResumeTimeout, WorkerError, Error
  <2>2. CancelOK'
    BY <1>0, <1>14 DEF ResumeTimeout, CancelOK
  <2> QED
    BY <1>0, <1>14, <2>1, <2>2, Frames, TypePartsNext DEF ResumeTimeout
<1>15. ASSUME NEW j \in Jobs, Drained(j) PROVE TypeOK'
  <2>1. QueueOK'
    BY <1>0, <1>15 DEF Drained, QueueOK, RunState, Held
  <2> QED
    BY <1>0, <1>15, <2>1, Frames, TypePartsNext DEF Drained
<1>16. ASSUME NEW j \in Jobs, EmitVerdict(j) PROVE TypeOK'
  <2>1. stored[j] \in Terminal
    BY <1>16, TypeFacts DEF EmitVerdict, Stage
  <2>2. log' \in [Jobs -> Seq(Event)] /\ wire' \in [Jobs -> SUBSET Delivery]
    BY <1>16, <2>1, EventFacts, EmitType DEF EmitVerdict, TypeInv
  <2>3. RowsOK' /\ EmitOK'
    BY <1>0, <1>16, <2>2 DEF EmitVerdict, RowsOK, EmitOK
  <2>4. QueueOK'
    BY <1>0, <1>16 DEF EmitVerdict, QueueOK, RunState, Held
  <2> QED
    BY <1>0, <1>16, <2>3, <2>4, Frames, TypePartsNext DEF EmitVerdict
<1>17. ASSUME NEW j \in Jobs, Return(j) PROVE TypeOK'
  <2>1. QueueOK' /\ CancelOK'
    BY <1>0, <1>17 DEF Return, QueueOK, CancelOK, RunState
  <2> QED
    BY <1>0, <1>17, <2>1, Frames, TypePartsNext DEF Return
<1>18. ASSUME NEW j \in Jobs, NEW d \in wire[j], PublishFails(j, d) PROVE TypeOK'
  <2>1. d \in Delivery /\ d.event \in Event
    BY <1>0 DEF EmitOK, Delivery
  <2>2. QueueOK'
    BY <1>0, <1>18 DEF PublishFails, QueueOK, RunState, Stuck
  <2>3. CancelOK' /\ EmitOK' /\ BoundOK'
    BY <1>0, <1>18 DEF PublishFails, CancelOK, EmitOK, BoundOK
  <2>4. StreamOK'
    BY <1>0, <1>18, <2>1 DEF PublishFails, StreamOK, ReaderOK, readerVars
  <2> QED
    BY <1>0, <1>18, <2>2, <2>3, <2>4, Frames, TypePartsNext DEF PublishFails
<1>19. ASSUME NEW r \in Readers, NEW j \in Jobs, Subscribe(r, j) PROVE TypeOK'
  <2>1. <<>> \in Seq(Event) /\ <<>> \in Seq(Delivery)
    OBVIOUS
  <2>2. ReaderOK'
    BY <1>0, <1>19, <2>1 DEF Subscribe, Attach, StreamOK, ReaderOK
  <2>3. StreamOK'
    BY <1>0, <1>19, <2>2 DEF Subscribe, Attach, StreamOK, ReaderOK
  <2> QED
    BY <1>0, <1>19, <2>3, Frames, TypePartsNext DEF Subscribe
<1>20. ASSUME NEW r \in Readers, ReadHistory(r) PROVE TypeOK'
  <2>1. reading[r] \in Jobs /\ log[reading[r]] \in Seq(Event)
    BY <1>0, <1>20 DEF ReadHistory, StreamOK, ReaderOK, RowsOK
  <2>2. StreamOK'
    BY <1>0, <1>20, <2>1 DEF ReadHistory, StreamOK, ReaderOK
  <2> QED
    BY <1>0, <1>20, <2>2, Frames, TypePartsNext DEF ReadHistory
<1>21. ASSUME NEW r \in Readers, Replay(r) \/ Receive(r) PROVE TypeOK'
  <2>1. ReaderOK' /\ \A q \in Readers \ {r} : reading'[q] = reading[q]
    BY <1>0, <1>21, StreamStepType DEF Replay, Receive
  <2>2. high' \in [Readers -> Nat] /\ missed' \in [Readers -> SUBSET Event]
    BY <1>0, <1>21, TidyType DEF Replay, Receive
  <2>3. StreamOK'
    BY <1>0, <1>21, <2>1, <2>2 DEF Replay, Receive, StreamOK
  <2> QED
    BY <1>0, <1>21, <2>3, Frames, TypePartsNext DEF Replay, Receive
<1>22. ASSUME NEW r \in Readers, Leave(r) PROVE TypeOK'
  <2>1. ReaderOK'
    BY <1>0, <1>22, DetachType DEF Leave, StreamOK
  <2>2. high' \in [Readers -> Nat] /\ missed' \in [Readers -> SUBSET Event]
    BY <1>0, <1>22, TidyType DEF Leave
  <2>3. StreamOK'
    BY <1>0, <1>22, <2>1, <2>2 DEF Leave, Detach, StreamOK
  <2> QED
    BY <1>0, <1>22, <2>3, Frames, TypePartsNext DEF Leave
<1>23. ASSUME NEW w \in Workers, WorkerDies(w) PROVE TypeOK'
  <2>0. <<>> \in Seq(1..MaxProgress)
    OBVIOUS
  <2>1. QueueOK'
    BY <1>0, <1>23 DEF WorkerDies, QueueOK, RunState, Stuck
  <2>2. CancelOK' /\ ThreadOK' /\ BoundOK'
    BY <1>0, <1>23 DEF WorkerDies, CancelOK, ThreadOK, BoundOK
  <2>3. EmitOK'
    BY <1>0, <1>23, <2>0 DEF WorkerDies, EmitOK
  <2>4. \A r \in Readers : reading[r] \in Jobs => {d.event : d \in wire[reading[r]]} \subseteq Event
    BY <1>0 DEF EmitOK, Delivery
  <2>5. missed' \in [Readers -> SUBSET Event]
    BY <1>0, <1>23, <2>4 DEF WorkerDies, StreamOK
  <2>6. StreamOK'
    BY <1>0, <1>23, <2>5 DEF WorkerDies, StreamOK, ReaderOK, readerVars
  <2> QED
    BY <1>0, <1>23, <2>1, <2>2, <2>3, <2>6, Frames, TypePartsNext DEF WorkerDies
<1>24. CASE ApiDies
  <2>1. QueueOK' /\ BoundOK'
    BY <1>0, <1>24 DEF ApiDies, QueueOK, BoundOK, RunState, Stuck
  <2>2. ReaderOK' /\ high' \in [Readers -> Nat] /\ missed' \in [Readers -> SUBSET Event]
    BY <1>0, <1>24, DetachType, TidyType DEF ApiDies, StreamOK
  <2>3. StreamOK'
    BY <1>24, <2>2 DEF ApiDies, StreamOK
  <2> QED
    BY <1>0, <1>24, <2>1, <2>3, Frames, TypePartsNext DEF ApiDies
<1>25. CASE RedisRestarts
  <2>1. QueueOK' /\ BoundOK' /\ CancelOK'
    BY <1>0, <1>25 DEF RedisRestarts, QueueOK, BoundOK, CancelOK, RunState, Stuck
  <2>2. ReaderOK' /\ high' \in [Readers -> Nat] /\ missed' \in [Readers -> SUBSET Event]
    BY <1>0, <1>25, DetachType, TidyType DEF RedisRestarts, StreamOK
  <2>3. StreamOK'
    BY <1>25, <2>2 DEF RedisRestarts, StreamOK
  <2> QED
    BY <1>0, <1>25, <2>1, <2>3, Frames, TypePartsNext DEF RedisRestarts
<1>26. CASE UNCHANGED vars
  BY <1>0, <1>26, Frames, TypePartsNext DEF vars, storeVars, queueVars, cancelVars, threadVars,
     emitVars, streamVars, boundVars
<1> QED
  BY <1>1, <1>2, <1>3, <1>4, <1>5, <1>6, <1>7, <1>8, <1>9, <1>10, <1>11, <1>13, <1>14, <1>15,
     <1>16, <1>17, <1>18, <1>19, <1>20, <1>21, <1>22, <1>23, <1>24, <1>25, <1>26, ArriveType
     DEF Next, WorkerStep, ThreadStep

LEMMA TypeInductive == Spec => []TypeInv
<1>1. Init => TypeInv
  <2> SUFFICES ASSUME Init PROVE TypeInv
    OBVIOUS
  <2>0. <<>> \in Seq(Event) /\ <<>> \in Seq(Delivery) /\ <<>> \in Seq(1..MaxProgress)
    OBVIOUS
  <2>1. TypeOK
    BY <2>0 DEF Init, ReaderInit, TypeOK, ReaderOK, RunState, WorkerError, Error, MaxTries
  <2>2. Staged
    BY StatusFacts DEF Init, Staged, Stage, Sent, Held, NoRow
  <2> QED
    BY <2>1, <2>2 DEF TypeInv
<1>2. TypeInv /\ [Next]_vars => TypeInv'
  BY TypeStep, StageStep DEF TypeInv
<1> QED
  BY <1>1, <1>2, PTL DEF Spec

\* Every variable of the three processes, of Redis and of the readers keeps its
\* type; with jobs handed out again, that is what bounds tries.
THEOREM ArqTypeCorrect == Spec => []TypeOK
<1>1. TypeInv => TypeOK
  BY DEF TypeInv
<1> QED
  BY <1>1, TypeInductive, PTL

\* A verdict, once stored, is never rewritten, although arq hands a job out again
\* when the worker that held it died (worker.py: max_tries).
THEOREM ArqVerdictsAreFinal == Spec => VerdictIsFinal
<1>1. TypeInv /\ [Next]_vars => [FinalStep]_vars
  BY StageStep
<1> QED
  BY <1>1, TypeInductive, PTL DEF Spec, VerdictIsFinal, FinalStep

-----------------------------------------------------------------------------
(* What the log says of the verdict *)

\* Until its terminal event is emitted a job's log has no verdict.
Unannounced ==
    \A j \in Jobs : run[j] \notin {"closing", "ended", "lost"} => VerdictsIn(log[j]) = {}

AgreesInv == TypeInv /\ VerdictAgrees /\ Unannounced

\* A job without a verdict has announced none.
LEMMA UnfinishedIsSilent ==
    ASSUME AgreesInv, NEW j \in Jobs, stored[j] \notin Terminal
    PROVE  VerdictsIn(log[j]) = {}
BY DEF AgreesInv, VerdictAgrees, VerdictsIn, IsTerminal

\* What an emitted event adds to the log of its job.
LEMMA EmitLog ==
    ASSUME TypeInv, NEW j \in Jobs, NEW e \in Event, Emit(j, e)
    PROVE  /\ VerdictsIn(log'[j]) =
                VerdictsIn(log[j]) \cup (IF IsTerminal(e) THEN {Len(log[j]) + 1} ELSE {})
           /\ log'[j] = Append(log[j], e) /\ log[j] \in Seq(Event)
           /\ log'[j][Len(log[j]) + 1] = e
           /\ \A i \in VerdictsIn(log[j]) : log'[j][i] = log[j][i]
           /\ \A k \in Jobs \ {j} : log'[k] = log[k]
<1> DEFINE l == Append(log[j], e)
<1>1. log[j] \in Seq(Event) /\ log'[j] = l /\ \A k \in Jobs \ {j} : log'[k] = log[k]
  BY TypeFacts DEF Emit, SqliteAddEvent
<1>2. l[Len(log[j]) + 1] = e
  BY <1>1
<1>3. /\ VerdictsIn(l) = VerdictsIn(log[j]) \cup (IF IsTerminal(e) THEN {Len(log[j]) + 1} ELSE {})
      /\ \A i \in VerdictsIn(log[j]) : l[i] = log[j][i]
  BY <1>1, VerdictsInAppend
<1> HIDE DEF l
<1> QED
  BY <1>1, <1>2, <1>3 DEF l

\* An event that is no verdict disturbs nothing; one that is must be the first,
\* and the row's.
LEMMA RecordAgrees ==
    ASSUME AgreesInv, NEW j \in Jobs, NEW e \in Event, Emit(j, e),
           \A k \in Jobs \ {j} : stored'[k] = stored[k],
           VerdictsIn(log[j]) = {} \/ (~IsTerminal(e) /\ stored'[j] = stored[j]),
           IsTerminal(e) => e.status = stored'[j]
    PROVE  /\ VerdictAgrees'
           /\ \A k \in Jobs : k # j \/ ~IsTerminal(e) => VerdictsIn(log'[k]) = VerdictsIn(log[k])
<1>1. /\ VerdictsIn(log'[j]) =
           VerdictsIn(log[j]) \cup (IF IsTerminal(e) THEN {Len(log[j]) + 1} ELSE {})
      /\ log'[j][Len(log[j]) + 1] = e
      /\ \A i \in VerdictsIn(log[j]) : log'[j][i] = log[j][i]
      /\ \A k \in Jobs \ {j} : log'[k] = log[k]
  BY EmitLog DEF AgreesInv
<1>2. \A k \in Jobs : k # j \/ ~IsTerminal(e) => VerdictsIn(log'[k]) = VerdictsIn(log[k])
  BY <1>1
<1>3. ASSUME NEW k \in Jobs, NEW i \in VerdictsIn(log'[k])
      PROVE  log'[k][i].status = stored'[k] /\ VerdictsIn(log'[k]) = {i}
  <2>1. CASE k # j \/ ~IsTerminal(e)
    <3>1. VerdictsIn(log'[k]) = VerdictsIn(log[k]) /\ i \in VerdictsIn(log[k])
      BY <1>2, <1>3, <2>1
    <3>2. log'[k][i] = log[k][i] /\ stored'[k] = stored[k]
      BY <1>1, <2>1, <3>1
    <3> QED
      BY <3>1, <3>2 DEF AgreesInv, VerdictAgrees
  <2>2. CASE k = j /\ IsTerminal(e)
    <3>1. VerdictsIn(log[j]) = {} /\ e.status = stored'[j]
      BY <2>2
    <3>2. VerdictsIn(log'[j]) = {Len(log[j]) + 1}
      BY <1>1, <2>2, <3>1
    <3>3. i = Len(log[j]) + 1
      BY <1>3, <2>2, <3>2
    <3> QED
      BY <1>1, <2>2, <3>1, <3>2, <3>3
  <2> QED
    BY <2>1, <2>2
<1> QED
  BY <1>2, <1>3 DEF VerdictAgrees

\* Steps that record nothing: a verdict is stored only where none was announced,
\* and a coroutine that announced one does not go back.
LEMMA QuietAgrees ==
    ASSUME AgreesInv, UNCHANGED log,
           \A j \in Jobs : stored'[j] = stored[j] \/ stored[j] \notin Terminal,
           \A j \in Jobs : run[j] \in {"closing", "ended", "lost"} =>
                             run'[j] \in {"closing", "ended", "lost"} \/ VerdictsIn(log[j]) = {}
    PROVE  VerdictAgrees' /\ Unannounced'
<1>1. VerdictAgrees'
  <2> SUFFICES ASSUME NEW j \in Jobs, NEW i \in VerdictsIn(log[j])
               PROVE  log[j][i].status = stored'[j] /\ VerdictsIn(log[j]) = {i}
    BY DEF VerdictAgrees
  <2>1. stored[j] \in Terminal
    BY UnfinishedIsSilent
  <2> QED
    BY <2>1 DEF AgreesInv, VerdictAgrees
<1>2. Unannounced'
  BY DEF AgreesInv, Unannounced
<1> QED
  BY <1>1, <1>2

LEMMA AgreesStep ==
    ASSUME AgreesInv, [Next]_vars
    PROVE  VerdictAgrees' /\ Unannounced'
<1> USE DEF storeVars, queueVars
<1>0. TypeInv
  BY DEF AgreesInv
<1>1. ASSUME NEW j \in Jobs, Save(j) \/ Enqueue(j) PROVE VerdictAgrees' /\ Unannounced'
  <2>1. /\ \A k \in Jobs : stored'[k] = stored[k] \/ stored[k] \notin Terminal
        /\ UNCHANGED log /\ \A k \in Jobs \ {j} : run'[k] = run[k]
    BY <1>0, <1>1, TypeFacts, StatusFacts DEF Save, Enqueue
  <2>2. run[j] \in {"none", "saved"}
    BY <1>0, <1>1, TypeFacts DEF Save, Enqueue, Stage
  <2> QED
    BY <2>1, <2>2, QuietAgrees
<1>2. ASSUME NEW j \in Jobs, Cancel(j) \/ ThreadStep(j) \/ Watch(j) \/ Discard(j)
      PROVE  VerdictAgrees' /\ Unannounced'
  <2>1. UNCHANGED <<stored, log, run>>
    BY <1>2 DEF Cancel, ThreadStep, Progress, FinishThread, Watch, Discard
  <2> QED
    BY <2>1, QuietAgrees
<1>3. ASSUME NEW w \in Workers, NEW j \in Jobs, Begin(w, j) PROVE VerdictAgrees' /\ Unannounced'
  <2>1. run[j] = "enqueued" /\ stored[j] = "queued"
    BY <1>0, <1>3, TakeStage DEF Begin
  <2>2. VerdictsIn(log[j]) = {}
    BY <2>1, StatusFacts, UnfinishedIsSilent
  <2>3. /\ Emit(j, StatusEvent("running")) /\ StatusEvent("running") \in Event
        /\ \A k \in Jobs \ {j} : stored'[k] = stored[k] /\ run'[k] = run[k]
    BY <1>0, <1>3, TypeFacts, EventFacts DEF Begin
  <2>4. /\ VerdictAgrees'
        /\ \A k \in Jobs : VerdictsIn(log'[k]) = VerdictsIn(log[k])
    BY <2>2, <2>3, EventKinds, RecordAgrees
  <2> QED
    BY <2>2, <2>3, <2>4 DEF AgreesInv, Unannounced
<1>4. ASSUME NEW w \in Workers, NEW j \in Jobs, Disown(w, j) PROVE VerdictAgrees' /\ Unannounced'
  <2>1. run[j] = "enqueued" /\ stored[j] = "queued"
    BY <1>0, <1>4, TakeStage DEF Disown
  <2>2. VerdictsIn(log[j]) = {}
    BY <2>1, StatusFacts, UnfinishedIsSilent
  <2>3. /\ Emit(j, StatusEvent("failed")) /\ StatusEvent("failed") \in Event
        /\ \A k \in Jobs \ {j} : stored'[k] = stored[k] /\ run'[k] = run[k]
        /\ stored'[j] = "failed" /\ run'[j] = "closing"
    BY <1>0, <1>4, TypeFacts, EventFacts, StatusFacts DEF Disown
  <2>4. /\ VerdictAgrees'
        /\ \A k \in Jobs \ {j} : VerdictsIn(log'[k]) = VerdictsIn(log[k])
    BY <2>2, <2>3, EventKinds, RecordAgrees
  <2> QED
    BY <2>3, <2>4 DEF AgreesInv, Unannounced
<1>5. ASSUME NEW w \in Workers, NEW j \in Jobs, Reject(w, j) PROVE VerdictAgrees' /\ Unannounced'
  <2>1. run[j] = "enqueued"
    BY <1>0, <1>5, TakeStage DEF Reject
  <2>2. UNCHANGED <<stored, log>> /\ \A k \in Jobs \ {j} : run'[k] = run[k]
    BY <1>0, <1>5, TypeFacts DEF Reject
  <2> QED
    BY <2>1, <2>2, QuietAgrees
<1>6. ASSUME NEW j \in Jobs, StartSolve(j) \/ Drained(j) PROVE VerdictAgrees' /\ Unannounced'
  <2>1. run[j] \in {"announcing", "draining"} /\ UNCHANGED <<stored, log>>
        /\ \A k \in Jobs \ {j} : run'[k] = run[k]
    BY <1>0, <1>6, TypeFacts DEF StartSolve, Drained
  <2> QED
    BY <2>1, QuietAgrees
<1>7. ASSUME NEW j \in Jobs, EmitProgress(j) PROVE VerdictAgrees' /\ Unannounced'
  <2>1. Head(pending[j]) \in 1..MaxProgress
    BY <1>0, <1>7, TypeFacts, HeadTail DEF EmitProgress
  <2>2. /\ Emit(j, ProgressEvent(Head(pending[j]))) /\ ProgressEvent(Head(pending[j])) \in Event
        /\ UNCHANGED <<stored, run>> /\ ~IsTerminal(ProgressEvent(Head(pending[j])))
    BY <1>7, <2>1, EventFacts, EventKinds DEF EmitProgress
  <2>3. VerdictAgrees' /\ \A k \in Jobs : VerdictsIn(log'[k]) = VerdictsIn(log[k])
    BY <2>2, RecordAgrees
  <2> QED
    BY <2>2, <2>3 DEF AgreesInv, Unannounced
<1>8. ASSUME NEW j \in Jobs, ResumeWork(j) \/ ResumeTimeout(j) PROVE VerdictAgrees' /\ Unannounced'
  <2>1. /\ run[j] = "solving" /\ UNCHANGED log
        /\ \A k \in Jobs \ {j} : run'[k] = run[k] /\ stored'[k] = stored[k]
    BY <1>0, <1>8, TypeFacts DEF ResumeWork, ResumeTimeout, Conclude
  <2>2. stored[j] \notin Terminal
    BY <1>0, <2>1, TypeFacts, StatusFacts DEF Stage
  <2> QED
    BY <2>1, <2>2, QuietAgrees
<1>9. ASSUME NEW j \in Jobs, EmitVerdict(j) PROVE VerdictAgrees' /\ Unannounced'
  <2>1. VerdictsIn(log[j]) = {} /\ stored[j] \in Terminal
    BY <1>0, <1>9, TypeFacts DEF EmitVerdict, AgreesInv, Unannounced, Stage
  <2>2. /\ Emit(j, StatusEvent(stored[j])) /\ StatusEvent(stored[j]) \in Event
        /\ UNCHANGED stored /\ run'[j] = "closing" /\ \A k \in Jobs \ {j} : run'[k] = run[k]
    BY <1>0, <1>9, <2>1, TypeFacts, EventFacts DEF EmitVerdict
  <2>3. VerdictAgrees' /\ \A k \in Jobs \ {j} : VerdictsIn(log'[k]) = VerdictsIn(log[k])
    BY <2>1, <2>2, EventKinds, RecordAgrees
  <2> QED
    BY <2>2, <2>3 DEF AgreesInv, Unannounced
<1>10. ASSUME NEW j \in Jobs, Return(j) PROVE VerdictAgrees' /\ Unannounced'
  <2>1. UNCHANGED <<stored, log>> /\ run'[j] = "ended" /\ \A k \in Jobs \ {j} : run'[k] = run[k]
    BY <1>0, <1>10, TypeFacts DEF Return
  <2> QED
    BY <2>1, QuietAgrees
<1>11. ASSUME NEW j \in Jobs, NEW d \in wire[j], Arrive(j, d) PROVE VerdictAgrees' /\ Unannounced'
  <2>1. UNCHANGED <<stored, log, run>>
    BY <1>11 DEF Arrive
  <2> QED
    BY <2>1, QuietAgrees
<1>12. ASSUME NEW j \in Jobs, NEW d \in wire[j], PublishFails(j, d)
       PROVE  VerdictAgrees' /\ Unannounced'
  <2>1. /\ UNCHANGED <<stored, log>> /\ \A k \in Jobs \ {j} : run'[k] = run[k]
        /\ run'[j] \in {run[j], "ended"} \/ (IsStatus(d.event) /\ ~IsTerminal(d.event))
    BY <1>0, <1>12, TypeFacts DEF PublishFails
  <2>2. IsStatus(d.event) /\ ~IsTerminal(d.event) => run[j] \in {"announcing", "broken"}
    BY <1>0, TypeFacts DEF Sent
  <2> QED
    BY <2>1, <2>2, QuietAgrees
<1>13. ASSUME NEW r \in Readers, \/ ReadHistory(r) \/ Replay(r) \/ Receive(r) \/ Leave(r)
                                \/ \E j \in Jobs : Subscribe(r, j)
       PROVE  VerdictAgrees' /\ Unannounced'
  <2>1. UNCHANGED <<stored, log, run>>
    BY <1>13 DEF ReadHistory, Replay, Receive, Leave, Subscribe
  <2> QED
    BY <2>1, QuietAgrees
<1>14. ASSUME NEW w \in Workers, WorkerDies(w) PROVE VerdictAgrees' /\ Unannounced'
  <2>1. UNCHANGED <<stored, log>> /\ \A k \in Jobs : run'[k] \in {run[k], "lost"}
    BY <1>14 DEF WorkerDies
  <2> QED
    BY <2>1, QuietAgrees
<1>15. CASE ApiDies \/ RedisRestarts
  <2>1. /\ UNCHANGED <<stored, log>>
        /\ \A k \in Jobs : run'[k] = run[k] \/ run[k] \in {"saved", "enqueued"}
    BY <1>15 DEF ApiDies, RedisRestarts
  <2> QED
    BY <2>1, QuietAgrees
<1>16. CASE UNCHANGED vars
  BY <1>16, QuietAgrees DEF vars
<1> QED
  BY <1>1, <1>2, <1>3, <1>4, <1>5, <1>6, <1>7, <1>8, <1>9, <1>10, <1>11, <1>12, <1>13, <1>14,
     <1>15, <1>16 DEF Next, WorkerStep

LEMMA AgreesInductive == Spec => []AgreesInv
<1>1. Init => VerdictAgrees /\ Unannounced
  BY DEF Init, VerdictAgrees, Unannounced, VerdictsIn
<1>2. AgreesInv /\ [Next]_vars => VerdictAgrees' /\ Unannounced'
  BY AgreesStep
<1> QED
  BY <1>1, <1>2, TypeInductive, PTL DEF Spec, AgreesInv

-----------------------------------------------------------------------------
(* Progress comes before the verdict *)

\* What the solver of a job has reported: in the log, or handed to the loop.
Underway(j) == ProgressUpTo(log[j], Len(log[j])) \cup Range(pending[j])

\* Decided by what its solver did, not by the timer.
BySolver(j) == error[j] \in {"none", "exception"}
Decided(j)  == BySolver(j) /\ stored[j] \in Terminal

\* Until the verdict is announced everything the solver reported is in the log or
\* on its way there; what was under way when the verdict was stored is waited for,
\* stored and published, so that the terminal event is the last.
FlowOf(j) ==
    /\ run[j] \in {"none", "saved", "enqueued", "announcing"} =>
         thread[j] = "none" /\ pending[j] = <<>> /\ steps[j] = 0
    /\ run[j] \in {"none", "saved", "enqueued", "announcing", "solving", "draining", "verdict"} =>
         Underway(j) = 1..steps[j]
    /\ Decided(j) => thread[j] # "solving"
    /\ Decided(j) /\ run[j] = "draining" => Unsettled(j) \subseteq gathered[j]
    /\ Decided(j) /\ run[j] = "verdict" => Unsettled(j) = {}
    /\ Decided(j) /\ VerdictsIn(log[j]) # {} =>
         /\ pending[j] = <<>>
         /\ \A d \in wire[j] : IsTerminal(d.event)
         /\ \A i \in VerdictsIn(log[j]) : ProgressUpTo(log[j], i) = 1..steps[j]

Flow == \A j \in Jobs : FlowOf(j)

FlowInv == AgreesInv /\ Flow

\* A job of which a step changes nothing.
LEMMA FlowFrame ==
    ASSUME NEW k \in Jobs, FlowOf(k),
           stored'[k] = stored[k], error'[k] = error[k], log'[k] = log[k], run'[k] = run[k],
           thread'[k] = thread[k], steps'[k] = steps[k],
           pending'[k] = pending[k], gathered'[k] = gathered[k], wire'[k] = wire[k]
    PROVE  FlowOf(k)'
<1>1. UNCHANGED <<Underway(k), Unsettled(k)>>
  BY DEF Underway, Unsettled
<1> QED
  BY <1>1 DEF FlowOf, Decided, BySolver

\* A job that loses publishes, and maybe its way to a verdict.
LEMMA FlowOnward ==
    ASSUME NEW k \in Jobs, FlowOf(k),
           stored'[k] = stored[k], error'[k] = error[k], log'[k] = log[k],
           thread'[k] \in {thread[k], "none"}, steps'[k] = steps[k],
           pending'[k] \in {pending[k], <<>>}, wire'[k] \subseteq wire[k], gathered'[k] = gathered[k],
           \/ run'[k] \in {"rejected", "broken", "lost", "ended", "unqueued"}
           \/ run'[k] = run[k] /\ pending'[k] = pending[k] /\ thread'[k] = thread[k]
           \/ run'[k] = run[k] /\ run[k] \in {"closing"}
    PROVE  FlowOf(k)'
<1>1. pending'[k] = pending[k] => Underway(k)' = Underway(k) /\ Unsettled(k)' \subseteq Unsettled(k)
  BY DEF Underway, Unsettled
<1> QED
  BY <1>1 DEF FlowOf, Decided, BySolver

\* What an emitted event adds to what a log says was reported.
LEMMA EmitSaid ==
    ASSUME TypeInv, NEW j \in Jobs, NEW e \in Event, Emit(j, e)
    PROVE  /\ Len(log'[j]) = Len(log[j]) + 1
           /\ ProgressUpTo(log'[j], Len(log[j]) + 1) =
                ProgressUpTo(log[j], Len(log[j])) \cup (IF IsProgress(e) THEN {e.iteration} ELSE {})
           /\ \A i \in VerdictsIn(log[j]) : ProgressUpTo(log'[j], i) = ProgressUpTo(log[j], i)
<1> DEFINE l == Append(log[j], e)
<1>1. log[j] \in Seq(Event) /\ log'[j] = l
  BY TypeFacts DEF Emit, SqliteAddEvent
<1>2. Len(l) = Len(log[j]) + 1
  BY <1>1
<1>3. ProgressUpTo(l, Len(log[j]) + 1) =
        ProgressUpTo(log[j], Len(log[j])) \cup (IF IsProgress(e) THEN {e.iteration} ELSE {})
  BY <1>1, SaidNow
<1>4. ASSUME NEW i \in VerdictsIn(log[j]) PROVE ProgressUpTo(l, i) = ProgressUpTo(log[j], i)
  <2>1. i \in 0..Len(log[j])
    BY <1>1 DEF VerdictsIn
  <2> QED
    BY <1>1, <2>1, SaidBefore
<1> HIDE DEF l
<1> QED
  BY <1>1, <1>2, <1>3, <1>4

\* Nothing unsettled: nothing pending, and no progress on the wire.
LEMMA Settled ==
    ASSUME TypeInv, NEW j \in Jobs, Unsettled(j) = {}
    PROVE  pending[j] = <<>> /\ \A d \in wire[j] : ~IsProgress(d.event)
<1>1. pending[j] \in Seq(1..MaxProgress)
  BY TypeFacts
<1>2. pending[j] # <<>> => 1 \in DOMAIN pending[j]
  BY <1>1
<1>3. pending[j] # <<>> => pending[j][1] \in Unsettled(j)
  BY <1>2 DEF Unsettled, ToSet
<1>4. \A d \in wire[j] : IsProgress(d.event) => d.event.iteration \in Unsettled(j)
  BY DEF Unsettled
<1> QED
  BY <1>3, <1>4

LEMMA Reported ==
    ASSUME NEW j \in Jobs, pending[j] = <<>>
    PROVE  Underway(j) = ProgressUpTo(log[j], Len(log[j]))
BY DEF Underway, Range

\* One job's step.
LEMMA FlowOne ==
    ASSUME FlowInv, NEW j \in Jobs, FlowOf(j)',
           \A k \in Jobs \ {j} :
             /\ stored'[k] = stored[k] /\ error'[k] = error[k] /\ log'[k] = log[k]
             /\ run'[k] = run[k] /\ thread'[k] = thread[k] /\ steps'[k] = steps[k]
             /\ pending'[k] = pending[k] /\ gathered'[k] = gathered[k] /\ wire'[k] = wire[k]
    PROVE  Flow'
BY FlowFrame DEF FlowInv, Flow

LEMMA TakeFlow ==
    ASSUME FlowInv, NEW w \in Workers, NEW j \in Jobs,
           Begin(w, j) \/ Disown(w, j) \/ Reject(w, j)
    PROVE  Flow'
<1>0. TypeInv /\ FlowOf(j)
  BY DEF FlowInv, AgreesInv, Flow
<1>1. run[j] = "enqueued" /\ stored[j] = "queued"
  BY <1>0, TakeStage DEF Begin, Disown, Reject
<1>2. VerdictsIn(log[j]) = {} /\ Underway(j) = 1..steps[j] /\ thread[j] = "none"
      /\ pending[j] = <<>> /\ steps[j] = 0
  BY <1>0, <1>1, StatusFacts, UnfinishedIsSilent DEF FlowInv, FlowOf
<1>3. CASE Begin(w, j)
  <2>1. /\ Emit(j, StatusEvent("running")) /\ StatusEvent("running") \in Event
        /\ ~IsProgress(StatusEvent("running"))
        /\ run'[j] = "announcing" /\ stored'[j] = "running"
        /\ UNCHANGED <<error, thread, steps, pending, gathered>>
        /\ \A k \in Jobs \ {j} : /\ stored'[k] = stored[k] /\ run'[k] = run[k]
                                 /\ log'[k] = log[k] /\ wire'[k] = wire[k]
    BY <1>0, <1>3, TypeFacts, EventFacts, EventKinds, EmitStage DEF Begin, threadVars
  <2>2. ProgressUpTo(log'[j], Len(log'[j])) = ProgressUpTo(log[j], Len(log[j]))
    BY <1>0, <2>1, EmitSaid
  <2>3. Underway(j)' = Underway(j)
    BY <2>1, <2>2 DEF Underway
  <2>4. FlowOf(j)'
    BY <1>2, <2>1, <2>3, StatusFacts DEF FlowOf, Decided
  <2> QED
    BY <2>1, <2>4, FlowOne
<1>4. CASE Disown(w, j)
  <2>1. /\ run'[j] = "closing" /\ error'[j] = "no solver"
        /\ UNCHANGED <<thread, steps, pending, gathered>>
        /\ \A k \in Jobs \ {j} : /\ stored'[k] = stored[k] /\ run'[k] = run[k]
                                 /\ error'[k] = error[k]
                                 /\ log'[k] = log[k] /\ wire'[k] = wire[k]
    BY <1>0, <1>4, TypeFacts, EmitStage DEF Disown, threadVars
  <2>2. FlowOf(j)'
    BY <2>1 DEF FlowOf, Decided, BySolver
  <2> QED
    BY <2>1, <2>2, FlowOne
<1>5. CASE Reject(w, j)
  <2>1. /\ run'[j] = "rejected" /\ UNCHANGED <<storeVars, threadVars, emitVars>>
        /\ \A k \in Jobs \ {j} : run'[k] = run[k]
    BY <1>0, <1>5, TypeFacts DEF Reject
  <2>2. FlowOf(j)'
    BY <1>0, <2>1, FlowOnward DEF storeVars, threadVars, emitVars
  <2> QED
    BY <2>1, <2>2, FlowOne DEF storeVars, threadVars, emitVars
<1> QED
  BY <1>3, <1>4, <1>5

LEMMA ProgressFlow ==
    ASSUME FlowInv, NEW j \in Jobs, Progress(j)
    PROVE  Flow'
<1>1. /\ thread[j] = "solving" /\ steps[j] \in 0..MaxProgress /\ steps'[j] = steps[j] + 1
      /\ pending[j] \in Seq(1..MaxProgress) /\ pending'[j] = Append(pending[j], steps[j] + 1)
      /\ steps[j] + 1 \in 1..MaxProgress /\ FlowOf(j) /\ TypeInv
      /\ UNCHANGED <<stored, error, log, run, thread, gathered, wire>>
      /\ \A k \in Jobs \ {j} : steps'[k] = steps[k] /\ pending'[k] = pending[k]
  BY TypeFacts DEF Progress, FlowInv, AgreesInv, Flow, storeVars, queueVars
<1>2. Range(pending'[j]) = Range(pending[j]) \cup {steps[j] + 1}
  BY <1>1, RangeAppend
<1>3. 1..steps'[j] = (1..steps[j]) \cup {steps[j] + 1}
  BY <1>1
<1>4. Underway(j)' = Underway(j) \cup {steps[j] + 1}
  BY <1>1, <1>2 DEF Underway
<1>5. ~Decided(j) /\ ~Decided(j)'
  BY <1>1 DEF FlowOf, Decided, BySolver
<1>6. FlowOf(j)'
  BY <1>1, <1>3, <1>4, <1>5 DEF FlowOf
<1> QED
  BY <1>1, <1>6, FlowOne

\* The solver's thread starts when its job is announced, and ends.
LEMMA ThreadFlow ==
    ASSUME FlowInv, NEW j \in Jobs, StartSolve(j) \/ FinishThread(j)
    PROVE  Flow'
<1>1. /\ FlowOf(j) /\ TypeInv /\ Stage(j)
      /\ UNCHANGED <<stored, error, log, steps, pending, gathered, wire>>
      /\ \A k \in Jobs \ {j} : run'[k] = run[k] /\ thread'[k] = thread[k]
  BY TypeFacts DEF StartSolve, FinishThread, FlowInv, AgreesInv, Flow, storeVars, emitVars, queueVars
<1>2. UNCHANGED <<Underway(j), Unsettled(j), VerdictsIn(log[j])>>
  BY <1>1 DEF Underway, Unsettled
<1>3. CASE StartSolve(j)
  <2>1. run[j] = "announcing" /\ run'[j] = "solving" /\ stored[j] \notin Terminal
    BY <1>1, <1>3, TypeFacts, StatusFacts DEF StartSolve, Stage
  <2>2. FlowOf(j)'
    BY <1>1, <1>2, <2>1 DEF FlowOf, Decided, BySolver
  <2> QED
    BY <1>1, <2>2, FlowOne
<1>4. CASE FinishThread(j)
  <2>1. run'[j] = run[j] /\ thread[j] = "solving" /\ thread'[j] \in Finished
    BY <1>1, <1>4, TypeFacts DEF FinishThread, queueVars
  <2>2. FlowOf(j)'
    BY <1>1, <1>2, <2>1 DEF FlowOf, Decided, BySolver, Finished
  <2> QED
    BY <1>1, <2>2, FlowOne
<1> QED
  BY <1>3, <1>4

LEMMA EmitProgressFlow ==
    ASSUME FlowInv, NEW j \in Jobs, EmitProgress(j)
    PROVE  Flow'
<1> DEFINE e == ProgressEvent(Head(pending[j]))
<1>1. /\ pending[j] \in Seq(1..MaxProgress) /\ pending[j] # <<>>
      /\ pending'[j] = Tail(pending[j]) /\ run[j] # "verdict"
      /\ FlowOf(j) /\ TypeInv /\ Emit(j, e)
      /\ UNCHANGED <<stored, error, run, thread, steps, gathered>>
      /\ \A k \in Jobs \ {j} : pending'[k] = pending[k]
  BY TypeFacts DEF EmitProgress, FlowInv, AgreesInv, Flow, queueVars, threadVars
<1>2. Head(pending[j]) \in 1..MaxProgress
  BY <1>1, HeadTail
<1>3. /\ e \in Event /\ ~IsTerminal(e) /\ IsProgress(e) /\ e.iteration = Head(pending[j])
  BY <1>2, EventFacts, EventKinds
<1> HIDE DEF e
<1>4. \A k \in Jobs \ {j} : log'[k] = log[k] /\ wire'[k] = wire[k]
  BY <1>1, EmitStage
<1>5. VerdictsIn(log'[j]) = VerdictsIn(log[j])
  BY <1>1, <1>3, EmitLog
<1>6. Range(pending[j]) = {Head(pending[j])} \cup Range(pending'[j])
  BY <1>1, RangeHeadTail
<1>7. Underway(j)' = Underway(j)
  <2>1. ProgressUpTo(log'[j], Len(log'[j])) =
          ProgressUpTo(log[j], Len(log[j])) \cup {Head(pending[j])}
    BY <1>1, <1>3, EmitSaid
  <2> QED
    BY <1>6, <2>1 DEF Underway
<1>8. Unsettled(j)' \subseteq Unsettled(j)
  <2>1. \A d \in wire'[j] : d \in wire[j] \/ d.event = e
    BY <1>1, EmitStage
  <2>2. ToSet(pending[j]) = Range(pending[j]) /\ ToSet(pending[j])' = Range(pending'[j])
    BY DEF ToSet, Range
  <2> QED
    BY <1>3, <1>6, <2>1, <2>2 DEF Unsettled
<1>9. Decided(j) => VerdictsIn(log[j]) = {}
  BY <1>1 DEF FlowOf
<1>10. FlowOf(j)'
  BY <1>1, <1>5, <1>7, <1>8, <1>9 DEF FlowOf, Decided, BySolver
<1> QED
  BY <1>1, <1>4, <1>10, FlowOne

LEMMA ConcludeFlow ==
    ASSUME FlowInv, NEW j \in Jobs, ResumeWork(j) \/ ResumeTimeout(j)
    PROVE  Flow'
<1>1. /\ run[j] = "solving" /\ FlowOf(j) /\ TypeInv
      /\ UNCHANGED <<log, thread, steps, pending, wire>>
      /\ gathered'[j] = Unsettled(j)
      /\ run'[j] = IF Unsettled(j) = {} THEN "verdict" ELSE "draining"
      /\ \A k \in Jobs \ {j} : /\ stored'[k] = stored[k] /\ error'[k] = error[k]
                               /\ run'[k] = run[k] /\ gathered'[k] = gathered[k]
  BY TypeFacts DEF ResumeWork, ResumeTimeout, Conclude, FlowInv, AgreesInv, Flow, threadVars
<1>2. UNCHANGED <<Underway(j), Unsettled(j), VerdictsIn(log[j])>>
  BY <1>1 DEF Underway, Unsettled
<1>3. VerdictsIn(log[j]) = {}
  BY <1>1 DEF FlowInv, AgreesInv, Unannounced
<1>4. Decided(j)' => thread[j] # "solving"
  <2>1. CASE ResumeWork(j)
    BY <2>1 DEF ResumeWork, Finished
  <2>2. CASE ResumeTimeout(j)
    <3>1. error'[j] = "timeout"
      BY <1>1, <2>2, TypeFacts DEF ResumeTimeout, Conclude
    <3> QED
      BY <3>1 DEF Decided, BySolver
  <2> QED
    BY <2>1, <2>2
<1>5. FlowOf(j)'
  BY <1>1, <1>2, <1>3, <1>4 DEF FlowOf
<1> QED
  BY <1>1, <1>5, FlowOne

LEMMA DrainedFlow ==
    ASSUME FlowInv, NEW j \in Jobs, Drained(j)
    PROVE  Flow'
<1>1. /\ run[j] = "draining" /\ run'[j] = "verdict" /\ FlowOf(j) /\ TypeInv
      /\ gathered[j] \cap Unsettled(j) = {}
      /\ UNCHANGED <<stored, error, log, thread, steps, pending, gathered, wire>>
      /\ \A k \in Jobs \ {j} : run'[k] = run[k]
  BY TypeFacts DEF Drained, FlowInv, AgreesInv, Flow, storeVars, threadVars, emitVars
<1>2. UNCHANGED <<Underway(j), Unsettled(j), VerdictsIn(log[j])>>
  BY <1>1 DEF Underway, Unsettled
<1>3. Decided(j) => Unsettled(j) = {}
  BY <1>1 DEF FlowOf
<1>4. FlowOf(j)'
  BY <1>1, <1>2, <1>3 DEF FlowOf, Decided, BySolver
<1> QED
  BY <1>1, <1>4, FlowOne

LEMMA EmitVerdictFlow ==
    ASSUME FlowInv, NEW j \in Jobs, EmitVerdict(j)
    PROVE  Flow'
<1> DEFINE e == StatusEvent(stored[j])
<1>1. /\ run[j] = "verdict" /\ run'[j] = "closing" /\ FlowOf(j) /\ TypeInv /\ Emit(j, e)
      /\ UNCHANGED <<stored, error, thread, steps, pending, gathered>>
      /\ \A k \in Jobs \ {j} : run'[k] = run[k]
      /\ Stage(j) /\ Sent(j) /\ wire[j] \subseteq Delivery
  BY TypeFacts DEF EmitVerdict, FlowInv, AgreesInv, Flow, threadVars
<1>2. stored[j] \in Terminal /\ VerdictsIn(log[j]) = {}
  BY <1>1 DEF Stage, FlowInv, AgreesInv, Unannounced
<1>3. e \in Event /\ IsTerminal(e) /\ ~IsProgress(e)
  BY <1>2, EventFacts, EventKinds
<1> HIDE DEF e
<1>4. \A k \in Jobs \ {j} : log'[k] = log[k] /\ wire'[k] = wire[k]
  BY <1>1, EmitStage
<1>5. VerdictsIn(log'[j]) = {Len(log[j]) + 1}
  BY <1>1, <1>2, <1>3, EmitLog
<1>6. ProgressUpTo(log'[j], Len(log[j]) + 1) = ProgressUpTo(log[j], Len(log[j]))
  BY <1>1, <1>3, EmitSaid
<1>7. ASSUME Decided(j)
      PROVE  /\ pending[j] = <<>> /\ \A d \in wire'[j] : IsTerminal(d.event)
             /\ ProgressUpTo(log[j], Len(log[j])) = 1..steps[j] /\ thread[j] # "solving"
  <2>1. Unsettled(j) = {} /\ Underway(j) = 1..steps[j] /\ thread[j] # "solving"
    BY <1>1, <1>7 DEF FlowOf
  <2>2. pending[j] = <<>> /\ \A d \in wire[j] : ~IsProgress(d.event)
    BY <1>1, <2>1, Settled
  <2>3. \A d \in wire[j] : IsTerminal(d.event)
    BY <1>1, <2>2 DEF Sent, Delivery, Event, IsProgress, IsStatus
  <2>4. \A d \in wire'[j] : IsTerminal(d.event)
    BY <1>1, <1>3, <2>3, EmitStage
  <2> QED
    BY <2>1, <2>2, <2>4, Reported
<1>8. Decided(j)' => Decided(j)
  BY <1>1 DEF Decided, BySolver
<1>9. FlowOf(j)'
  BY <1>1, <1>5, <1>6, <1>7, <1>8 DEF FlowOf
<1> QED
  BY <1>1, <1>4, <1>9, FlowOne

LEMMA FlowStep ==
    ASSUME FlowInv, [Next]_vars
    PROVE  Flow'
<1> USE DEF storeVars, queueVars, threadVars, emitVars
<1>0. TypeInv /\ Flow
  BY DEF FlowInv, AgreesInv
<1>1. ASSUME NEW j \in Jobs, Save(j) \/ Enqueue(j) PROVE Flow'
  <2>1. /\ UNCHANGED <<error, log, thread, steps, pending, gathered, wire>>
        /\ \A k \in Jobs \ {j} : stored'[k] = stored[k] /\ run'[k] = run[k]
        /\ FlowOf(j) /\ run[j] \in {"none", "saved"} /\ stored'[j] = "queued"
        /\ run'[j] \in {"saved", "enqueued", "unqueued"}
    BY <1>0, <1>1, TypeFacts DEF Save, Enqueue, Stage, Flow
  <2>2. UNCHANGED Underway(j)
    BY <2>1 DEF Underway
  <2>3. FlowOf(j)'
    BY <2>1, <2>2, StatusFacts DEF FlowOf, Decided
  <2> QED
    BY <2>1, <2>3, FlowOne
<1>2. ASSUME NEW j \in Jobs, Cancel(j) \/ Watch(j) \/ Discard(j) PROVE Flow'
  <2>1. UNCHANGED <<stored, error, log, run, thread, steps, pending, gathered, wire>>
    BY <1>2 DEF Cancel, Watch, Discard
  <2> QED
    BY <1>0, <2>1, FlowFrame DEF Flow
<1>3. ASSUME NEW j \in Jobs, Return(j) PROVE Flow'
  <2>1. UNCHANGED <<stored, error, log, thread, steps, pending, gathered, wire>>
        /\ run'[j] = "ended" /\ \A k \in Jobs \ {j} : run'[k] = run[k]
    BY <1>0, <1>3, TypeFacts DEF Return
  <2>2. FlowOf(j)'
    BY <1>0, <2>1, FlowOnward DEF Flow
  <2> QED
    BY <2>1, <2>2, FlowOne
<1>4. ASSUME NEW j \in Jobs, NEW d \in wire[j], Arrive(j, d) PROVE Flow'
  <2>1. UNCHANGED <<stored, error, log, run, thread, steps, pending, gathered>>
        /\ wire'[j] \subseteq wire[j] /\ \A k \in Jobs \ {j} : wire'[k] = wire[k]
    BY <1>0, <1>4, TypeFacts DEF Arrive
  <2>2. FlowOf(j)'
    BY <1>0, <2>1, FlowOnward DEF Flow
  <2> QED
    BY <2>1, <2>2, FlowOne
<1>5. ASSUME NEW j \in Jobs, NEW d \in wire[j], PublishFails(j, d) PROVE Flow'
  <2>1. UNCHANGED <<stored, error, log, thread, steps, pending, gathered>>
        /\ wire'[j] \subseteq wire[j] /\ run'[j] \in {run[j], "ended", "broken"}
        /\ \A k \in Jobs \ {j} : wire'[k] = wire[k] /\ run'[k] = run[k]
    BY <1>0, <1>5, TypeFacts DEF PublishFails
  <2>2. FlowOf(j)'
    BY <1>0, <2>1, FlowOnward DEF Flow
  <2> QED
    BY <2>1, <2>2, FlowOne
<1>6. ASSUME NEW r \in Readers, \/ ReadHistory(r) \/ Replay(r) \/ Receive(r) \/ Leave(r)
                                \/ \E j \in Jobs : Subscribe(r, j)
       PROVE  Flow'
  <2>1. UNCHANGED <<stored, error, log, run, thread, steps, pending, gathered, wire>>
    BY <1>6 DEF ReadHistory, Replay, Receive, Leave, Subscribe
  <2> QED
    BY <1>0, <2>1, FlowFrame DEF Flow
<1>7. ASSUME NEW w \in Workers, WorkerDies(w) PROVE Flow'
  <2>1. ASSUME NEW k \in Jobs PROVE FlowOf(k)'
    <3>1. /\ UNCHANGED <<stored, error, log, steps, gathered>>
          /\ \/ /\ run'[k] = run[k] /\ thread'[k] = thread[k] /\ pending'[k] = pending[k]
                /\ wire'[k] = wire[k]
             \/ /\ run'[k] = IF run[k] \in Held THEN "lost" ELSE run[k]
                /\ thread'[k] = "none" /\ pending'[k] = <<>> /\ wire'[k] = {}
      BY <1>7 DEF WorkerDies
    <3>2. CASE run[k] \in {"none", "saved", "enqueued"}
      <4>1. /\ FlowOf(k) /\ thread'[k] = thread[k] /\ pending'[k] = pending[k]
            /\ run'[k] = run[k] /\ wire'[k] \subseteq wire[k]
        BY <1>0, <3>1, <3>2 DEF Flow, FlowOf, Held
      <4> QED
        BY <3>1, <4>1, FlowOnward
    <3>3. CASE run[k] \notin {"none", "saved", "enqueued"}
      <4>1. /\ FlowOf(k) /\ run[k] \in RunState
        BY <1>0, TypeFacts DEF Flow
      <4>2. run[k] \in Held \cup {"rejected", "broken", "lost", "ended", "unqueued"}
        BY <3>3, <4>1 DEF RunState, Stuck
      <4> QED
        BY <3>1, <4>1, <4>2, FlowOnward
    <3> QED
      BY <3>2, <3>3
  <2> QED
    BY <2>1 DEF Flow
<1>8. CASE ApiDies \/ RedisRestarts
  <2>1. ASSUME NEW k \in Jobs PROVE FlowOf(k)'
    <3>1. /\ UNCHANGED <<stored, error, log, thread, steps, pending, gathered, wire>>
          /\ run'[k] \in {run[k], "unqueued"}
      BY <1>8 DEF ApiDies, RedisRestarts
    <3> QED
      BY <1>0, <3>1, FlowOnward DEF Flow
  <2> QED
    BY <2>1 DEF Flow
<1>9. CASE UNCHANGED vars
  BY <1>0, <1>9, FlowFrame DEF vars, Flow
<1> QED
  BY <1>1, <1>2, <1>3, <1>4, <1>5, <1>6, <1>7, <1>8, <1>9, TakeFlow, ProgressFlow, ThreadFlow,
     EmitProgressFlow, ConcludeFlow, DrainedFlow, EmitVerdictFlow DEF Next, WorkerStep, ThreadStep

\* The log of a job announces one verdict at most, the stored one, and unless the
\* timer decided it (or no worker could), after everything its solver reported,
\* however publishes are delayed, overtaken or lost and whoever dies.
THEOREM ArqVerdictsAreEarned == Spec => []VerdictIsEarned
<1>1. Init => Flow
  <2> SUFFICES ASSUME Init, NEW j \in Jobs PROVE FlowOf(j)
    BY DEF Flow
  <2>1. /\ log[j] = <<>> /\ pending[j] = <<>> /\ steps[j] = 0 /\ thread[j] = "none"
        /\ run[j] = "none" /\ stored[j] = NoRow
    BY DEF Init
  <2>2. Underway(j) = {} /\ 1..steps[j] = {}
    BY <2>1 DEF Underway, ProgressUpTo, Range
  <2> QED
    BY <2>1, <2>2, StatusFacts DEF FlowOf, Decided
<1>2. FlowInv /\ [Next]_vars => Flow'
  BY FlowStep
<1>3. FlowInv => VerdictIsEarned
  <2> SUFFICES ASSUME FlowInv PROVE ProgressBeforeVerdict
    BY DEF FlowInv, AgreesInv, VerdictIsEarned
  <2>1. ASSUME NEW j \in Jobs, error[j] \in {"none", "exception"}, NEW i \in VerdictsIn(log[j])
        PROVE  /\ ProgressUpTo(log[j], i) = 1..steps[j]
               /\ \A d \in wire[j] : IsTerminal(d.event)
    <3>1. stored[j] \in Terminal
      BY <2>1, UnfinishedIsSilent DEF FlowInv
    <3> QED
      BY <2>1, <3>1 DEF FlowInv, Flow, FlowOf, Decided, BySolver
  <2> QED
    BY <2>1 DEF ProgressBeforeVerdict
<1> QED
  BY <1>1, <1>2, <1>3, AgreesInductive, PTL DEF Spec, FlowInv

-----------------------------------------------------------------------------
(* What a reader is handed.  The invariant below speaks of one stream: l   *)
(* is the log of its job, s what was handed on, h what is left to replay,  *)
(* n the number replayed, q its queue, w the publishes on the way, hi the  *)
(* highest number that reached the queue, m what the bus lost.             *)

\* A delivery carries its event's place in the log.
Numbered(l, d) == d.seq \in 1..Len(l) /\ l[d.seq] = d.event

\* What is queued arrived in the order of the log or was overtaken, and what the
\* number replayed will have dropped was handed on already.
Feed(l, s, n, q, hi, m) ==
    /\ \A i \in 1..Len(q) : Numbered(l, q[i]) /\ q[i].seq <= hi
    /\ \A i, k \in 1..Len(q) : i < k => q[k].seq >= q[i].seq \/ q[k].event \in m
    /\ \A i \in 1..Len(q) : q[i].seq > n \/ q[i].event \in m \cup Range(s)

\* What was handed on sits at increasing places of the log up to n.
Placed(l, s, n) ==
    \E place \in [DOMAIN s -> DOMAIN l] :
        /\ \A i \in DOMAIN s : s[i] = l[place[i]] /\ place[i] <= n
        /\ \A i \in DOMAIN s : i > 1 => place[i] > place[i - 1]

Past(l, s, n, hi) ==
    /\ n <= Len(l) /\ Placed(l, s, n)
    /\ \A p \in 1..n : l[p] \in Range(s) \/ p < hi

\* The rest of the replay is the log from n on.
Replaying(l, h, n) == \A i \in 1..Len(h) : n + i <= Len(l) /\ h[i] = l[n + i]

Events(D) == {d.event : d \in D}

Lossless(l, s, h, q, w, m) ==
    \A p \in 1..Len(l) : l[p] \in Range(s) \cup Range(h) \cup m \cup Events(Range(q) \cup w)

-----------------------------------------------------------------------------
(* What the steps do to one stream *)

LEMMA AppendFacts ==
    ASSUME NEW S, NEW s \in Seq(S), NEW x \in S
    PROVE  /\ Append(s, x) \in Seq(S) /\ Len(Append(s, x)) = Len(s) + 1 /\ Len(s) \in Nat
           /\ Append(s, x)[Len(s) + 1] = x
           /\ \A i \in 1..Len(s) : Append(s, x)[i] = s[i]
           /\ DOMAIN s = 1..Len(s) /\ DOMAIN Append(s, x) = 1..(Len(s) + 1)
           /\ Range(Append(s, x)) = Range(s) \cup {x}
<1>1. Range(Append(s, x)) = Range(s) \cup {x}
  BY RangeAppend
<1> QED
  BY <1>1

LEMMA TailFacts ==
    ASSUME NEW S, NEW s \in Seq(S), s # <<>>
    PROVE  /\ Tail(s) \in Seq(S) /\ Len(Tail(s)) = Len(s) - 1 /\ Len(s) \in Nat \ {0}
           /\ Head(s) = s[1] /\ Head(s) \in S
           /\ \A i \in 1..(Len(s) - 1) : Tail(s)[i] = s[i + 1]
           /\ Range(s) = {Head(s)} \cup Range(Tail(s))
<1>1. Range(s) = {Head(s)} \cup Range(Tail(s))
  BY RangeHeadTail
<1> QED
  BY <1>1

\* The log grows by an event whose publish is on the way.
LEMMA NumbersGrow ==
    ASSUME NEW l \in Seq(Event), NEW e \in Event, NEW k, k = Append(l, e)
    PROVE  /\ \A d : Numbered(l, d) => Numbered(k, d)
           /\ Numbered(k, [seq |-> Len(k), event |-> e])
<1>1. /\ k \in Seq(Event) /\ Len(k) = Len(l) + 1 /\ Len(l) \in Nat /\ k[Len(l) + 1] = e
      /\ \A i \in 1..Len(l) : k[i] = l[i]
  BY AppendFacts
<1> QED
  BY <1>1 DEF Numbered

LEMMA FollowersGrow ==
    ASSUME NEW l \in Seq(Event), NEW e \in Event, NEW k, k = Append(l, e),
           NEW s \in Seq(Event), NEW h \in Seq(Event), NEW n \in Nat, NEW q \in Seq(Delivery),
           NEW hi \in Nat, NEW m,
           Feed(l, s, n, q, hi, m), Past(l, s, n, hi), Replaying(l, h, n)
    PROVE  Feed(k, s, n, q, hi, m) /\ Past(k, s, n, hi) /\ Replaying(k, h, n)
<1>1. /\ k \in Seq(Event) /\ Len(k) = Len(l) + 1 /\ Len(l) \in Nat /\ k[Len(l) + 1] = e
      /\ \A i \in 1..Len(l) : k[i] = l[i]
      /\ DOMAIN l = 1..Len(l) /\ DOMAIN k = 1..(Len(l) + 1)
  BY AppendFacts
<1>2. \A d : Numbered(l, d) => Numbered(k, d)
  BY NumbersGrow
<1>3. Feed(k, s, n, q, hi, m)
  BY <1>2 DEF Feed
<1>4. Placed(k, s, n)
  <2>1. PICK place \in [DOMAIN s -> DOMAIN l] :
          /\ \A i \in DOMAIN s : s[i] = l[place[i]] /\ place[i] <= n
          /\ \A i \in DOMAIN s : i > 1 => place[i] > place[i - 1]
    BY DEF Past, Placed
  <2>2. place \in [DOMAIN s -> DOMAIN k] /\ \A i \in DOMAIN s : k[place[i]] = l[place[i]]
    BY <1>1
  <2> QED
    BY <2>1, <2>2 DEF Placed
<1>5. Past(k, s, n, hi)
  BY <1>1, <1>4 DEF Past
<1>6. Replaying(k, h, n)
  <2> SUFFICES ASSUME NEW i \in 1..Len(h) PROVE n + i <= Len(k) /\ h[i] = k[n + i]
    BY DEF Replaying
  <2>1. n + i <= Len(l) /\ h[i] = l[n + i] /\ n + i \in 1..Len(l)
    BY <1>1 DEF Replaying
  <2> QED
    BY <1>1, <2>1
<1> QED
  BY <1>3, <1>5, <1>6

LEMMA LosslessGrows ==
    ASSUME NEW l \in Seq(Event), NEW e \in Event, NEW k, k = Append(l, e),
           NEW w, NEW v, w \subseteq v, \E d \in v : d.event = e,
           NEW s, NEW h, NEW q, NEW m, Lossless(l, s, h, q, w, m)
    PROVE  Lossless(k, s, h, q, v, m)
<1>1. /\ Len(k) = Len(l) + 1 /\ Len(l) \in Nat /\ k[Len(l) + 1] = e
      /\ \A i \in 1..Len(l) : k[i] = l[i]
  BY AppendFacts
<1> SUFFICES ASSUME NEW p \in 1..Len(k)
             PROVE  k[p] \in Range(s) \cup Range(h) \cup m \cup Events(Range(q) \cup v)
  BY DEF Lossless
<1>2. CASE p \in 1..Len(l)
  <2>1. l[p] \in Range(s) \cup Range(h) \cup m \cup Events(Range(q) \cup w) /\ k[p] = l[p]
    BY <1>1, <1>2 DEF Lossless
  <2> QED
    BY <2>1 DEF Events
<1>3. CASE p = Len(l) + 1
  BY <1>1, <1>3 DEF Events
<1> QED
  BY <1>1, <1>2, <1>3

\* A stream that has just been attached.
LEMMA Begins ==
    ASSUME NEW l \in Seq(Event), NEW hi, NEW m
    PROVE  Feed(l, <<>>, 0, <<>>, hi, m) /\ Past(l, <<>>, 0, hi) /\ Replaying(l, <<>>, 0)
<1>1. <<>> \in [DOMAIN <<>> -> DOMAIN l] /\ Len(<<>>) = 0 /\ Len(l) \in Nat /\ DOMAIN <<>> = {}
  OBVIOUS
<1>2. Placed(l, <<>>, 0)
  BY <1>1 DEF Placed
<1> QED
  BY <1>1, <1>2 DEF Feed, Past, Replaying

\* The history is read: all of the log is still to be replayed.
LEMMA Reads ==
    ASSUME NEW l \in Seq(Event), NEW q, NEW w, NEW m
    PROVE  Replaying(l, l, 0) /\ Lossless(l, <<>>, l, q, w, m)
<1>1. DOMAIN l = 1..Len(l) /\ Len(l) \in Nat
  OBVIOUS
<1>2. \A p \in 1..Len(l) : l[p] \in Range(l)
  BY <1>1 DEF Range
<1> QED
  BY <1>1, <1>2 DEF Replaying, Lossless

\* Handing on the event at a place beyond n.
LEMMA Hands ==
    ASSUME NEW l \in Seq(Event), NEW s \in Seq(Event), NEW n \in Nat, NEW p \in 1..Len(l), p > n,
           Placed(l, s, n)
    PROVE  Placed(l, Append(s, l[p]), p)
<1> DEFINE e == l[p]
           t == Append(s, e)
<1>0. Len(l) \in Nat /\ DOMAIN l = 1..Len(l) /\ e \in Event
  OBVIOUS
<1> HIDE DEF e
<1>1. /\ Len(s) \in Nat /\ t[Len(s) + 1] = e /\ \A i \in 1..Len(s) : t[i] = s[i]
      /\ DOMAIN s = 1..Len(s) /\ DOMAIN t = 1..(Len(s) + 1)
  BY <1>0, AppendFacts
<1> HIDE DEF t
<1>2. PICK place \in [DOMAIN s -> DOMAIN l] :
        /\ \A i \in DOMAIN s : s[i] = l[place[i]] /\ place[i] <= n
        /\ \A i \in DOMAIN s : i > 1 => place[i] > place[i - 1]
  BY DEF Placed
<1> DEFINE f == [i \in DOMAIN t |-> IF i \in DOMAIN s THEN place[i] ELSE p]
<1>3. f \in [DOMAIN t -> DOMAIN l]
  BY <1>0, <1>1
<1>4. \A i \in DOMAIN t : t[i] = l[f[i]] /\ f[i] <= p
  BY <1>0, <1>1, <1>2 DEF e
<1>5. ASSUME NEW i \in DOMAIN t, i > 1 PROVE f[i] > f[i - 1]
  <2>1. i - 1 \in DOMAIN s /\ i - 1 \in DOMAIN t /\ f[i - 1] = place[i - 1] /\ place[i - 1] \in 1..n
    BY <1>0, <1>1, <1>2, <1>5
  <2>2. CASE i \in DOMAIN s
    BY <1>2, <1>5, <2>1, <2>2
  <2>3. CASE i \notin DOMAIN s
    BY <1>5, <2>1, <2>3
  <2> QED
    BY <2>2, <2>3
<1> HIDE DEF f
<1>6. Placed(l, t, p)
  BY <1>3, <1>4, <1>5 DEF Placed
<1> QED
  BY <1>6 DEF t, e

LEMMA Replays ==
    ASSUME NEW l \in Seq(Event), NEW s \in Seq(Event), NEW h \in Seq(Event), NEW n \in Nat,
           NEW q \in Seq(Delivery), NEW hi \in Nat, NEW m, NEW w, h # <<>>,
           Feed(l, s, n, q, hi, m), Past(l, s, n, hi), Replaying(l, h, n),
           Lossless(l, s, h, q, w, m)
    PROVE  LET t == Append(s, Head(h)) IN
             /\ Feed(l, t, n + 1, q, hi, m) /\ Past(l, t, n + 1, hi)
             /\ Replaying(l, Tail(h), n + 1) /\ Lossless(l, t, Tail(h), q, w, m)
<1> DEFINE e == Head(h)
           t == Append(s, e)
           k == Tail(h)
<1>1. /\ k \in Seq(Event) /\ Len(k) = Len(h) - 1 /\ Len(h) \in Nat \ {0} /\ e = h[1] /\ e \in Event
      /\ \A i \in 1..(Len(h) - 1) : k[i] = h[i + 1]
      /\ Range(h) = {e} \cup Range(k)
  BY TailFacts
<1> HIDE DEF k, e
<1>2. Range(t) = Range(s) \cup {e}
  BY <1>1, AppendFacts
<1>3. n + 1 \in 1..Len(l) /\ l[n + 1] = e
  BY <1>1 DEF Replaying
<1>4. Placed(l, t, n + 1)
  BY <1>3, Hands DEF Past
<1> HIDE DEF t
<1>5. Feed(l, t, n + 1, q, hi, m)
  <2>1. ASSUME NEW i \in 1..Len(q), q[i].seq > n PROVE q[i].seq > n + 1 \/ q[i].event \in Range(t)
    BY <1>2, <1>3, <2>1 DEF Feed, Numbered
  <2> QED
    BY <1>2, <2>1 DEF Feed
<1>6. Past(l, t, n + 1, hi)
  BY <1>2, <1>3, <1>4 DEF Past
<1>7. Replaying(l, k, n + 1)
  <2> SUFFICES ASSUME NEW i \in 1..Len(k) PROVE n + 1 + i <= Len(l) /\ k[i] = l[n + 1 + i]
    BY DEF Replaying
  <2>1. i + 1 \in 1..Len(h) /\ k[i] = h[i + 1] /\ n + (i + 1) = n + 1 + i
    BY <1>1
  <2> QED
    BY <2>1 DEF Replaying
<1>8. Lossless(l, t, k, q, w, m)
  BY <1>1, <1>2 DEF Lossless
<1> QED
  BY <1>5, <1>6, <1>7, <1>8 DEF t, k, e

LEMMA Receives ==
    ASSUME NEW l \in Seq(Event), NEW s \in Seq(Event), NEW n \in Nat,
           NEW q \in Seq(Delivery), NEW hi \in Nat, NEW m, NEW w, q # <<>>,
           Feed(l, s, n, q, hi, m), Past(l, s, n, hi), Lossless(l, s, <<>>, q, w, m)
    PROVE  LET d == Head(q)
               t == Append(s, d.event)
           IN /\ d.seq <= n => /\ Feed(l, s, n, Tail(q), hi, m)
                               /\ Lossless(l, s, <<>>, Tail(q), w, m)
              /\ d.seq > n => /\ Feed(l, t, d.seq, Tail(q), hi, m) /\ Past(l, t, d.seq, hi)
                              /\ Replaying(l, <<>>, d.seq) /\ Lossless(l, t, <<>>, Tail(q), w, m)
<1> DEFINE d == Head(q)
           t == Append(s, d.event)
           u == Tail(q)
<1>1. /\ u \in Seq(Delivery) /\ Len(u) = Len(q) - 1 /\ Len(q) \in Nat \ {0} /\ d = q[1]
      /\ d \in Delivery
      /\ \A i \in 1..(Len(q) - 1) : u[i] = q[i + 1]
      /\ Range(q) = {d} \cup Range(u)
  BY TailFacts
<1> HIDE DEF u, d
<1>2. Numbered(l, d) /\ d.seq <= hi /\ d.seq \in Nat /\ d.event \in Event
  BY <1>1 DEF Feed, Delivery
<1>3. 1 \in 1..Len(q) /\ \A i \in 1..Len(u) : i + 1 \in 1..Len(q) /\ u[i] = q[i + 1] /\ 1 < i + 1
  BY <1>1
<1>4. \A i \in 1..Len(u) : (u[i].seq >= d.seq \/ u[i].event \in m) /\ Numbered(l, u[i])
  BY <1>1, <1>3 DEF Feed
<1>5. \A i \in 1..Len(u) : /\ i + 1 \in 1..Len(q) /\ u[i] = q[i + 1]
                          /\ (u[i].seq >= d.seq \/ u[i].event \in m)
                          /\ Numbered(l, u[i])
  BY <1>3, <1>4
<1>6. \A i \in 1..Len(u) : Numbered(l, u[i]) /\ u[i].seq <= hi
  BY <1>5 DEF Feed
<1>7. \A i, k \in 1..Len(u) : i < k => (u[k].seq >= u[i].seq \/ u[k].event \in m)
  <2> SUFFICES ASSUME NEW i \in 1..Len(u), NEW k \in 1..Len(u), i < k
               PROVE  u[k].seq >= u[i].seq \/ u[k].event \in m
    OBVIOUS
  <2>1. i + 1 < k + 1 /\ u[i] = q[i + 1] /\ u[k] = q[k + 1] /\ i + 1 \in 1..Len(q) /\ k + 1 \in 1..Len(q)
    BY <1>5
  <2> QED
    BY <2>1 DEF Feed
<1>8. ASSUME d.seq <= n PROVE Feed(l, s, n, u, hi, m) /\ Lossless(l, s, <<>>, u, w, m)
  <2>0. \A i \in 1..Len(u) : u[i].seq > n \/ u[i].event \in m \cup Range(s)
    BY <1>5 DEF Feed
  <2>1. Feed(l, s, n, u, hi, m)
    BY <1>6, <1>7, <2>0 DEF Feed
  <2>2. d.event \in m \cup Range(s)
    <3>1. q[1].seq > n \/ q[1].event \in m \cup Range(s)
      BY <1>3 DEF Feed
    <3>2. q[1] = d
      BY <1>1
    <3> QED
      BY <1>2, <1>8, <3>1, <3>2
  <2>3. Lossless(l, s, <<>>, u, w, m)
    BY <1>1, <2>2 DEF Lossless, Events
  <2> QED
    BY <2>1, <2>3
<1>9. ASSUME d.seq > n
      PROVE  /\ Feed(l, t, d.seq, u, hi, m) /\ Past(l, t, d.seq, hi)
             /\ Replaying(l, <<>>, d.seq) /\ Lossless(l, t, <<>>, u, w, m)
  <2>1. Range(t) = Range(s) \cup {d.event}
    BY <1>2, AppendFacts
  <2>2. d.seq \in 1..Len(l) /\ l[d.seq] = d.event
    BY <1>2 DEF Numbered
  <2>3. Placed(l, t, d.seq)
    BY <1>9, <2>2, Hands DEF Past
  <2> HIDE DEF t
  <2>4. \A i \in 1..Len(u) : u[i].seq > d.seq \/ u[i].event \in m \cup Range(t)
    <3> SUFFICES ASSUME NEW i \in 1..Len(u) PROVE u[i].seq > d.seq \/ u[i].event \in m \cup Range(t)
      OBVIOUS
    <3>1. (u[i].seq >= d.seq \/ u[i].event \in m) /\ u[i].seq \in 1..Len(l) /\ l[u[i].seq] = u[i].event
      BY <1>5 DEF Numbered
    <3> QED
      BY <2>1, <2>2, <3>1
  <2>5. Feed(l, t, d.seq, u, hi, m)
    BY <1>6, <1>7, <2>4 DEF Feed
  <2>6. Past(l, t, d.seq, hi)
    <3>1. \A p \in 1..d.seq : l[p] \in Range(t) \/ p < hi
      BY <1>2, <2>1, <2>2
    <3> QED
      BY <1>2, <2>2, <2>3, <3>1 DEF Past
  <2>7. Lossless(l, t, <<>>, u, w, m)
    BY <1>1, <2>1 DEF Lossless, Events
  <2> QED
    BY <2>5, <2>6, <2>7 DEF Replaying
<1> QED
  BY <1>2, <1>8, <1>9 DEF t, u, d

\* The bus loses publishes, and the history variable says which.
LEMMA Loses ==
    ASSUME NEW l, NEW s, NEW h, NEW n, NEW q, NEW hi, NEW m, NEW w, NEW v, NEW x,
           m \subseteq x, Events(w \ v) \subseteq x
    PROVE  /\ Feed(l, s, n, q, hi, m) => Feed(l, s, n, q, hi, x)
           /\ Lossless(l, s, h, q, w, m) => Lossless(l, s, h, q, v, x)
<1>1. Feed(l, s, n, q, hi, m) => Feed(l, s, n, q, hi, x)
  BY DEF Feed
<1>2. Lossless(l, s, h, q, w, m) => Lossless(l, s, h, q, v, x)
  BY DEF Lossless, Events
<1> QED
  BY <1>1, <1>2

\* A publish reaches the queue, maybe overtaken.
LEMMA ArrivesFeed ==
    ASSUME NEW l \in Seq(Event), NEW s \in Seq(Event), NEW n \in Nat,
           NEW q \in Seq(Delivery), NEW hi \in Nat, NEW m, NEW d \in Delivery, NEW u,
           u = Append(q, d), NEW x, NEW high2 \in Nat,
           Numbered(l, d) /\ hi <= high2 /\ d.seq <= high2,
           m \subseteq x /\ (d.seq < hi => d.event \in x),
           Feed(l, s, n, q, hi, m) /\ Past(l, s, n, hi)
    PROVE  Feed(l, s, n, u, high2, x) /\ Past(l, s, n, high2)
<1>1. /\ Len(u) = Len(q) + 1 /\ Len(q) \in Nat /\ u[Len(q) + 1] = d
      /\ \A i \in 1..Len(q) : u[i] = q[i]
      /\ Range(u) = Range(q) \cup {d}
  BY AppendFacts
<1>2. d.seq \in Nat /\ d.seq \in 1..Len(l) /\ l[d.seq] = d.event /\ m \subseteq x /\ hi <= high2
      /\ d.seq <= high2
  BY DEF Delivery, Numbered
<1>3. Feed(l, s, n, u, high2, x)
  <2>0. \A i \in 1..Len(q) : q[i].seq \in 1..Len(l) /\ q[i].seq <= hi
    BY DEF Feed, Numbered
  <2>1. \A i \in 1..Len(u) : Numbered(l, u[i]) /\ u[i].seq <= high2
    <3> SUFFICES ASSUME NEW i \in 1..Len(u) PROVE Numbered(l, u[i]) /\ u[i].seq <= high2
      OBVIOUS
    <3>1. CASE i \in 1..Len(q)
      BY <1>1, <1>2, <2>0, <3>1 DEF Feed
    <3>2. CASE i = Len(q) + 1
      BY <1>1, <1>2, <3>2
    <3> QED
      BY <1>1, <3>1, <3>2
  <2>2. \A i, k \in 1..Len(u) : i < k => (u[k].seq >= u[i].seq \/ u[k].event \in x)
    <3> SUFFICES ASSUME NEW i \in 1..Len(u), NEW k \in 1..Len(u), i < k
                 PROVE  u[k].seq >= u[i].seq \/ u[k].event \in x
      OBVIOUS
    <3>0. i \in 1..Len(q) /\ u[i] = q[i]
      BY <1>1
    <3>1. CASE k \in 1..Len(q)
      BY <1>1, <1>2, <3>0, <3>1 DEF Feed
    <3>2. CASE k = Len(q) + 1
      <4>1. u[k] = d /\ q[i].seq \in 1..Len(l) /\ q[i].seq <= hi
        BY <1>1, <2>0, <3>0, <3>2
      <4>2. d.seq < hi => d.event \in x
        OBVIOUS
      <4>3. d.seq \in Nat /\ q[i].seq \in Nat
        BY <1>2, <4>1
      <4> QED
        BY <3>0, <4>1, <4>2, <4>3
    <3>3. k \in 1..Len(q) \/ k = Len(q) + 1
      BY <1>1
    <3> QED
      BY <3>1, <3>2, <3>3
  <2>3. \A i \in 1..Len(u) : u[i].seq > n \/ u[i].event \in x \cup Range(s)
    <3> SUFFICES ASSUME NEW i \in 1..Len(u) PROVE u[i].seq > n \/ u[i].event \in x \cup Range(s)
      OBVIOUS
    <3>1. CASE i \in 1..Len(q)
      BY <1>1, <1>2, <3>1 DEF Feed
    <3>2. CASE i = Len(q) + 1 /\ d.seq <= n
      <4>1. l[d.seq] \in Range(s) \/ d.seq < hi
        BY <1>2, <3>2 DEF Past
      <4> QED
        BY <1>1, <1>2, <3>2, <4>1
    <3>3. CASE i = Len(q) + 1 /\ d.seq > n
      BY <1>1, <3>3
    <3> QED
      BY <1>1, <1>2, <3>1, <3>2, <3>3
  <2> QED
    BY <2>1, <2>2, <2>3 DEF Feed
<1>4. Past(l, s, n, high2)
  BY <1>2 DEF Past
<1> QED
  BY <1>3, <1>4

-----------------------------------------------------------------------------
(* Every stream, through every step *)

OnWire == \A j \in Jobs : \A d \in wire[j] : Numbered(log[j], d)

StreamOf(r) ==
    reading[r] # NoJob =>
        /\ Feed(log[reading[r]], seen[r], replayed[r], queue[r], high[r], missed[r])
        /\ Past(log[reading[r]], seen[r], replayed[r], high[r])
        /\ Replaying(log[reading[r]], history[r], replayed[r])
        /\ IF r \in loading
           THEN replayed[r] = 0 /\ seen[r] = <<>> /\ history[r] = <<>>
           ELSE Lossless(log[reading[r]], seen[r], history[r], queue[r], wire[reading[r]],
                         missed[r])

Streams == \A r \in Readers : StreamOf(r)

DeliveryInv == TypeInv /\ OnWire /\ Streams

LEMMA StreamTypes ==
    ASSUME DeliveryInv, NEW r \in Readers
    PROVE  /\ reading[r] \in Jobs \cup {NoJob} /\ history[r] \in Seq(Event) /\ replayed[r] \in Nat
           /\ queue[r] \in Seq(Delivery) /\ seen[r] \in Seq(Event) /\ high[r] \in Nat
           /\ reading[r] # NoJob =>
                log[reading[r]] \in Seq(Event) /\ wire[reading[r]] \subseteq Delivery
           /\ reading \in [Readers -> Jobs \cup {NoJob}]
BY DEF DeliveryInv, TypeInv, TypeOK, ReaderOK

\* A stream of which a step changes nothing, and one that is not there.
LEMMA StreamFrame ==
    ASSUME NEW r \in Readers, StreamOf(r),
           \/ reading'[r] = NoJob
           \/ /\ UNCHANGED <<log, wire>> /\ reading'[r] = reading[r] /\ history'[r] = history[r]
              /\ replayed'[r] = replayed[r] /\ queue'[r] = queue[r] /\ seen'[r] = seen[r]
              /\ high'[r] = high[r] /\ missed'[r] = missed[r]
              /\ (r \in loading' <=> r \in loading)
    PROVE  StreamOf(r)'
BY DEF StreamOf

\* An event is recorded and its publish sent.
LEMMA EmitDelivery ==
    ASSUME DeliveryInv, NEW j \in Jobs, NEW e \in Event, Emit(j, e), UNCHANGED streamVars
    PROVE  OnWire' /\ Streams'
<1> DEFINE k == Append(log[j], e)
           v == wire[j] \cup {[seq |-> Len(k), event |-> e]}
<1>1. /\ log'[j] = k /\ wire'[j] = v /\ log[j] \in Seq(Event)
      /\ k = Append(log[j], e) /\ v = wire[j] \cup {[seq |-> Len(k), event |-> e]}
      /\ \A i \in Jobs \ {j} : log'[i] = log[i] /\ wire'[i] = wire[i]
  BY TypeFacts DEF Emit, SqliteAddEvent, DeliveryInv
<1> HIDE DEF k, v
<1>2. \A d \in v : Numbered(k, d)
  <2>1. /\ \A d : Numbered(log[j], d) => Numbered(k, d)
        /\ Numbered(k, [seq |-> Len(k), event |-> e])
    BY <1>1, NumbersGrow
  <2> QED
    BY <1>1, <2>1 DEF DeliveryInv, OnWire
<1>3. ASSUME NEW r \in Readers, reading[r] = j PROVE StreamOf(r)'
  <2>1. StreamOf(r) /\ reading[r] # NoJob
    BY <1>3 DEF DeliveryInv, Streams
  <2>2. /\ seen[r] \in Seq(Event) /\ history[r] \in Seq(Event) /\ replayed[r] \in Nat
        /\ queue[r] \in Seq(Delivery) /\ high[r] \in Nat
    BY StreamTypes
  <2>3. /\ Feed(k, seen[r], replayed[r], queue[r], high[r], missed[r])
        /\ Past(k, seen[r], replayed[r], high[r]) /\ Replaying(k, history[r], replayed[r])
    BY <1>1, <1>3, <2>1, <2>2, FollowersGrow DEF StreamOf
  <2>4. wire[j] \subseteq v /\ \E d \in v : d.event = e
    <3> DEFINE x == [seq |-> Len(k), event |-> e]
    <3>1. x.event = e /\ v = wire[j] \cup {x}
      BY <1>1
    <3> HIDE DEF x
    <3> QED
      BY <3>1
  <2>5. ASSUME r \notin loading
        PROVE  Lossless(k, seen[r], history[r], queue[r], v, missed[r])
    <3>1. Lossless(log[j], seen[r], history[r], queue[r], wire[j], missed[r])
      BY <1>3, <2>1, <2>5 DEF StreamOf
    <3> QED
      BY <1>1, <2>4, <3>1, LosslessGrows
  <2> QED
    BY <1>1, <1>3, <2>1, <2>3, <2>5 DEF StreamOf, streamVars, readerVars
<1>4. ASSUME NEW r \in Readers, reading[r] # j PROVE StreamOf(r)'
  <2>1. StreamOf(r) /\ reading[r] \in Jobs \cup {NoJob}
    BY StreamTypes DEF DeliveryInv, Streams
  <2> QED
    BY <1>1, <1>4, <2>1 DEF StreamOf, streamVars, readerVars
<1> QED
  BY <1>1, <1>2, <1>3, <1>4 DEF DeliveryInv, OnWire, Streams

LEMMA ArriveDelivery ==
    ASSUME DeliveryInv, NEW j \in Jobs, NEW d \in wire[j], Arrive(j, d)
    PROVE  OnWire' /\ Streams'
<1>1. PICK gone \in SUBSET Attached(j) :
        LET there == Attached(j) \ gone IN
          /\ queue' = [r \in Readers |-> IF r \in there THEN Append(queue[r], d) ELSE queue[r]]
          /\ high' = [r \in Readers |->
                        IF r \in there /\ d.seq > high[r] THEN d.seq ELSE high[r]]
          /\ missed' = [r \in Readers |->
                          IF r \in gone \/ (r \in there /\ d.seq < high[r])
                          THEN missed[r] \cup {d.event} ELSE missed[r]]
  BY DEF Arrive
<1>2. /\ wire \in [Jobs -> SUBSET Delivery] /\ d \in Delivery /\ d.seq \in Nat
      /\ wire' = [wire EXCEPT ![j] = wire[j] \ {d}]
      /\ UNCHANGED <<log, reading, history, replayed, seen, loading>>
      /\ Numbered(log[j], d)
  BY TypeFacts DEF Arrive, storeVars, Delivery, DeliveryInv, OnWire
<1>3. OnWire'
  BY <1>2 DEF DeliveryInv, OnWire
<1>4. ASSUME NEW r \in Readers PROVE StreamOf(r)'
  <2>0. StreamOf(r)
    BY DEF DeliveryInv, Streams
  <2>1. CASE reading[r] # j
    <3>1. /\ queue'[r] = queue[r] /\ high'[r] = high[r] /\ missed'[r] = missed[r]
          /\ reading[r] # NoJob => wire'[reading[r]] = wire[reading[r]]
      BY <1>1, <1>2, <2>1, StreamTypes DEF Attached
    <3> QED
      BY <1>2, <2>0, <3>1 DEF StreamOf
  <2>2. CASE reading[r] = j /\ r \in gone
    <3>1. /\ queue'[r] = queue[r] /\ high'[r] = high[r] /\ missed'[r] = missed[r] \cup {d.event}
          /\ wire'[j] = wire[j] \ {d}
      BY <1>1, <1>2, <2>2
    <3>2. missed[r] \subseteq missed'[r] /\ Events(wire[j] \ wire'[j]) \subseteq missed'[r]
      BY <3>1 DEF Events
    <3>3. Feed(log[j], seen[r], replayed[r], queue[r], high[r], missed'[r])
      BY <2>0, <2>2, <3>2, Loses DEF StreamOf
    <3>4. ASSUME r \notin loading
          PROVE  Lossless(log[j], seen[r], history[r], queue[r], wire'[j], missed'[r])
      BY <2>0, <2>2, <3>2, <3>4, Loses DEF StreamOf
    <3> QED
      BY <1>2, <2>0, <2>2, <3>1, <3>3, <3>4 DEF StreamOf
  <2>3. CASE reading[r] = j /\ r \notin gone
    <3>1. /\ queue'[r] = Append(queue[r], d)
          /\ high'[r] = IF d.seq > high[r] THEN d.seq ELSE high[r]
          /\ missed'[r] = IF d.seq < high[r] THEN missed[r] \cup {d.event} ELSE missed[r]
          /\ wire[j] \subseteq wire'[j] \cup {d} /\ missed[r] \subseteq missed'[r]
      BY <1>1, <1>2, <2>3 DEF Attached
    <3>2. /\ log[j] \in Seq(Event) /\ seen[r] \in Seq(Event) /\ history[r] \in Seq(Event)
          /\ replayed[r] \in Nat /\ queue[r] \in Seq(Delivery) /\ high[r] \in Nat
          /\ high'[r] \in Nat
      BY <1>2, <2>3, <3>1, StreamTypes
    <3>3. /\ Feed(log[j], seen[r], replayed[r], queue[r], high[r], missed[r])
          /\ Past(log[j], seen[r], replayed[r], high[r])
          /\ r \notin loading =>
               Lossless(log[j], seen[r], history[r], queue[r], wire[j], missed[r])
      BY <2>0, <2>3 DEF StreamOf
    <3>4. /\ Numbered(log[j], d) /\ high[r] <= high'[r] /\ d.seq <= high'[r]
          /\ missed[r] \subseteq missed'[r] /\ (d.seq < high[r] => d.event \in missed'[r])
      BY <1>2, <3>1, <3>2
    <3>5. Feed(log[j], seen[r], replayed[r], queue[r], high[r], missed[r])
          /\ Past(log[j], seen[r], replayed[r], high[r])
      BY <3>3
    <3>6. d \in Delivery /\ queue'[r] = Append(queue[r], d)
      BY <1>2, <3>1
    <3>7. /\ Feed(log[j], seen[r], replayed[r], queue'[r], high'[r], missed'[r])
          /\ Past(log[j], seen[r], replayed[r], high'[r])
      BY <3>2, <3>4, <3>5, <3>6, ArrivesFeed
    <3>8. ASSUME r \notin loading
          PROVE  Lossless(log[j], seen[r], history[r], queue'[r], wire'[j], missed'[r])
      <4>1. Lossless(log[j], seen[r], history[r], queue[r], wire[j], missed[r])
        BY <3>3, <3>8
      <4>2. wire[j] \subseteq wire'[j] \cup {d} /\ missed[r] \subseteq missed'[r]
            /\ queue[r] \in Seq(Delivery)
        BY <3>1, <3>2
      <4>3. Range(queue'[r]) = Range(queue[r]) \cup {d}
        BY <3>6, <4>2, AppendFacts
      <4> QED
        BY <4>1, <4>2, <4>3 DEF Lossless, Events
    <3> QED
      BY <1>2, <2>0, <2>3, <3>7, <3>8 DEF StreamOf
  <2> QED
    BY <2>1, <2>2, <2>3
<1> QED
  BY <1>3, <1>4 DEF Streams

\* Publishes are lost on the way: the streams of their job have missed them.
LEMMA WireLossDelivery ==
    ASSUME DeliveryInv, UNCHANGED <<log, readerVars, loading, high>>,
           \A j \in Jobs : wire'[j] \subseteq wire[j],
           \A r \in Readers : /\ missed[r] \subseteq missed'[r]
                              /\ reading[r] # NoJob =>
                                   Events(wire[reading[r]] \ wire'[reading[r]]) \subseteq missed'[r]
    PROVE  OnWire' /\ Streams'
<1>1. OnWire'
  BY DEF DeliveryInv, OnWire
<1>2. ASSUME NEW r \in Readers, reading[r] # NoJob PROVE StreamOf(r)'
  <2>1. /\ StreamOf(r) /\ missed[r] \subseteq missed'[r]
        /\ Events(wire[reading[r]] \ wire'[reading[r]]) \subseteq missed'[r]
    BY <1>2 DEF DeliveryInv, Streams
  <2>2. Feed(log[reading[r]], seen[r], replayed[r], queue[r], high[r], missed'[r])
    BY <1>2, <2>1, Loses DEF StreamOf
  <2>3. ASSUME r \notin loading
        PROVE  Lossless(log[reading[r]], seen[r], history[r], queue[r], wire'[reading[r]], missed'[r])
    BY <1>2, <2>1, <2>3, Loses DEF StreamOf
  <2> QED
    BY <1>2, <2>1, <2>2, <2>3 DEF StreamOf, readerVars
<1>3. ASSUME NEW r \in Readers, reading[r] = NoJob PROVE StreamOf(r)'
  BY <1>3 DEF StreamOf, readerVars
<1> QED
  BY <1>1, <1>2, <1>3 DEF Streams

\* A reader's own steps: those of the others are not its business.
LEMMA OneStream ==
    ASSUME DeliveryInv, NEW r \in Readers, UNCHANGED <<log, wire>>, StreamOf(r)',
           \A o \in Readers \ {r} :
             \/ reading'[o] = NoJob
             \/ /\ reading'[o] = reading[o] /\ history'[o] = history[o] /\ replayed'[o] = replayed[o]
                /\ queue'[o] = queue[o] /\ seen'[o] = seen[o]
                /\ high'[o] = high[o] /\ missed'[o] = missed[o] /\ (o \in loading' <=> o \in loading)
    PROVE  OnWire' /\ Streams'
<1>1. OnWire'
  BY DEF DeliveryInv, OnWire
<1>2. ASSUME NEW o \in Readers \ {r} PROVE StreamOf(o)'
  <2>1. StreamOf(o)
    BY DEF DeliveryInv, Streams
  <2> QED
    BY <2>1, StreamFrame
<1> QED
  BY <1>1, <1>2 DEF Streams

LEMMA SubscribeDelivery ==
    ASSUME DeliveryInv, NEW r \in Readers, NEW j \in Jobs, Subscribe(r, j)
    PROVE  OnWire' /\ Streams'
<1>1. /\ reading'[r] = j /\ history'[r] = <<>> /\ replayed'[r] = 0 /\ queue'[r] = <<>>
      /\ seen'[r] = <<>> /\ r \in loading' /\ UNCHANGED <<log, wire, high, missed>>
      /\ \A o \in Readers \ {r} :
           /\ reading'[o] = reading[o] /\ history'[o] = history[o] /\ replayed'[o] = replayed[o]
           /\ queue'[o] = queue[o] /\ seen'[o] = seen[o] /\ (o \in loading' <=> o \in loading)
  BY DEF Subscribe, Attach, DeliveryInv, TypeInv, TypeOK, ReaderOK, storeVars, emitVars
<1>2. log[j] \in Seq(Event)
  BY TypeFacts DEF DeliveryInv
<1>3. /\ Feed(log[j], <<>>, 0, <<>>, high[r], missed[r]) /\ Past(log[j], <<>>, 0, high[r])
      /\ Replaying(log[j], <<>>, 0)
  BY <1>2, Begins
<1>4. StreamOf(r)'
  BY <1>1, <1>3 DEF StreamOf
<1> QED
  BY <1>1, <1>4, OneStream

LEMMA ReadHistoryDelivery ==
    ASSUME DeliveryInv, NEW r \in Readers, ReadHistory(r)
    PROVE  OnWire' /\ Streams'
<1> DEFINE j == reading[r]
<1>1. /\ r \in loading /\ j # NoJob /\ history'[r] = log[j] /\ r \notin loading'
      /\ UNCHANGED <<log, wire, reading, replayed, queue, seen, high, missed>>
      /\ \A o \in Readers \ {r} : history'[o] = history[o] /\ (o \in loading' <=> o \in loading)
  BY DEF ReadHistory, DeliveryInv, TypeInv, TypeOK, ReaderOK, storeVars, emitVars
<1>2. StreamOf(r) /\ log[j] \in Seq(Event)
  BY <1>1, StreamTypes DEF DeliveryInv, Streams
<1>3. replayed[r] = 0 /\ seen[r] = <<>>
  BY <1>1, <1>2 DEF StreamOf
<1>4. /\ Replaying(log[j], log[j], 0)
      /\ Lossless(log[j], <<>>, log[j], queue[r], wire[j], missed[r])
  BY <1>2, Reads
<1>5. StreamOf(r)'
  BY <1>1, <1>2, <1>3, <1>4 DEF StreamOf
<1> QED
  BY <1>1, <1>5, OneStream

\* What a reader's step leaves of the others.
LEMMA TidyOthers ==
    ASSUME DeliveryInv, NEW r \in Readers, NEW o \in Readers \ {r}, TidyBus,
           reading'[o] = reading[o]
    PROVE  reading'[o] = NoJob \/ (high'[o] = high[o] /\ missed'[o] = missed[o])
BY DEF TidyBus

LEMMA ReplayDelivery ==
    ASSUME DeliveryInv, NEW r \in Readers, Replay(r)
    PROVE  OnWire' /\ Streams'
<1> DEFINE j == reading[r]
           e == Head(history[r])
<1>1. /\ r \notin loading /\ j # NoJob /\ history[r] # <<>> /\ TidyBus
      /\ HandOn(r, e, replayed[r] + 1, Tail(history[r]), queue[r])
      /\ UNCHANGED <<log, wire, loading>>
  BY DEF Replay, ReplayNext, storeVars, emitVars
<1>2. /\ log[j] \in Seq(Event) /\ seen[r] \in Seq(Event) /\ history[r] \in Seq(Event)
      /\ replayed[r] \in Nat /\ queue[r] \in Seq(Delivery) /\ high[r] \in Nat
  BY <1>1, StreamTypes
<1>3. /\ Feed(log[j], seen[r], replayed[r], queue[r], high[r], missed[r])
      /\ Past(log[j], seen[r], replayed[r], high[r])
      /\ Replaying(log[j], history[r], replayed[r])
      /\ Lossless(log[j], seen[r], history[r], queue[r], wire[j], missed[r])
  BY <1>1 DEF DeliveryInv, Streams, StreamOf
<1>4. /\ Feed(log[j], Append(seen[r], e), replayed[r] + 1, queue[r], high[r], missed[r])
      /\ Past(log[j], Append(seen[r], e), replayed[r] + 1, high[r])
      /\ Replaying(log[j], Tail(history[r]), replayed[r] + 1)
      /\ Lossless(log[j], Append(seen[r], e), Tail(history[r]), queue[r], wire[j], missed[r])
  BY <1>1, <1>2, <1>3, Replays
<1>5. \/ reading'[r] = NoJob
      \/ /\ reading'[r] = j /\ seen'[r] = Append(seen[r], e) /\ replayed'[r] = replayed[r] + 1
         /\ history'[r] = Tail(history[r]) /\ queue'[r] = queue[r]
         /\ high'[r] = high[r] /\ missed'[r] = missed[r]
  BY <1>1 DEF HandOn, TidyBus, DeliveryInv, TypeInv, TypeOK, ReaderOK
<1> HIDE DEF e
<1>6. StreamOf(r)'
  BY <1>1, <1>4, <1>5 DEF StreamOf
<1>7. \A o \in Readers \ {r} :
        /\ reading'[o] = reading[o] /\ history'[o] = history[o] /\ replayed'[o] = replayed[o]
        /\ queue'[o] = queue[o] /\ seen'[o] = seen[o] /\ (o \in loading' <=> o \in loading)
  BY <1>1 DEF HandOn, DeliveryInv, TypeInv, TypeOK, ReaderOK
<1> QED
  BY <1>1, <1>6, <1>7, TidyOthers, OneStream

LEMMA ReceiveDelivery ==
    ASSUME DeliveryInv, NEW r \in Readers, Receive(r)
    PROVE  OnWire' /\ Streams'
<1> DEFINE j == reading[r]
           d == Head(queue[r])
           t == Append(seen[r], d.event)
<1>1. /\ r \notin loading /\ j # NoJob /\ history[r] = <<>> /\ queue[r] # <<>> /\ TidyBus
      /\ UNCHANGED <<log, wire, loading>>
  BY DEF Receive, ReceiveNext, storeVars, emitVars
<1>2. /\ log[j] \in Seq(Event) /\ seen[r] \in Seq(Event)
      /\ replayed[r] \in Nat /\ queue[r] \in Seq(Delivery) /\ high[r] \in Nat
  BY <1>1, StreamTypes
<1>3. /\ Feed(log[j], seen[r], replayed[r], queue[r], high[r], missed[r])
      /\ Past(log[j], seen[r], replayed[r], high[r])
      /\ Lossless(log[j], seen[r], <<>>, queue[r], wire[j], missed[r])
      /\ Replaying(log[j], history[r], replayed[r])
  BY <1>1 DEF DeliveryInv, Streams, StreamOf
<1>4. d \in Delivery /\ d.seq \in Nat
  <2>1. d \in Delivery
    BY <1>1, <1>2, HeadTail
  <2> QED
    BY <2>1 DEF Delivery
<1>5. /\ d.seq <= replayed[r] =>
           /\ Feed(log[j], seen[r], replayed[r], Tail(queue[r]), high[r], missed[r])
           /\ Lossless(log[j], seen[r], <<>>, Tail(queue[r]), wire[j], missed[r])
      /\ d.seq > replayed[r] =>
           /\ Feed(log[j], t, d.seq, Tail(queue[r]), high[r], missed[r])
           /\ Past(log[j], t, d.seq, high[r]) /\ Replaying(log[j], <<>>, d.seq)
           /\ Lossless(log[j], t, <<>>, Tail(queue[r]), wire[j], missed[r])
  BY <1>1, <1>2, <1>3, Receives
<1>6. \A o \in Readers \ {r} :
        /\ reading'[o] = reading[o] /\ history'[o] = history[o] /\ replayed'[o] = replayed[o]
        /\ queue'[o] = queue[o] /\ seen'[o] = seen[o] /\ (o \in loading' <=> o \in loading)
  BY <1>1 DEF Receive, ReceiveNext, HandOn, DeliveryInv, TypeInv, TypeOK, ReaderOK
<1>7. CASE d.seq <= replayed[r]
  <2>1. /\ queue'[r] = Tail(queue[r]) /\ UNCHANGED <<reading, history, replayed, seen>>
    BY <1>7 DEF Receive, ReceiveNext, DeliveryInv, TypeInv, TypeOK, ReaderOK
  <2>2. high'[r] = high[r] /\ missed'[r] = missed[r]
    BY <1>1, <2>1 DEF TidyBus
  <2>3. StreamOf(r)'
    BY <1>1, <1>3, <1>5, <1>7, <2>1, <2>2 DEF StreamOf
  <2> QED
    BY <1>1, <1>6, <2>3, TidyOthers, OneStream
<1>8. CASE d.seq > replayed[r]
  <2>1. HandOn(r, d.event, d.seq, <<>>, Tail(queue[r]))
    BY <1>2, <1>4, <1>8 DEF Receive, ReceiveNext
  <2>2. \/ reading'[r] = NoJob
        \/ /\ reading'[r] = j /\ seen'[r] = t /\ replayed'[r] = d.seq
           /\ history'[r] = <<>> /\ queue'[r] = Tail(queue[r])
           /\ high'[r] = high[r] /\ missed'[r] = missed[r]
    BY <1>1, <2>1 DEF HandOn, TidyBus, DeliveryInv, TypeInv, TypeOK, ReaderOK
  <2> HIDE DEF t, d
  <2>3. StreamOf(r)'
    BY <1>1, <1>5, <1>8, <2>2 DEF StreamOf
  <2> QED
    BY <1>1, <1>6, <2>3, TidyOthers, OneStream
<1> QED
  BY <1>2, <1>4, <1>7, <1>8

\* Streams end without a terminal event.
LEMMA DetachDelivery ==
    ASSUME DeliveryInv, NEW R, Detach(R), TidyBus, UNCHANGED <<log, wire>>,
           \A r \in Readers : r \notin R => (r \in loading' <=> r \in loading)
    PROVE  OnWire' /\ Streams'
<1>1. OnWire'
  BY DEF DeliveryInv, OnWire
<1>2. ASSUME NEW r \in Readers PROVE StreamOf(r)'
  <2>1. StreamOf(r)
    BY DEF DeliveryInv, Streams
  <2>2. r \in R => reading'[r] = NoJob
    BY DEF Detach
  <2>3. r \notin R =>
          /\ reading'[r] = reading[r] /\ history'[r] = history[r] /\ replayed'[r] = replayed[r]
          /\ queue'[r] = queue[r] /\ seen'[r] = seen[r]
          /\ (reading'[r] = NoJob \/ (high'[r] = high[r] /\ missed'[r] = missed[r]))
    BY DEF Detach, TidyBus
  <2> QED
    BY <2>1, <2>2, <2>3, StreamFrame
<1> QED
  BY <1>1, <1>2 DEF Streams

LEMMA DeliveryStep ==
    ASSUME DeliveryInv, [Next]_vars
    PROVE  OnWire' /\ Streams'
<1>0. TypeInv
  BY DEF DeliveryInv
<1>1. ASSUME NEW j \in Jobs, NEW e \in Event, Emit(j, e), UNCHANGED streamVars
      PROVE  OnWire' /\ Streams'
  BY <1>1, EmitDelivery
<1>2. ASSUME UNCHANGED <<log, wire, streamVars>> PROVE OnWire' /\ Streams'
  <2>1. OnWire'
    BY <1>2 DEF DeliveryInv, OnWire
  <2>2. ASSUME NEW r \in Readers PROVE StreamOf(r)'
    <3>1. StreamOf(r)
      BY DEF DeliveryInv, Streams
    <3> QED
      BY <1>2, <3>1, StreamFrame DEF streamVars, readerVars
  <2> QED
    BY <2>1, <2>2 DEF Streams
<1>3. ASSUME NEW w \in Workers, NEW j \in Jobs, Begin(w, j) \/ Disown(w, j)
      PROVE  OnWire' /\ Streams'
  <2>1. \E e \in Event : Emit(j, e)
    BY <1>3, EventFacts, StatusFacts DEF Begin, Disown
  <2> QED
    BY <1>1, <1>3, <2>1 DEF Begin, Disown
<1>4. ASSUME NEW j \in Jobs, EmitProgress(j) PROVE OnWire' /\ Streams'
  <2>1. Head(pending[j]) \in 1..MaxProgress
    BY <1>0, <1>4, TypeFacts, HeadTail DEF EmitProgress
  <2>2. \E e \in Event : Emit(j, e)
    BY <1>4, <2>1, EventFacts DEF EmitProgress
  <2> QED
    BY <1>1, <1>4, <2>2 DEF EmitProgress
<1>5. ASSUME NEW j \in Jobs, EmitVerdict(j) PROVE OnWire' /\ Streams'
  <2>1. stored[j] \in Terminal
    BY <1>0, <1>5, TypeFacts DEF EmitVerdict, Stage
  <2>2. \E e \in Event : Emit(j, e)
    BY <1>5, <2>1, EventFacts DEF EmitVerdict
  <2> QED
    BY <1>1, <1>5, <2>2 DEF EmitVerdict
<1>6. ASSUME NEW j \in Jobs,
             \/ Save(j) \/ Enqueue(j) \/ Cancel(j) \/ ThreadStep(j) \/ ResumeTimeout(j)
             \/ Discard(j) \/ Watch(j) \/ StartSolve(j) \/ ResumeWork(j) \/ Drained(j) \/ Return(j)
             \/ \E w \in Workers : Reject(w, j)
      PROVE  OnWire' /\ Streams'
  <2>1. UNCHANGED <<log, wire, streamVars>>
    BY <1>6 DEF Save, Enqueue, Cancel, ThreadStep, Progress, FinishThread, ResumeTimeout, Discard,
                Watch, StartSolve, ResumeWork, Drained, Return, Reject, Conclude, storeVars, emitVars
  <2> QED
    BY <1>2, <2>1
<1>7. ASSUME NEW j \in Jobs, NEW d \in wire[j], Arrive(j, d) PROVE OnWire' /\ Streams'
  BY <1>7, ArriveDelivery
<1>8. ASSUME NEW j \in Jobs, NEW d \in wire[j], PublishFails(j, d) PROVE OnWire' /\ Streams'
  <2>1. /\ UNCHANGED <<log, readerVars, loading, high>>
        /\ wire'[j] = wire[j] \ {d} /\ \A i \in Jobs \ {j} : wire'[i] = wire[i]
        /\ \A r \in Readers :
             missed'[r] = IF reading[r] = j THEN missed[r] \cup {d.event} ELSE missed[r]
    BY <1>0, <1>8, TypeFacts DEF PublishFails, storeVars
  <2>2. ASSUME NEW r \in Readers, reading[r] # NoJob
        PROVE  Events(wire[reading[r]] \ wire'[reading[r]]) \subseteq missed'[r]
    <3>1. reading[r] \in Jobs
      BY <2>2, StreamTypes
    <3> QED
      BY <2>1, <3>1 DEF Events
  <2> QED
    BY <2>1, <2>2, WireLossDelivery
<1>9. ASSUME NEW w \in Workers, WorkerDies(w) PROVE OnWire' /\ Streams'
  <2> DEFINE J == {j \in Jobs : home[j] = w}
  <2>1. /\ UNCHANGED <<log, readerVars, loading, high>>
        /\ \A j \in Jobs : wire'[j] = IF j \in J THEN {} ELSE wire[j]
        /\ \A r \in Readers :
             missed'[r] = IF reading[r] \in J
                          THEN missed[r] \cup {d.event : d \in wire[reading[r]]} ELSE missed[r]
    BY <1>9 DEF WorkerDies, storeVars
  <2> HIDE DEF J
  <2>2. ASSUME NEW r \in Readers, reading[r] # NoJob
        PROVE  Events(wire[reading[r]] \ wire'[reading[r]]) \subseteq missed'[r]
    <3>1. reading[r] \in Jobs
      BY <2>2, StreamTypes
    <3> QED
      BY <2>1, <3>1 DEF Events
  <2> QED
    BY <2>1, <2>2, WireLossDelivery
<1>10. ASSUME NEW r \in Readers, NEW j \in Jobs, Subscribe(r, j) PROVE OnWire' /\ Streams'
  BY <1>10, SubscribeDelivery
<1>11. ASSUME NEW r \in Readers, ReadHistory(r) \/ Replay(r) \/ Receive(r)
       PROVE  OnWire' /\ Streams'
  BY <1>11, ReadHistoryDelivery, ReplayDelivery, ReceiveDelivery
<1>12. ASSUME NEW r \in Readers, Leave(r) PROVE OnWire' /\ Streams'
  <2>1. Detach({r}) /\ TidyBus /\ UNCHANGED <<log, wire>>
    BY <1>12 DEF Leave, storeVars, emitVars
  <2>2. \A o \in Readers : o \notin {r} => (o \in loading' <=> o \in loading)
    BY <1>12 DEF Leave
  <2> QED
    BY <2>1, <2>2, DetachDelivery
<1>13. CASE ApiDies \/ RedisRestarts
  <2>1. Detach(Readers) /\ TidyBus /\ UNCHANGED <<log, wire>>
    BY <1>13 DEF ApiDies, RedisRestarts, storeVars, emitVars
  <2> QED
    BY <2>1, DetachDelivery
<1>14. CASE UNCHANGED vars
  BY <1>2, <1>14 DEF vars, storeVars, emitVars
<1> QED
  BY <1>3, <1>4, <1>5, <1>6, <1>7, <1>8, <1>9, <1>10, <1>11, <1>12, <1>13, <1>14
     DEF Next, WorkerStep

LEMMA DeliveryInductive == Spec => []DeliveryInv
<1>1. Init => OnWire /\ Streams
  BY DEF Init, ReaderInit, OnWire, Streams, StreamOf
<1>2. DeliveryInv /\ [Next]_vars => OnWire' /\ Streams'
  BY DeliveryStep
<1> QED
  BY <1>1, <1>2, TypeInductive, PTL DEF Spec, DeliveryInv

\* What an attached reader has not been handed and will not be is only what the
\* bus lost or let be overtaken, and what it has been handed is in the order of
\* the log, nothing of it twice: attaching before reading the history leaves no
\* gap (jobs.py: subscribe; redis_bus.py).
THEOREM ArqDeliveryIsOrdered == Spec => []DeliveryIsOrdered
<1>1. DeliveryInv => OnlyTheBusLoses
  <2> SUFFICES ASSUME DeliveryInv, NEW r \in Readers, reading[r] # NoJob, r \notin loading
               PROVE  ToSet(log[reading[r]]) \subseteq
                        ToSet(seen[r]) \cup ToSet(history[r]) \cup missed[r]
                          \cup {d.event : d \in ToSet(queue[r]) \cup wire[reading[r]]}
    BY DEF OnlyTheBusLoses
  <2>1. Lossless(log[reading[r]], seen[r], history[r], queue[r], wire[reading[r]], missed[r])
    BY DEF DeliveryInv, Streams, StreamOf
  <2>2. /\ log[reading[r]] \in Seq(Event) /\ seen[r] \in Seq(Event) /\ history[r] \in Seq(Event)
        /\ queue[r] \in Seq(Delivery)
    BY StreamTypes
  <2>3. /\ ToSet(seen[r]) = Range(seen[r]) /\ ToSet(history[r]) = Range(history[r])
        /\ ToSet(queue[r]) = Range(queue[r])
    BY <2>2 DEF ToSet, Range
  <2>4. \A e \in ToSet(log[reading[r]]) :
          \E p \in 1..Len(log[reading[r]]) : e = log[reading[r]][p]
    BY <2>2 DEF ToSet
  <2> QED
    BY <2>1, <2>3, <2>4 DEF Lossless, Events
<1>2. DeliveryInv => SeenInOrder
  <2> SUFFICES ASSUME DeliveryInv, NEW r \in Readers, reading[r] # NoJob
               PROVE  \E place \in [DOMAIN seen[r] -> DOMAIN log[reading[r]]] :
                        /\ \A i \in DOMAIN place : seen[r][i] = log[reading[r]][place[i]]
                        /\ \A i \in DOMAIN place : i > 1 => place[i] > place[i - 1]
    BY DEF SeenInOrder
  <2>1. Placed(log[reading[r]], seen[r], replayed[r])
    BY DEF DeliveryInv, Streams, StreamOf, Past
  <2> QED
    BY <2>1 DEF Placed
<1> QED
  BY <1>1, <1>2, DeliveryInductive, PTL DEF DeliveryIsOrdered

=============================================================================
