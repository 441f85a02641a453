----------------------------- MODULE ArqWorkers -----------------------------
(***************************************************************************)
(* The distributed deployment: the API process saves a job and enqueues it *)
(* (jobs.py, ArqBackend in backends.py), a worker process solves it        *)
(* (worker.py, run_solve in execution.py), and the events come back over   *)
(* Redis pub/sub (redis_bus.py).  The processes share the SQLite store and *)
(* Redis and nothing else.  Each of them can die, a Redis call can fail,   *)
(* and publishes made by concurrent tasks of one worker travel on separate *)
(* connections, so Redis may take them in any order.                       *)
(*                                                                         *)
(* External, modelled from how the code uses it: arq hands a job to one    *)
(* worker, and again if that worker dies before the job function returned, *)
(* at most max_tries times; Redis fans a publish out to whoever is         *)
(* subscribed when it arrives and keeps nothing.                           *)
(***************************************************************************)
EXTENDS EventStream, FiniteSets

CONSTANTS
    Workers,
    NoWorker,
    MaxDeaths,    \* how often a process may die (a bound)
    MaxFaults,    \* how often Redis may fail or lose something (a bound)
    TimeoutOn,    \* FENIXSPOON_JOB_TIMEOUT # 0
    Skew          \* TRUE: API and worker may disagree about solvers and schemas

ASSUME ArqAssumption ==
    /\ ~MirrorAliased            \* two processes cannot share a MemoryJobStore
    /\ NoWorker \notin Workers /\ IsFiniteSet(Readers)
    /\ MaxDeaths \in Nat /\ MaxFaults \in Nat
    /\ TimeoutOn \in BOOLEAN /\ Skew \in BOOLEAN

VARIABLES
    stored,     \* status of the job's row in the store, or NoRow
    error,      \* error of that row
    run,        \* how far the job has come
    home,       \* the worker process it was given to
    tries,      \* arq's job_try
    enqueued,   \* the jobs in arq's queue
    flags,      \* the jobs whose cancel key is set in Redis
    asked,      \* the jobs whose cancel event is set in the worker
    thread,     \* what the solver thread of the job is doing
    steps,      \* progress calls the solver has made
    pending,    \* progress handed to the worker's loop, not stored yet
    gathered,   \* progress run_solve waits for before it announces the verdict
    wire,       \* publishes sent to Redis and not yet answered
    loading,    \* readers that have attached and not read the history yet
    high,       \* the highest number that has reached a reader's queue
    missed,     \* (history variable) events the bus lost or let be overtaken
                \* on the way to the stream a reader has open
    deaths, faults

storeVars  == <<stored, error, log>>
queueVars  == <<run, home, tries, enqueued>>
cancelVars == <<flags, asked>>
threadVars == <<thread, steps>>
emitVars   == <<pending, gathered, wire>>
streamVars == <<readerVars, loading, high, missed>>
boundVars  == <<deaths, faults>>

vars == <<storeVars, queueVars, cancelVars, threadVars, emitVars, streamVars, boundVars>>

MaxTries == 1

\* In the worker's hands; and the ways a job comes to nothing.
Held  == {"announcing", "solving", "draining", "verdict", "closing"}
Stuck == {"unqueued", "rejected", "broken", "lost"}
RunState == {"none", "saved", "enqueued", "ended"} \cup Held \cup Stuck

Finished == {"returned", "raised", "aborted"}
WorkerError == Error \cup {"no solver"}

Idle(w) == \A j \in Jobs : home[j] = w => run[j] \notin Held

Init ==
    /\ stored = [j \in Jobs |-> NoRow]
    /\ error = [j \in Jobs |-> "none"]
    /\ log = [j \in Jobs |-> <<>>]
    /\ run = [j \in Jobs |-> "none"]
    /\ home = [j \in Jobs |-> NoWorker]
    /\ tries = [j \in Jobs |-> 0]
    /\ enqueued = {} /\ flags = {} /\ asked = {}
    /\ thread = [j \in Jobs |-> "none"]
    /\ steps = [j \in Jobs |-> 0]
    /\ pending = [j \in Jobs |-> <<>>]
    /\ gathered = [j \in Jobs |-> {}]
    /\ wire = [j \in Jobs |-> {}]
    /\ ReaderInit
    /\ loading = {}
    /\ high = [r \in Readers |-> 0]
    /\ missed = [r \in Readers |-> {}]
    /\ deaths = 0 /\ faults = 0

-----------------------------------------------------------------------------
(* The API process *)

\* JobManager.submit up to its await: the row, and nothing cached.
Save(j) ==
    /\ stored[j] = NoRow
    /\ stored' = [stored EXCEPT ![j] = "queued"]
    /\ run' = [run EXCEPT ![j] = "saved"]
    /\ UNCHANGED <<error, log, home, tries, enqueued, cancelVars, threadVars,
                   emitVars, streamVars, boundVars>>

\* ArqBackend.start.  Redis may refuse; submit then raises and the row stays.
Enqueue(j) ==
    /\ run[j] = "saved"
    /\ \/ /\ enqueued' = enqueued \cup {j}
          /\ run' = [run EXCEPT ![j] = "enqueued"]
          /\ UNCHANGED faults
       \/ /\ faults < MaxFaults
          /\ faults' = faults + 1
          /\ run' = [run EXCEPT ![j] = "unqueued"]
          /\ UNCHANGED enqueued
    /\ UNCHANGED <<storeVars, home, tries, cancelVars, threadVars, emitVars,
                   streamVars, deaths>>

\* JobManager.cancel and ArqBackend.cancel: the status comes from the store.
Cancel(j) ==
    /\ stored[j] \in Unfinished
    /\ flags' = flags \cup {j}
    /\ UNCHANGED <<storeVars, queueVars, asked, threadVars, emitVars, streamVars, boundVars>>

-----------------------------------------------------------------------------
(* A worker takes a job: solve_job *)

\* EventSink.emit in the worker: store, then hand the publish to a connection.
Emit(j, e) ==
    /\ log' = [log EXCEPT ![j] = SqliteAddEvent(@, e)]
    /\ wire' = [wire EXCEPT ![j] = @ \cup {[seq |-> Len(log'[j]), event |-> e]}]

\* Take without max_tries.
TakeAgain(w, j) ==
    /\ j \in enqueued /\ Idle(w)
    /\ enqueued' = enqueued \ {j}
    /\ tries' = [tries EXCEPT ![j] = 1]
    /\ home' = [home EXCEPT ![j] = w]

\* arq gives an idle worker a job that has a try left.
Take(w, j) ==
    /\ j \in enqueued /\ Idle(w)
    /\ tries[j] < MaxTries
    /\ enqueued' = enqueued \ {j}
    /\ tries' = [tries EXCEPT ![j] = @ + 1]
    /\ home' = [home EXCEPT ![j] = w]

\* The payload validates; run_solve marks the job and announces it.
Begin(w, j) ==
    /\ Take(w, j)
    /\ stored' = [stored EXCEPT ![j] = "running"]
    /\ Emit(j, StatusEvent("running"))
    /\ run' = [run EXCEPT ![j] = "announcing"]
    /\ UNCHANGED <<error, cancelVars, threadVars, pending, gathered, streamVars, boundVars>>

\* This image has no such solver: fail the job with that reason.
Disown(w, j) ==
    /\ Skew
    /\ Take(w, j)
    /\ stored' = [stored EXCEPT ![j] = "failed"]
    /\ error' = [error EXCEPT ![j] = "no solver"]
    /\ Emit(j, StatusEvent("failed"))
    /\ run' = [run EXCEPT ![j] = "closing"]
    /\ UNCHANGED <<cancelVars, threadVars, pending, gathered, streamVars, boundVars>>

\* Geometry, params or load case do not validate: solve_job raises before
\* anything is written, and only arq hears of it.
Reject(w, j) ==
    /\ Skew
    /\ Take(w, j)
    /\ run' = [run EXCEPT ![j] = "rejected"]
    /\ UNCHANGED <<storeVars, cancelVars, threadVars, emitVars, streamVars, boundVars>>

\* arq drops a job that has used up its tries.
Discard(j) ==
    /\ j \in enqueued /\ tries[j] >= MaxTries
    /\ enqueued' = enqueued \ {j}
    /\ UNCHANGED <<storeVars, run, home, tries, cancelVars, threadVars, emitVars,
                   streamVars, boundVars>>

\* _watch_for_cancel finds the key.  It polls until solve_job returns; after the
\* wait has ended, finding it changes nothing.
Watch(j) ==
    /\ run[j] \in {"announcing", "solving"}
    /\ j \in flags \ asked
    /\ asked' = asked \cup {j}
    /\ UNCHANGED <<storeVars, queueVars, flags, threadVars, emitVars, streamVars, boundVars>>

-----------------------------------------------------------------------------
(* The solve *)

\* `running` has been published: hand the solver to a thread.
StartSolve(j) ==
    /\ run[j] = "announcing" /\ wire[j] = {}
    /\ run' = [run EXCEPT ![j] = "solving"]
    /\ thread' = [thread EXCEPT ![j] = "solving"]
    /\ UNCHANGED <<storeVars, home, tries, enqueued, cancelVars, steps, emitVars,
                   streamVars, boundVars>>

Progress(j) ==
    /\ thread[j] = "solving"
    /\ steps[j] < MaxProgress
    /\ steps' = [steps EXCEPT ![j] = @ + 1]
    /\ pending' = [pending EXCEPT ![j] = Append(@, steps[j] + 1)]
    /\ UNCHANGED <<storeVars, queueVars, cancelVars, thread, gathered, wire,
                   streamVars, boundVars>>

FinishThread(j) ==
    /\ thread[j] = "solving"
    /\ \E outcome \in Finished :
         /\ outcome = "aborted" => j \in asked
         /\ thread' = [thread EXCEPT ![j] = outcome]
    /\ UNCHANGED <<storeVars, queueVars, cancelVars, steps, emitVars, streamVars, boundVars>>

\* A progress task of on_progress runs up to its publish.
EmitProgress(j) ==
    /\ run[j] # "verdict"
    /\ pending[j] # <<>>
    /\ Emit(j, ProgressEvent(Head(pending[j])))
    /\ pending' = [pending EXCEPT ![j] = Tail(@)]
    /\ UNCHANGED <<stored, error, queueVars, cancelVars, threadVars, gathered,
                   streamVars, boundVars>>

\* The progress whose task has not finished: not stored, or not answered.
Unsettled(j) ==
    ToSet(pending[j]) \cup {d.event.iteration : d \in {x \in wire[j] : IsProgress(x.event)}}

\* Persist the verdict, then wait for the progress that is under way, if any.
Conclude(j, status, why) ==
    /\ stored' = [stored EXCEPT ![j] = status]
    /\ error' = [error EXCEPT ![j] = why]
    /\ gathered' = [gathered EXCEPT ![j] = Unsettled(j)]
    /\ run' = [run EXCEPT ![j] = IF Unsettled(j) = {} THEN "verdict" ELSE "draining"]

Outcome(j) ==
    CASE thread[j] = "returned" -> "done"
      [] thread[j] = "aborted"  -> "cancelled"
      [] thread[j] = "raised"   -> "failed"

ResumeWork(j) ==
    /\ run[j] = "solving"
    /\ thread[j] \in Finished
    /\ Conclude(j, Outcome(j), IF thread[j] = "raised" THEN "exception" ELSE "none")
    /\ UNCHANGED <<log, home, tries, enqueued, cancelVars, threadVars, pending, wire,
                   streamVars, boundVars>>

\* A timeout that asks the solver to stop and waits for it.
ResumeTimeoutAsking(j) ==
    /\ TimeoutOn
    /\ run[j] = "solving"
    /\ asked' = asked \cup {j}
    /\ UNCHANGED <<storeVars, queueVars, flags, threadVars, emitVars, streamVars, boundVars>>

ResumeTimeout(j) ==
    /\ TimeoutOn
    /\ run[j] = "solving"
    /\ asked' = asked \cup {j}
    /\ Conclude(j, "failed", "timeout")
    /\ UNCHANGED <<log, home, tries, enqueued, flags, threadVars, pending, wire,
                   streamVars, boundVars>>

Drained(j) ==
    /\ run[j] = "draining"
    /\ gathered[j] \cap Unsettled(j) = {}
    /\ run' = [run EXCEPT ![j] = "verdict"]
    /\ UNCHANGED <<storeVars, home, tries, enqueued, cancelVars, threadVars, emitVars,
                   streamVars, boundVars>>

\* EmitVerdict reading the outcome off the error instead of the status.
EmitVerdictFromError(j) ==
    /\ run[j] = "verdict"
    /\ Emit(j, StatusEvent(IF error[j] = "none" THEN "done" ELSE "failed"))
    /\ run' = [run EXCEPT ![j] = "closing"]
    /\ UNCHANGED <<stored, error, home, tries, enqueued, cancelVars, threadVars, pending,
                   gathered, streamVars, boundVars>>

EmitVerdict(j) ==
    /\ run[j] = "verdict"
    /\ Emit(j, StatusEvent(stored[j]))
    /\ run' = [run EXCEPT ![j] = "closing"]
    /\ UNCHANGED <<stored, error, home, tries, enqueued, cancelVars, threadVars, pending,
                   gathered, streamVars, boundVars>>

\* The terminal event has been published: solve_job returns, its watcher stopped.
Return(j) ==
    /\ run[j] = "closing"
    /\ \A d \in wire[j] : ~IsTerminal(d.event)
    /\ run' = [run EXCEPT ![j] = "ended"]
    /\ asked' = asked \cup {j}
    /\ UNCHANGED <<storeVars, home, tries, enqueued, flags, threadVars, emitVars,
                   streamVars, boundVars>>

-----------------------------------------------------------------------------
(* The bus *)

\* Attached only once the history has been replayed: replay, then listen.
AttachedLate(j) ==
    {r \in Readers : reading[r] = j /\ r \notin loading /\ history[r] = <<>>}

Attached(j) == {r \in Readers : reading[r] = j}

\* A publish reaches Redis and is fanned out; a subscriber's connection may lose
\* it.  Its sender is answered.
Arrive(j, d) ==
    /\ d \in wire[j]
    /\ wire' = [wire EXCEPT ![j] = @ \ {d}]
    /\ \E gone \in SUBSET Attached(j) :
         /\ faults' = faults + Cardinality(gone) /\ faults' <= MaxFaults
         /\ LET there == Attached(j) \ gone IN
              /\ queue' = [r \in Readers |-> IF r \in there THEN Append(queue[r], d) ELSE queue[r]]
              /\ high' = [r \in Readers |->
                            IF r \in there /\ d.seq > high[r] THEN d.seq ELSE high[r]]
              /\ missed' = [r \in Readers |->
                              IF r \in gone \/ (r \in there /\ d.seq < high[r])
                              THEN missed[r] \cup {d.event} ELSE missed[r]]
    /\ UNCHANGED <<storeVars, queueVars, cancelVars, threadVars, pending, gathered,
                   reading, history, replayed, seen, loading, deaths>>

\* A publish raises in the worker.  For a progress task nobody looks; for
\* `running` and for the verdict it ends solve_job.
PublishFails(j, d) ==
    /\ d \in wire[j]
    /\ faults < MaxFaults /\ faults' = faults + 1
    /\ wire' = [wire EXCEPT ![j] = @ \ {d}]
    /\ LET raised == IsStatus(d.event) IN
         /\ run' = [run EXCEPT ![j] = CASE ~raised -> @
                                        [] raised /\ IsTerminal(d.event) -> "ended"
                                        [] OTHER -> "broken"]
         /\ asked' = IF raised THEN asked \cup {j} ELSE asked
    /\ missed' = [r \in Readers |-> IF reading[r] = j THEN missed[r] \cup {d.event} ELSE missed[r]]
    /\ UNCHANGED <<storeVars, home, tries, enqueued, flags, threadVars, pending, gathered,
                   readerVars, loading, high, deaths>>

-----------------------------------------------------------------------------
(* A reader's stream *)

\* A stream that has ended leaves nothing behind on the bus.
TidyBus ==
    /\ high' = [r \in Readers |-> IF reading'[r] = NoJob THEN 0 ELSE high[r]]
    /\ missed' = [r \in Readers |-> IF reading'[r] = NoJob THEN {} ELSE missed[r]]

\* RedisSubscription.__aenter__, which subscribe awaits ...
Subscribe(r, j) ==
    /\ stored[j] # NoRow
    /\ Attach(r, j, <<>>)
    /\ loading' = loading \cup {r}
    /\ UNCHANGED <<storeVars, queueVars, cancelVars, threadVars, emitVars, high, missed, boundVars>>

\* ... then the stored history.
ReadHistory(r) ==
    /\ r \in loading
    /\ history' = [history EXCEPT ![r] = log[reading[r]]]
    /\ loading' = loading \ {r}
    /\ UNCHANGED <<storeVars, queueVars, cancelVars, threadVars, emitVars, reading,
                   replayed, queue, seen, high, missed, boundVars>>

Replay(r) ==
    /\ r \notin loading
    /\ ReplayNext(r) /\ TidyBus
    /\ UNCHANGED <<storeVars, queueVars, cancelVars, threadVars, emitVars, loading, boundVars>>

Receive(r) ==
    /\ r \notin loading
    /\ ReceiveNext(r) /\ TidyBus
    /\ UNCHANGED <<storeVars, queueVars, cancelVars, threadVars, emitVars, loading, boundVars>>

Leave(r) ==
    /\ reading[r] # NoJob
    /\ Detach({r}) /\ TidyBus
    /\ loading' = loading \ {r}
    /\ UNCHANGED <<storeVars, queueVars, cancelVars, threadVars, emitVars, boundVars>>

-----------------------------------------------------------------------------
(* Deaths *)

\* A worker is killed, or shut down in mid-solve.  arq finds the job it held
\* unfinished and puts it up again.
WorkerDies(w) ==
    /\ deaths < MaxDeaths /\ deaths' = deaths + 1
    /\ LET J == {j \in Jobs : home[j] = w}
           dropped == {j \in J : run[j] \in Held}
       IN /\ J # {}
          /\ run' = [j \in Jobs |-> IF j \in dropped THEN "lost" ELSE run[j]]
          /\ enqueued' = enqueued \cup dropped
          /\ asked' = asked \ J
          /\ thread' = [j \in Jobs |-> IF j \in J THEN "none" ELSE thread[j]]
          /\ pending' = [j \in Jobs |-> IF j \in J THEN <<>> ELSE pending[j]]
          /\ wire' = [j \in Jobs |-> IF j \in J THEN {} ELSE wire[j]]
          /\ missed' = [r \in Readers |->
                          IF reading[r] \in J
                          THEN missed[r] \cup {d.event : d \in wire[reading[r]]} ELSE missed[r]]
    /\ UNCHANGED <<storeVars, home, tries, flags, steps, gathered, readerVars, loading,
                   high, faults>>

\* The API process dies and comes back; it reconciles nothing in this mode.
ApiDies ==
    /\ deaths < MaxDeaths /\ deaths' = deaths + 1
    /\ run' = [j \in Jobs |-> IF run[j] = "saved" THEN "unqueued" ELSE run[j]]
    /\ Detach(Readers) /\ TidyBus
    /\ loading' = {}
    /\ UNCHANGED <<storeVars, home, tries, enqueued, cancelVars, threadVars, emitVars, faults>>

\* Redis restarts empty; the streams that were subscribed break.
RedisRestarts ==
    /\ faults < MaxFaults /\ faults' = faults + 1
    /\ run' = [j \in Jobs |-> IF run[j] = "enqueued" THEN "unqueued" ELSE run[j]]
    /\ enqueued' = {} /\ flags' = {}
    /\ Detach(Readers) /\ TidyBus
    /\ loading' = {}
    /\ UNCHANGED <<storeVars, home, tries, asked, threadVars, emitVars, deaths>>

-----------------------------------------------------------------------------
WorkerStep(j) ==
    \/ \E w \in Workers : Begin(w, j) \/ Disown(w, j) \/ Reject(w, j)
    \/ Discard(j) \/ Watch(j) \/ StartSolve(j) \/ EmitProgress(j) \/ ResumeWork(j)
    \/ Drained(j) \/ EmitVerdict(j) \/ Return(j)
    \/ \E d \in wire[j] : Arrive(j, d)

ThreadStep(j) == Progress(j) \/ FinishThread(j)

Next ==
    \/ \E j \in Jobs :
         \/ Save(j) \/ Enqueue(j) \/ Cancel(j)
         \/ WorkerStep(j) \/ ThreadStep(j) \/ ResumeTimeout(j)
         \/ \E d \in wire[j] : PublishFails(j, d)
    \/ \E r \in Readers :
         \/ ReadHistory(r) \/ Replay(r) \/ Receive(r) \/ Leave(r)
         \/ \E j \in Jobs : Subscribe(r, j)
    \/ \E w \in Workers : WorkerDies(w)
    \/ ApiDies \/ RedisRestarts

Spec == Init /\ [][Next]_vars

\* Processes that are up keep running what is ready, and a timer fires.  Nothing
\* is assumed of solvers or clients.
Fairness ==
    \A j \in Jobs : WF_vars(Enqueue(j)) /\ WF_vars(WorkerStep(j)) /\ WF_vars(ResumeTimeout(j))

FairSpec == Spec /\ Fairness

-----------------------------------------------------------------------------
(* Properties *)

TypeOK ==
    /\ stored \in [Jobs -> Status \cup {NoRow}]
    /\ error \in [Jobs -> WorkerError]
    /\ log \in [Jobs -> Seq(Event)]
    /\ run \in [Jobs -> RunState]
    /\ home \in [Jobs -> Workers \cup {NoWorker}]
    /\ tries \in [Jobs -> 0..MaxTries]
    /\ enqueued \subseteq Jobs /\ flags \subseteq Jobs /\ asked \subseteq Jobs
    /\ thread \in [Jobs -> {"none", "solving"} \cup Finished]
    /\ steps \in [Jobs -> 0..MaxProgress]
    /\ pending \in [Jobs -> Seq(1..MaxProgress)]
    /\ gathered \in [Jobs -> SUBSET (1..MaxProgress)]
    /\ wire \in [Jobs -> SUBSET Delivery]
    /\ ReaderOK
    /\ loading \subseteq {r \in Readers : reading[r] # NoJob}
    /\ high \in [Readers -> Nat]
    /\ missed \in [Readers -> SUBSET Event]
    /\ deaths \in 0..MaxDeaths /\ faults \in 0..MaxFaults

\* A verdict, once stored, is never rewritten: a job handed out again after its
\* worker died does not come back to life (worker.py: max_tries).
VerdictIsFinal ==
    [][\A j \in Jobs : stored[j] \in Terminal =>
         stored'[j] = stored[j] /\ error'[j] = error[j]]_vars

\* The log announces at most one verdict, and it is the one in the record.
VerdictAgrees ==
    \A j \in Jobs : \A i \in VerdictsIn(log[j]) :
        /\ log[j][i].status = stored[j]
        /\ VerdictsIn(log[j]) = {i}

\* Unless the timer decided the job, everything its solver reported is in the
\* log ahead of the verdict, and no publish of it is still under way.
ProgressBeforeVerdict ==
    \A j \in Jobs : error[j] \in {"none", "exception"} =>
        \A i \in VerdictsIn(log[j]) :
            /\ ProgressUpTo(log[j], i) = 1..steps[j]
            /\ \A d \in wire[j] : IsTerminal(d.event)

\* One verdict, the stored one, announced after everything that led to it.
VerdictIsEarned == VerdictAgrees /\ ProgressBeforeVerdict

\* Attaching before reading the history leaves no gap between the two, across
\* processes too: what an attached reader has not been handed and will not be is
\* only what the bus itself lost or let be overtaken.
OnlyTheBusLoses ==
    \A r \in Readers : reading[r] # NoJob /\ r \notin loading =>
        LET j == reading[r] IN
          ToSet(log[j]) \subseteq
            ToSet(seen[r]) \cup ToSet(history[r]) \cup missed[r]
              \cup {d.event : d \in ToSet(queue[r]) \cup wire[j]}

\* Whatever the bus does, a reader sees events in the order of the log and none
\* of them twice.
SeenInOrder ==
    \A r \in Readers : reading[r] # NoJob /\ seen[r] # <<>> =>
        \E place \in [DOMAIN seen[r] -> DOMAIN log[reading[r]]] :
            /\ \A i \in DOMAIN place : seen[r][i] = log[reading[r]][place[i]]
            /\ \A i \in DOMAIN place : i > 1 => place[i] > place[i - 1]

\* What a reader is handed is the log but for what the bus lost, in order.
DeliveryIsOrdered == OnlyTheBusLoses /\ SeenInOrder

\* Every accepted job reaches a verdict unless it came to nothing in one of the
\* ways Stuck names: never enqueued, refused by a worker's validation, broken by
\* a publish that failed, or lost with its worker.
EveryJobEnds ==
    \A j \in Jobs : stored[j] = "queued" ~> (stored[j] \in Terminal \/ run[j] \in Stuck)
=============================================================================
