------------------------------- MODULE JobRun -------------------------------
(***************************************************************************)
(* A job from submission to verdict inside one API process: JobManager     *)
(* (jobs.py), InProcessBackend (backends.py), run_solve and EventSink      *)
(* (execution.py), the in-process event bus (events.py), the solver's      *)
(* thread, and the WebSocket readers of the job's event stream (api.py).   *)
(*                                                                         *)
(* Three kinds of actor interleave.  The event loop runs one coroutine     *)
(* segment at a time; a segment between two awaits is one action, except   *)
(* the last one of run_solve, which writes the store twice and is split    *)
(* there because solver threads, the threadpool's status reads and a crash *)
(* can fall between the two writes (LoopFree keeps other coroutines out).  *)
(* Solver threads run beside the loop and hand it their progress through   *)
(* call_soon_threadsafe.  The process can die at any step; what the store  *)
(* holds survives and the next process reconciles it before it serves.     *)
(***************************************************************************)
EXTENDS EventStream, FiniteSets

CONSTANTS
    MaxWorkers,    \* threads of the solver pool
    MaxRestarts,   \* how often the process may die (a bound)
    TimeoutOn,     \* FENIXSPOON_JOB_TIMEOUT # 0
    Unstorable     \* TRUE: a solver may return data json.dumps refuses

ASSUME RunAssumption ==
    /\ MaxWorkers \in Nat \ {0}
    /\ MaxRestarts \in Nat
    /\ TimeoutOn \in BOOLEAN
    /\ Unstorable \in BOOLEAN

VARIABLES
    stored,    \* status of the job's row in the store, or NoRow
    error,     \* error of that row
    live,      \* JobManager._jobs: the jobs held in memory, all of them `queued`
    cancels,   \* InProcessBackend._cancels: the jobs with a cancel event
    asked,     \* the jobs whose cancel event is set
    run,       \* where run_solve's coroutine is
    left,      \* emits its gather still waits for
    thread,    \* what the solver thread of the job is doing
    pool,      \* the executor's queue
    steps,     \* progress calls the solver has made
    posted,    \* progress handed to the loop, callback not run yet
    pending,   \* emit tasks created, not run yet
    server,    \* "starting" while the lifespan reconciles, then "up"
    fixing,    \* the job reconcile has failed but not yet logged, or NoJob
    restarts

storeVars  == <<stored, error, log>>
memoryVars == <<live, cancels, asked>>
runVars    == <<run, left>>
threadVars == <<thread, pool, steps>>
loopVars   == <<posted, pending>>
serverVars == <<server, fixing, restarts>>

vars == <<storeVars, memoryVars, runVars, threadVars, loopVars, readerVars,
          serverVars>>

RunState == {"none", "created", "awaiting", "draining", "closing", "retiring",
             "ended", "broken", "lost"}
ThreadState == {"none", "waiting", "solving", "returned", "returned bad",
                "raised", "aborted", "dropped"}
Finished == {"returned", "returned bad", "raised", "aborted"}

\* run_solve holds the loop from its last await to the end of drive().
LoopFree == \A j \in Jobs : run[j] \notin {"closing", "retiring"}

Serving == server = "up" /\ LoopFree

Busy == {j \in Jobs : thread[j] = "solving"}

Init ==
    /\ stored = [j \in Jobs |-> NoRow]
    /\ error = [j \in Jobs |-> "none"]
    /\ log = [j \in Jobs |-> <<>>]
    /\ live = {} /\ cancels = {} /\ asked = {}
    /\ run = [j \in Jobs |-> "none"]
    /\ left = [j \in Jobs |-> 0]
    /\ thread = [j \in Jobs |-> "none"]
    /\ pool = <<>>
    /\ steps = [j \in Jobs |-> 0]
    /\ posted = [j \in Jobs |-> <<>>]
    /\ pending = [j \in Jobs |-> <<>>]
    /\ ReaderInit
    /\ server = "up" /\ fixing = NoJob /\ restarts = 0

-----------------------------------------------------------------------------
(* Recording and publishing *)

\* Emit with a number taken before the store assigned one.
EmitNumberedEarly(j, e) ==
    /\ log' = [log EXCEPT ![j] = AddEvent(@, e)]
    /\ Publish(j, Len(log[j]), e)

\* EventSink.emit: mirror, store, then publish with the store's number.  The
\* in-process bus never suspends, so the three are one step of the loop.
Emit(j, e) ==
    /\ log' = [log EXCEPT ![j] = AddEvent(@, e)]
    /\ Publish(j, Len(log'[j]), e)

-----------------------------------------------------------------------------
(* The manager and the backend *)

\* InProcessBackend.start: make the cancel event, create the task.
Start(j) ==
    /\ cancels' = cancels \cup {j}
    /\ run' = [run EXCEPT ![j] = "created"]

\* JobManager.submit: persist, cache, start.  Nothing in it suspends.
Submit(j) ==
    /\ Serving
    /\ stored[j] = NoRow
    /\ stored' = [stored EXCEPT ![j] = "queued"]
    /\ live' = live \cup {j}
    /\ Start(j)
    /\ UNCHANGED <<error, log, asked, left, threadVars, loopVars, readerVars, serverVars>>

\* JobManager.get, as a status poll reads it from the threadpool.
Reported(j) == IF j \in live THEN "queued" ELSE stored[j]

\* JobManager.cancel: refused on a terminal status; otherwise set the event if
\* the backend still holds one.
Cancel(j) ==
    /\ Serving
    /\ stored[j] # NoRow
    /\ Reported(j) \notin Terminal
    /\ asked' = IF j \in cancels THEN asked \cup {j} ELSE asked
    /\ UNCHANGED <<storeVars, live, cancels, runVars, threadVars, loopVars,
                   readerVars, serverVars>>

-----------------------------------------------------------------------------
(* run_solve, up to its wait *)

\* Mark it running, record and announce that, hand the solver to the pool.
BeginRun(j) ==
    /\ Serving
    /\ run[j] = "created"
    /\ stored' = [stored EXCEPT ![j] = "running"]
    /\ Emit(j, StatusEvent("running"))
    /\ run' = [run EXCEPT ![j] = "awaiting"]
    /\ thread' = [thread EXCEPT ![j] = "waiting"]
    /\ pool' = Append(pool, j)
    /\ UNCHANGED <<error, memoryVars, left, steps, loopVars, reading, history,
                   replayed, seen, serverVars>>

-----------------------------------------------------------------------------
(* The solver's thread *)

\* An idle worker takes the oldest entry; one whose future was cancelled while
\* it waited is thrown away.
StartThread(j) ==
    /\ pool # <<>> /\ Head(pool) = j
    /\ Cardinality(Busy) < MaxWorkers
    /\ thread' = [thread EXCEPT ![j] = IF @ = "waiting" THEN "solving" ELSE @]
    /\ pool' = Tail(pool)
    /\ UNCHANGED <<storeVars, memoryVars, runVars, steps, loopVars, readerVars, serverVars>>

\* SolverContext.progress: post a callback to the loop.
Progress(j) ==
    /\ thread[j] = "solving"
    /\ steps[j] < MaxProgress
    /\ steps' = [steps EXCEPT ![j] = @ + 1]
    /\ posted' = [posted EXCEPT ![j] = Append(@, steps[j] + 1)]
    /\ UNCHANGED <<storeVars, memoryVars, runVars, thread, pool, pending,
                   readerVars, serverVars>>

\* The solver returns, raises, or notices the cancel event at a check point.
\* It may also never look, or never end.
FinishThread(j) ==
    /\ thread[j] = "solving"
    /\ \E outcome \in Finished :
         /\ outcome = "aborted" => j \in asked
         /\ outcome = "returned bad" => Unstorable
         /\ thread' = [thread EXCEPT ![j] = outcome]
    /\ UNCHANGED <<storeVars, memoryVars, runVars, pool, steps, loopVars,
                   readerVars, serverVars>>

-----------------------------------------------------------------------------
(* Progress on the loop *)

\* on_progress's schedule(): create the emit task and hold it in `pending`.
Schedule(j) ==
    /\ LoopFree
    /\ posted[j] # <<>>
    /\ pending' = [pending EXCEPT ![j] = Append(@, Head(posted[j]))]
    /\ posted' = [posted EXCEPT ![j] = Tail(@)]
    /\ UNCHANGED <<storeVars, memoryVars, runVars, threadVars, readerVars, serverVars>>

\* The emit task runs; the gather counts it if it waits for it.
RunEmit(j) ==
    /\ LoopFree
    /\ pending[j] # <<>>
    /\ Emit(j, ProgressEvent(Head(pending[j])))
    /\ pending' = [pending EXCEPT ![j] = Tail(@)]
    /\ left' = [left EXCEPT ![j] = IF @ > 0 THEN @ - 1 ELSE 0]
    /\ UNCHANGED <<stored, error, memoryVars, run, threadVars, posted, reading,
                   history, replayed, seen, serverVars>>

-----------------------------------------------------------------------------
(* run_solve, from its wait to the verdict *)

\* Conclude without the gather.
ConcludeUngathered(j, status, why) ==
    /\ stored' = [stored EXCEPT ![j] = status]
    /\ error' = [error EXCEPT ![j] = why]
    /\ left' = [left EXCEPT ![j] = 0]
    /\ run' = [run EXCEPT ![j] = "closing"]

\* Persist the verdict, then either wait for the emits in flight or go on.
Conclude(j, status, why) ==
    /\ stored' = [stored EXCEPT ![j] = status]
    /\ error' = [error EXCEPT ![j] = why]
    /\ left' = [left EXCEPT ![j] = Len(pending[j])]
    /\ run' = [run EXCEPT ![j] = IF pending[j] = <<>> THEN "closing" ELSE "draining"]

VerdictOf(outcome) ==
    CASE outcome = "returned" -> "done"
      [] outcome = "aborted"  -> "cancelled"
      [] outcome = "raised"   -> "failed"

\* The wait ends with the solver's outcome.  The future's completion was posted
\* to the loop behind every progress callback of the thread, so those have run;
\* their emit tasks may not have.
ResumeWork(j) ==
    /\ Serving
    /\ run[j] = "awaiting"
    /\ thread[j] \in Finished \ {"returned bad"}
    /\ posted[j] = <<>>
    /\ Conclude(j, VerdictOf(thread[j]), IF thread[j] = "raised" THEN "exception" ELSE "none")
    /\ UNCHANGED <<log, memoryVars, threadVars, loopVars, readerVars, serverVars>>

\* The result cannot be written: the put after the try block raises, and
\* drive()'s finally is all that runs.
ResumeBroken(j) ==
    /\ Serving
    /\ run[j] = "awaiting"
    /\ thread[j] = "returned bad"
    /\ posted[j] = <<>>
    /\ run' = [run EXCEPT ![j] = "broken"]
    /\ cancels' = cancels \ {j}
    /\ UNCHANGED <<storeVars, live, asked, left, threadVars, loopVars, readerVars, serverVars>>

\* The timer fires first: the thread is asked to stop, not stopped; the future
\* of a solve still waiting for a worker is cancelled.  The timer also wins over an
\* outcome the loop has not taken up yet.
ResumeTimeout(j) ==
    /\ Serving /\ TimeoutOn
    /\ run[j] = "awaiting"
    /\ asked' = asked \cup {j}
    /\ thread' = [thread EXCEPT ![j] = IF @ = "waiting" THEN "dropped" ELSE @]
    /\ Conclude(j, "failed", "timeout")
    /\ UNCHANGED <<log, live, cancels, pool, steps, loopVars, readerVars, serverVars>>

\* The gather has seen every emit it waited for.
Drained(j) ==
    /\ Serving
    /\ run[j] = "draining" /\ left[j] = 0
    /\ run' = [run EXCEPT ![j] = "closing"]
    /\ UNCHANGED <<storeVars, memoryVars, left, threadVars, loopVars, readerVars, serverVars>>

\* EmitVerdict reading the outcome off the error instead of the status.
EmitVerdictFromError(j) ==
    /\ run[j] = "closing"
    /\ Emit(j, StatusEvent(IF error[j] = "none" THEN "done" ELSE "failed"))
    /\ run' = [run EXCEPT ![j] = "retiring"]
    /\ UNCHANGED <<stored, error, memoryVars, left, threadVars, loopVars, reading,
                   history, replayed, seen, serverVars>>

\* The terminal event, recorded and published.
EmitVerdict(j) ==
    /\ run[j] = "closing"
    /\ Emit(j, StatusEvent(stored[j]))
    /\ run' = [run EXCEPT ![j] = "retiring"]
    /\ UNCHANGED <<stored, error, memoryVars, left, threadVars, loopVars, reading,
                   history, replayed, seen, serverVars>>

\* Retire without the finally.
RetireKeepingCancel(j) ==
    /\ run[j] = "retiring"
    /\ live' = live \ {j}
    /\ run' = [run EXCEPT ![j] = "ended"]
    /\ UNCHANGED <<storeVars, cancels, asked, left, threadVars, loopVars, readerVars, serverVars>>

\* on_finish and drive()'s finally: absorb, drop the live entry and the event.
Retire(j) ==
    /\ run[j] = "retiring"
    /\ live' = live \ {j}
    /\ cancels' = cancels \ {j}
    /\ run' = [run EXCEPT ![j] = "ended"]
    /\ UNCHANGED <<storeVars, asked, left, threadVars, loopVars, readerVars, serverVars>>

-----------------------------------------------------------------------------
(* A reader's stream: job_events and JobManager.subscribe *)

\* Attach to the bus and read the history; the in-process bus does not suspend
\* in between.
OpenStream(r, j) ==
    /\ Serving
    /\ stored[j] # NoRow
    /\ Attach(r, j, log[j])
    /\ UNCHANGED <<storeVars, memoryVars, runVars, threadVars, loopVars, serverVars>>

Replay(r) ==
    /\ LoopFree
    /\ ReplayNext(r)
    /\ UNCHANGED <<storeVars, memoryVars, runVars, threadVars, loopVars, serverVars>>

Receive(r) ==
    /\ LoopFree
    /\ ReceiveNext(r)
    /\ UNCHANGED <<storeVars, memoryVars, runVars, threadVars, loopVars, serverVars>>

\* The client goes away.
Leave(r) ==
    /\ LoopFree
    /\ reading[r] # NoJob
    /\ Detach({r})
    /\ UNCHANGED <<storeVars, memoryVars, runVars, threadVars, loopVars, serverVars>>

-----------------------------------------------------------------------------
(* Death and restart of the process *)

\* Everything in memory goes: coroutines, threads, queues, sockets.
Crash ==
    /\ restarts < MaxRestarts
    /\ restarts' = restarts + 1
    /\ server' = "starting" /\ fixing' = NoJob
    /\ live' = {} /\ cancels' = {} /\ asked' = {}
    /\ run' = [j \in Jobs |-> IF run[j] \in {"none", "ended"} THEN run[j] ELSE "lost"]
    /\ left' = [j \in Jobs |-> 0]
    /\ thread' = [j \in Jobs |-> "none"]
    /\ pool' = <<>>
    /\ posted' = [j \in Jobs |-> <<>>]
    /\ pending' = [j \in Jobs |-> <<>>]
    /\ Detach(Readers)
    /\ UNCHANGED <<storeVars, steps>>

\* Reconcile over every row ...
ReconcileAnyRow(j) ==
    /\ server = "starting" /\ fixing = NoJob
    /\ stored[j] # NoRow
    /\ j \notin cancels
    /\ stored' = [stored EXCEPT ![j] = "failed"]
    /\ error' = [error EXCEPT ![j] = "restart"]
    /\ fixing' = j
    /\ UNCHANGED <<log, memoryVars, runVars, threadVars, loopVars, readerVars, server, restarts>>

\* ... or over those that were already running.
ReconcileRunningOnly(j) ==
    /\ server = "starting" /\ fixing = NoJob
    /\ stored[j] = "running"
    /\ j \notin cancels
    /\ stored' = [stored EXCEPT ![j] = "failed"]
    /\ error' = [error EXCEPT ![j] = "restart"]
    /\ fixing' = j
    /\ UNCHANGED <<log, memoryVars, runVars, threadVars, loopVars, readerVars, server, restarts>>

\* JobManager.reconcile, one unfinished job at a time: the row first ...
Reconcile(j) ==
    /\ server = "starting" /\ fixing = NoJob
    /\ stored[j] \in Unfinished
    /\ j \notin cancels
    /\ stored' = [stored EXCEPT ![j] = "failed"]
    /\ error' = [error EXCEPT ![j] = "restart"]
    /\ fixing' = j
    /\ UNCHANGED <<log, memoryVars, runVars, threadVars, loopVars, readerVars, server, restarts>>

\* ... then its event, which nobody is attached to hear.
ReconcileEvent(j) ==
    /\ server = "starting" /\ fixing = j
    /\ log' = [log EXCEPT ![j] = Append(@, StatusEvent("failed"))]
    /\ fixing' = NoJob
    /\ UNCHANGED <<stored, error, memoryVars, runVars, threadVars, loopVars, readerVars,
                   server, restarts>>

\* The lifespan yields and requests are served.
Serve ==
    /\ server = "starting" /\ fixing = NoJob
    /\ \A j \in Jobs : stored[j] \in Unfinished => j \in cancels
    /\ server' = "up"
    /\ UNCHANGED <<storeVars, memoryVars, runVars, threadVars, loopVars, readerVars,
                   fixing, restarts>>

-----------------------------------------------------------------------------
ThreadStep(j) == StartThread(j) \/ Progress(j) \/ FinishThread(j)

LoopStep(j) ==
    \/ BeginRun(j) \/ Schedule(j) \/ RunEmit(j)
    \/ ResumeWork(j) \/ ResumeBroken(j)
    \/ Drained(j) \/ EmitVerdict(j) \/ Retire(j)

StreamStep(r) == Replay(r) \/ Receive(r)

StartupStep == Serve \/ \E j \in Jobs : Reconcile(j) \/ ReconcileEvent(j)

Next ==
    \/ \E j \in Jobs : Submit(j) \/ Cancel(j) \/ ThreadStep(j) \/ LoopStep(j) \/ ResumeTimeout(j)
    \/ \E r \in Readers : StreamStep(r) \/ Leave(r) \/ \E j \in Jobs : OpenStream(r, j)
    \/ Crash \/ StartupStep

Spec == Init /\ [][Next]_vars

\* The loop keeps running coroutines that are ready, a timer fires, a process
\* that died is started again.  Nothing is assumed of solvers, clients or the
\* pool: the timeout exists because a solver may never end.
Fairness ==
    /\ \A j \in Jobs : WF_vars(LoopStep(j)) /\ WF_vars(ResumeTimeout(j))
    /\ \A r \in Readers : WF_vars(StreamStep(r))
    /\ WF_vars(StartupStep)

FairSpec == Spec /\ Fairness

-----------------------------------------------------------------------------
(* Properties *)

StoreOK ==
    /\ stored \in [Jobs -> Status \cup {NoRow}]
    /\ error \in [Jobs -> Error]
    /\ log \in [Jobs -> Seq(Event)]

MemoryOK == live \subseteq Jobs /\ cancels \subseteq Jobs /\ asked \subseteq Jobs

RunOK == run \in [Jobs -> RunState] /\ left \in [Jobs -> Nat]

ThreadOK ==
    /\ thread \in [Jobs -> ThreadState]
    /\ pool \in Seq(Jobs)
    /\ steps \in [Jobs -> 0..MaxProgress]

LoopOK ==
    /\ posted \in [Jobs -> Seq(1..MaxProgress)]
    /\ pending \in [Jobs -> Seq(1..MaxProgress)]

ServerOK ==
    /\ server \in {"up", "starting"}
    /\ fixing \in Jobs \cup {NoJob}
    /\ restarts \in 0..MaxRestarts

TypeOK ==
    /\ StoreOK /\ MemoryOK /\ RunOK /\ ThreadOK /\ LoopOK /\ ReaderOK /\ ServerOK

\* An attached reader is never missing an event and never holds one twice,
\* whatever is recorded while it replays (JobManager.subscribe).
DeliveryExact ==
    \A r \in Readers : reading[r] # NoJob =>
        Covers(log[reading[r]], seen[r], history[r], replayed[r], queue[r])

\* The stream implements the abstract log of EventLog.
Stream == INSTANCE EventLog
StreamSpec == Stream!Spec

\* A verdict, once stored, is never rewritten: not by a late timer, a late
\* solver, a second cancel or the reconciliation of the next process.
VerdictIsFinal ==
    [][\A j \in Jobs : stored[j] \in Terminal =>
         stored'[j] = stored[j] /\ error'[j] = error[j]]_vars

\* The log announces at most one verdict, and it is the one in the record.
VerdictAgrees ==
    \A j \in Jobs : \A i \in VerdictsIn(log[j]) :
        /\ log[j][i].status = stored[j]
        /\ VerdictsIn(log[j]) = {i}

\* Unless the timer or a restart decided the job, everything its solver
\* reported is in the log ahead of the verdict.
ProgressBeforeVerdict ==
    \A j \in Jobs : error[j] \in {"none", "exception"} =>
        \A i \in VerdictsIn(log[j]) : ProgressUpTo(log[j], i) = 1..steps[j]

\* execution.py: "so the terminal event is genuinely last".
TerminalEventIsLast ==
    \A j \in Jobs : VerdictsIn(log[j]) \subseteq {Len(log[j])}

\* Between requests, the live entry, the cancel event and the unfinished
\* coroutine of a job exist together or not at all, and a job without them has
\* a verdict in the store: the window JobManager._retire says does not exist.
\* The one exception is a job abandoned by a result that could not be stored.
Active    == {j \in Jobs : run[j] \in {"created", "awaiting", "draining"}}
Abandoned == {j \in Jobs : run[j] = "broken"}

Accounted ==
    Serving =>
        /\ cancels = Active
        /\ live = Active \cup Abandoned
        /\ \A j \in Jobs : stored[j] \in Unfinished => j \in live

\* "Never raises for a failed solve: a solver bug fails the job, not the
\* caller" (run_solve): a coroutine that ended left a verdict behind.
EndedHasVerdict ==
    \A j \in Jobs : run[j] \in {"ended", "broken"} => stored[j] \in Terminal

\* Every accepted job reaches a verdict, through timeouts and restarts.
EveryJobEnds ==
    \A j \in Jobs : stored[j] = "queued" ~> stored[j] \in Terminal

\* The process died between persisting the verdict and announcing it: nothing
\* will ever put the terminal event in this log.
Silent(j) ==
    /\ stored[j] \in Terminal /\ VerdictsIn(log[j]) = {}
    /\ run[j] = "lost" /\ fixing # j

\* Every open stream ends, save on a job whose verdict the process died on.
EveryStreamEnds ==
    \A r \in Readers, j \in Jobs :
        reading[r] = j ~> (reading[r] # j \/ Silent(j))
=============================================================================
