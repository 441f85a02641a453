----------------------------- MODULE Submission -----------------------------
(***************************************************************************)
(* Servers sharing one data directory (docs/08-json-rpc.md): the HTTP API  *)
(* and the RPC and MCP servers, each with an event loop of its own, on one *)
(* SQLite file.  Inside a process a submission runs from the cache lookup  *)
(* to the stored row without suspending (core/service.py: submit), but     *)
(* each statement is a transaction of its own, and between two of them the *)
(* other processes run.  A process reconciles the table when it starts     *)
(* (jobs.py: reconcile, cli.py, main.py), and an HTTP server sweeps what   *)
(* is past its time to live.  Of a solve only its writes to the row are    *)
(* here; JobRun has the rest.  Jobs are numbered in the order of their     *)
(* created_at.                                                             *)
(***************************************************************************)
EXTENDS Naturals, FiniteSets

CONSTANTS
    Processes,
    Sweepers,          \* those that purge (HTTP servers)
    Owners,
    Keys,              \* the content addresses submissions may have
    NoKey,             \* of a solver that is not deterministic
    NoRow,
    NoTask,
    ConcurrentJobs,    \* the quota; 0 for none
    MaxJobs,           \* jobs ever made (a bound)
    MaxDeaths,         \* processes that die (a bound)
    MaxReuse,          \* times a row is found for reuse (a bound)
    MaxExpired         \* jobs that outlive their time to live (a bound)

Jobs == 1..MaxJobs

Unfinished == {"queued", "running"}
Terminal   == {"done", "failed", "cancelled"}

\* A row of the jobs table.
Row == [owner : Owners, key : Keys \cup {NoKey}, status : Unfinished \cup Terminal,
        reused : Nat]

\* A coroutine solving a job, and the record it carries.
Task == [process : Processes, owner : Owners, key : Keys \cup {NoKey}, status : Unfinished]

ASSUME SubmissionAssumption ==
    /\ IsFiniteSet(Processes) /\ Sweepers \subseteq Processes
    /\ ConcurrentJobs \in Nat /\ MaxJobs \in Nat /\ MaxDeaths \in Nat
    /\ MaxReuse \in Nat /\ MaxExpired \in Nat
    /\ NoKey \notin Keys /\ NoRow \notin Row /\ NoTask \notin Task

VARIABLES
    made,        \* how many jobs there have been
    expired,     \* how many of them are past their time to live
    rows,        \* the jobs table
    tasks,       \* the coroutine solving each job
    process,     \* each process: down, starting or serving
    call,        \* what the process' loop is in the middle of
    hits,        \* history: submissions answered with the row since it was inserted
    deaths

vars == <<made, expired, rows, tasks, process, call, hits, deaths>>

Idle == [doing |-> "idle"]

Call ==
    [doing : {"idle"}]
    \cup [doing : {"counting", "saving"}, owner : Owners, key : Keys \cup {NoKey}]
    \cup [doing : {"reusing"}, job : Jobs, found : Nat]
    \cup [doing : {"reconciling"}, left : SUBSET Jobs]
    \cup [doing : {"failing"}, left : SUBSET Jobs, job : Jobs, owner : Owners,
          key : Keys \cup {NoKey}]

Present(j) == rows[j] # NoRow

\* SqliteJobStore.unfinished_ids
UnfinishedRows == {j \in Jobs : Present(j) /\ rows[j].status \in Unfinished}

\* The loop is free to run something else.
Free(p) == process[p] = "serving" /\ call[p] = Idle

Init ==
    /\ made = 0 /\ expired = 0 /\ deaths = 0
    /\ rows = [j \in Jobs |-> NoRow]
    /\ tasks = [j \in Jobs |-> NoTask]
    /\ process = [p \in Processes |-> "serving"]
    /\ call = [p \in Processes |-> Idle]
    /\ hits = [j \in Jobs |-> 0]

\* SqliteJobStore.put: insert, or update what is not a fact of the submission.
Put(j, o, k, s) ==
    /\ rows' = [rows EXCEPT ![j] =
                  IF Present(j) THEN [@ EXCEPT !.status = s]
                  ELSE [owner |-> o, key |-> k, status |-> s, reused |-> 0]]
    /\ hits' = [hits EXCEPT ![j] = IF Present(j) THEN @ ELSE 0]

-----------------------------------------------------------------------------
(* A submission *)

\* Submissions that may yet make a job.
Pending == {p \in Processes : call[p].doing \in {"counting", "saving"}}

\* Cached finding only what is done.
CachedDone(o, k) ==
    {j \in Jobs : Present(j) /\ rows[j].owner = o /\ rows[j].key = k /\ rows[j].status = "done"}

\* SqliteJobStore.find_cached, before the choice of the newest.
Cached(o, k) ==
    {j \in Jobs : /\ Present(j) /\ rows[j].owner = o /\ rows[j].key = k
                  /\ rows[j].status \in Unfinished \cup {"done"}}

\* The request is valid; look in the cache when the solve has an address.
Look(p) ==
    /\ Free(p)
    /\ \E o \in Owners, k \in Keys \cup {NoKey} :
         \/ /\ k # NoKey
            /\ \E j \in Cached(o, k) :
                 /\ \A i \in Cached(o, k) : i <= j
                 /\ rows[j].reused < MaxReuse
                 /\ call' = [call EXCEPT ![p] = [doing |-> "reusing", job |-> j,
                                                 found |-> rows[j].reused]]
         \/ /\ k = NoKey \/ Cached(o, k) = {}
            /\ made + Cardinality(Pending) < MaxJobs
            /\ call' = [call EXCEPT ![p] = [doing |-> "counting", owner |-> o, key |-> k]]
    /\ UNCHANGED <<made, expired, rows, tasks, process, hits, deaths>>

\* Reuse writing back the count that was found, plus one.
ReuseFound(p) ==
    /\ call[p].doing = "reusing"
    /\ LET j == call[p].job IN
         IF Present(j)
         THEN /\ rows' = [rows EXCEPT ![j].reused = call[p].found + 1]
              /\ hits' = [hits EXCEPT ![j] = @ + 1]
         ELSE UNCHANGED <<rows, hits>>
    /\ call' = [call EXCEPT ![p] = Idle]
    /\ UNCHANGED <<made, expired, tasks, process, deaths>>

\* mark_reused, and the caller has its job.
Reuse(p) ==
    /\ call[p].doing = "reusing"
    /\ LET j == call[p].job IN
         IF Present(j)
         THEN /\ rows' = [rows EXCEPT ![j].reused = @ + 1]
              /\ hits' = [hits EXCEPT ![j] = @ + 1]
         ELSE UNCHANGED <<rows, hits>>
    /\ call' = [call EXCEPT ![p] = Idle]
    /\ UNCHANGED <<made, expired, tasks, process, deaths>>

\* Active without the jobs that wait.
ActiveRunning(o) == Cardinality({j \in UnfinishedRows : rows[j].owner = o /\ rows[j].status = "running"})

\* SqliteJobStore.usage, the count of unfinished jobs.
Active(o) == Cardinality({j \in UnfinishedRows : rows[j].owner = o})

\* check_quotas; a caller at its limit is refused.
Count(p) ==
    /\ call[p].doing = "counting"
    /\ call' = [call EXCEPT ![p] =
                  IF ConcurrentJobs # 0 /\ Active(@.owner) >= ConcurrentJobs THEN Idle
                  ELSE [@ EXCEPT !.doing = "saving"]]
    /\ UNCHANGED <<made, expired, rows, tasks, process, hits, deaths>>

\* JobManager.submit: a row, and a coroutine in this process.
Save(p) ==
    /\ call[p].doing = "saving"
    /\ LET j == made + 1 IN
         /\ made' = j
         /\ Put(j, call[p].owner, call[p].key, "queued")
         /\ tasks' = [tasks EXCEPT ![j] = [process |-> p, owner |-> call[p].owner,
                                           key |-> call[p].key, status |-> "queued"]]
    /\ call' = [call EXCEPT ![p] = Idle]
    /\ UNCHANGED <<expired, process, deaths>>

-----------------------------------------------------------------------------
(* A solve, as the table sees it *)

Begin(j) ==
    /\ tasks[j] # NoTask /\ tasks[j].status = "queued"
    /\ Free(tasks[j].process)
    /\ Put(j, tasks[j].owner, tasks[j].key, "running")
    /\ tasks' = [tasks EXCEPT ![j].status = "running"]
    /\ UNCHANGED <<made, expired, process, call, deaths>>

Conclude(j) ==
    /\ tasks[j] # NoTask /\ tasks[j].status = "running"
    /\ Free(tasks[j].process)
    /\ \E s \in Terminal : Put(j, tasks[j].owner, tasks[j].key, s)
    /\ tasks' = [tasks EXCEPT ![j] = NoTask]
    /\ UNCHANGED <<made, expired, process, call, deaths>>

-----------------------------------------------------------------------------
(* Processes, and the passing of time *)

\* A process dies, with what it was doing and solving.
Die(p) ==
    /\ process[p] # "down" /\ deaths < MaxDeaths
    /\ deaths' = deaths + 1
    /\ process' = [process EXCEPT ![p] = "down"]
    /\ call' = [call EXCEPT ![p] = Idle]
    /\ tasks' = [j \in Jobs |->
                   IF tasks[j] # NoTask /\ tasks[j].process = p THEN NoTask ELSE tasks[j]]
    /\ UNCHANGED <<made, expired, rows, hits>>

\* Start passing over the jobs that had not begun.
StartRunningOnly(p) ==
    /\ process[p] = "down"
    /\ process' = [process EXCEPT ![p] = "starting"]
    /\ call' = [call EXCEPT ![p] =
                  [doing |-> "reconciling",
                   left |-> {j \in UnfinishedRows : rows[j].status = "running"}]]
    /\ UNCHANGED <<made, expired, rows, tasks, hits, deaths>>

\* Another life: list what is unfinished.  A new process solves nothing yet, so
\* none of it is active here.
Start(p) ==
    /\ process[p] = "down"
    /\ process' = [process EXCEPT ![p] = "starting"]
    /\ call' = [call EXCEPT ![p] = [doing |-> "reconciling", left |-> UnfinishedRows]]
    /\ UNCHANGED <<made, expired, rows, tasks, hits, deaths>>

\* ReadStranded that stops at a row that is gone.
ReadStrandedStopping(p) ==
    /\ call[p].doing = "reconciling"
    /\ \E j \in call[p].left :
         call' = [call EXCEPT ![p] =
                    IF Present(j)
                    THEN [doing |-> "failing", left |-> @.left \ {j}, job |-> j,
                          owner |-> rows[j].owner, key |-> rows[j].key]
                    ELSE [doing |-> "reconciling", left |-> {}]]
    /\ UNCHANGED <<made, expired, rows, tasks, process, hits, deaths>>

\* reconcile reads one of the rows it listed; one that is gone is passed over.
ReadStranded(p) ==
    /\ call[p].doing = "reconciling"
    /\ \E j \in call[p].left :
         call' = [call EXCEPT ![p] =
                    IF Present(j)
                    THEN [doing |-> "failing", left |-> @.left \ {j}, job |-> j,
                          owner |-> rows[j].owner, key |-> rows[j].key]
                    ELSE [doing |-> "reconciling", left |-> @.left \ {j}]]
    /\ UNCHANGED <<made, expired, rows, tasks, process, hits, deaths>>

\* ... and writes it back as failed, whatever has become of it since.
FailStranded(p) ==
    /\ call[p].doing = "failing"
    /\ Put(call[p].job, call[p].owner, call[p].key, "failed")
    /\ call' = [call EXCEPT ![p] = [doing |-> "reconciling", left |-> @.left]]
    /\ UNCHANGED <<made, expired, tasks, process, deaths>>

\* purge_before: rows past the cutoff go, whatever their status.
Purged == [j \in Jobs |-> IF j <= expired THEN NoRow ELSE rows[j]]

\* Reconciled, and in an HTTP server swept, the process serves.
Serve(p) ==
    /\ call[p].doing = "reconciling" /\ call[p].left = {}
    /\ process' = [process EXCEPT ![p] = "serving"]
    /\ call' = [call EXCEPT ![p] = Idle]
    /\ rows' = IF p \in Sweepers THEN Purged ELSE rows
    /\ UNCHANGED <<made, expired, tasks, hits, deaths>>

\* The retention sweep.
Sweep(p) ==
    /\ p \in Sweepers /\ Free(p)
    /\ rows' = Purged
    /\ UNCHANGED <<made, expired, tasks, process, call, hits, deaths>>

\* The oldest job still within its time to live leaves it.
Expire ==
    /\ expired < made /\ expired < MaxExpired
    /\ expired' = expired + 1
    /\ UNCHANGED <<made, rows, tasks, process, call, hits, deaths>>

-----------------------------------------------------------------------------
\* What a process' loop does by itself.
LoopStep(p) ==
    \/ Reuse(p) \/ Count(p) \/ Save(p)
    \/ Start(p) \/ ReadStranded(p) \/ FailStranded(p) \/ Serve(p)

SolveStep(j) == Begin(j) \/ Conclude(j)

Next ==
    \/ \E p \in Processes : Look(p) \/ LoopStep(p) \/ Die(p) \/ Sweep(p)
    \/ \E j \in Jobs : SolveStep(j)
    \/ Expire

Spec == Init /\ [][Next]_vars

\* Loops go on, timeouts end solves, and a process that died is started again.
\* Clients and sweeps may stay away.
FairSpec ==
    /\ Spec
    /\ \A p \in Processes : WF_vars(LoopStep(p))
    /\ \A j \in Jobs : SF_vars(SolveStep(j))

-----------------------------------------------------------------------------
(* Properties *)

TypeOK ==
    /\ made \in 0..MaxJobs /\ expired \in 0..made /\ deaths \in 0..MaxDeaths
    /\ rows \in [Jobs -> Row \cup {NoRow}]
    /\ tasks \in [Jobs -> Task \cup {NoTask}]
    /\ process \in [Processes -> {"down", "starting", "serving"}]
    /\ call \in [Processes -> Call]
    /\ hits \in [Jobs -> Nat]

\* The concurrent-jobs quota (check_quotas) is read before the row is written;
\* callers in other processes can pass it at the same time, but each process
\* lets at most one job through on a count that is out of date.
QuotaOvershoot ==
    ConcurrentJobs # 0 =>
        \A o \in Owners : Active(o) <= ConcurrentJobs + Cardinality(Processes) - 1

\* "Two identical submissions attach to one solve instead of racing"
\* (core/service.py): no more solves of one address than processes that may have
\* looked before any of them was stored.
FewSolves ==
    \A o \in Owners, k \in Keys : Cardinality(Cached(o, k)) <= Cardinality(Processes)

\* The reuse count of a row is the number of submissions it answered: no put of a
\* status walks it back, and two processes counting at once both count.
ReuseCounted == \A j \in Jobs : Present(j) => rows[j].reused = hits[j]

\* An unfinished row that nobody solves is on the list of a process that is
\* starting, or a process is still to be started.
StrandedIsListed ==
    \A j \in UnfinishedRows : tasks[j] = NoTask =>
        \E p \in Processes :
            \/ process[p] = "down"
            \/ call[p].doing \in {"reconciling", "failing"} /\ j \in call[p].left
            \/ call[p].doing = "failing" /\ j = call[p].job

\* Whoever attaches to a job through the cache waits for a row that ends, its
\* solver dead or alive, or that is swept.
EveryRowEnds == \A j \in Jobs : j \in UnfinishedRows ~> j \notin UnfinishedRows

\* reconcile's "after a restart, nobody is solving them" (jobs.py): it never fails
\* a job that a process is solving.
ReconcileSparesTheLiving ==
    \A j \in Jobs : tasks[j] # NoTask /\ Present(j) => rows[j].status \in Unfinished
=============================================================================
