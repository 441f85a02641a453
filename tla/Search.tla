------------------------------- MODULE Search -------------------------------
(***************************************************************************)
(* optimize.run and optimize.get (core/service.py, core/optimize.py): one   *)
(* optimization revision in one process.  A run answers with a receipt and  *)
(* leaves a task behind that asks the method for a point, submits it, polls *)
(* the job and tells the method what came back.  A report replays the       *)
(* method over the jobs.  The method itself is GoldenSection; here a point  *)
(* is named by the answers that led to it, of which it is a pure function.  *)
(***************************************************************************)
EXTENDS Variations

CONSTANTS
    Enough,          \* evaluations after which the bracket meets the tolerance
    Budgets,         \* what max_evaluations may be
    MaxRuns,         \* searches started (a bound)
    MaxCrashes,      \* restarts of the process (a bound)
    NoTask, NoStop, NoRun

Tasks == 1..MaxRuns

\* What a finished search leaves: how far it got, why it ended there, and whether
\* that was a refusal.
Reasons == {"converged", "budget", "stalled"}
Stop == [answered : Nat, reason : Reasons, refused : BOOLEAN]

ASSUME SearchAssumption ==
    /\ Enough \in Nat /\ Budgets \subseteq Nat \ {0, 1} /\ MaxRuns \in Nat /\ MaxCrashes \in Nat
    /\ Metrics \subseteq STRING /\ NoTask \notin Tasks /\ NoStop \notin Stop

VARIABLES
    budget,     \* max_evaluations of the body
    searches,   \* _searches: the task in flight, or NoTask
    stops,      \* _stops: how the last finished search ended, or NoStop
    tasks,      \* every task so far: where it is, the answers, the job it polls
    crashes,
    ran         \* history: what the last search concluded, while nothing else
                \* has happened to the jobs

searchVars == <<budget, searches, stops, tasks, crashes, ran, jobs, cacheable>>

Fresh(place) == [at |-> place, answered |-> <<>>, job |-> 0]

SearchInit ==
    /\ JobsInit
    /\ budget \in Budgets
    /\ searches = NoTask /\ stops = NoStop /\ crashes = 0 /\ ran = NoRun
    /\ tasks = [t \in Tasks |-> Fresh("unborn")]

AtWork == {t \in Tasks : tasks[t].at \in {"asking", "polling"}}

-----------------------------------------------------------------------------
(* The driver *)

\* run_optimization that keeps what the last search left ...
StartKeepingStop(t) ==
    /\ searches = NoTask
    /\ t \in Tasks /\ tasks[t].at = "unborn" /\ \A u \in Tasks : u < t => tasks[u].at # "unborn"
    /\ tasks' = [tasks EXCEPT ![t].at = "asking"]
    /\ searches' = t
    /\ ran' = NoRun
    /\ UNCHANGED <<budget, stops, crashes, jobs, cacheable>>

\* run_optimization.  When one is in flight the call joins it and changes
\* nothing; otherwise what the last search left is forgotten and a task begins.
Start(t) ==
    /\ searches = NoTask
    /\ t \in Tasks /\ tasks[t].at = "unborn" /\ \A u \in Tasks : u < t => tasks[u].at # "unborn"
    /\ tasks' = [tasks EXCEPT ![t].at = "asking"]
    /\ searches' = t
    /\ stops' = NoStop
    /\ ran' = NoRun
    /\ UNCHANGED <<budget, crashes, jobs, cacheable>>

\* _search stops: remember the reason, keyed by how far it got.
Conclude(t, reason, refused, last) ==
    /\ tasks' = [tasks EXCEPT ![t] = Fresh("ended")]
    /\ stops' = [answered |-> Len(tasks[t].answered), reason |-> reason, refused |-> refused]
    /\ ran' = [answered |-> tasks[t].answered, reason |-> reason, job |-> last]

\* One turn of the loop up to the submission, which may be refused.
Ask(t) ==
    LET a == tasks[t].answered IN
    /\ tasks[t].at = "asking"
    /\ IF Len(a) >= Enough
       THEN Conclude(t, "converged", FALSE, 0) /\ UNCHANGED jobs
       ELSE IF Len(a) >= budget
       THEN Conclude(t, "budget", FALSE, 0) /\ UNCHANGED jobs
       ELSE \/ Cached(a, 1) = 0 /\ Conclude(t, "stalled", TRUE, 0) /\ UNCHANGED jobs
            \/ \E j \in 1..(Len(jobs) + 1) :
                 /\ Submitted(a, 1, Len(a), j)
                 /\ tasks' = [tasks EXCEPT ![t].at = "polling", ![t].job = j]
                 /\ UNCHANGED <<stops, ran>>
    /\ UNCHANGED <<budget, searches, crashes, cacheable>>

\* Observe that goes on polling a job that failed.
ObserveDone(t) ==
    LET j == tasks[t].job IN
    /\ tasks[t].at = "polling" /\ jobs[j].status = "done"
    /\ IF Answer(j) = NoMetric
       THEN Conclude(t, "stalled", FALSE, j)
       ELSE /\ tasks' = [tasks EXCEPT ![t] = [at |-> "asking", job |-> 0,
                                              answered |-> Append(tasks[t].answered, Answer(j))]]
            /\ UNCHANGED <<stops, ran>>
    /\ UNCHANGED <<budget, searches, crashes, jobs, cacheable>>

\* _settled sees a final status; an evaluation without the metric stops the
\* search.
Observe(t) ==
    LET j == tasks[t].job IN
    /\ tasks[t].at = "polling" /\ jobs[j].status \in Finished
    /\ IF Answer(j) = NoMetric
       THEN Conclude(t, "stalled", FALSE, j)
       ELSE /\ tasks' = [tasks EXCEPT ![t] = [at |-> "asking", job |-> 0,
                                              answered |-> Append(tasks[t].answered, Answer(j))]]
            /\ UNCHANGED <<stops, ran>>
    /\ UNCHANGED <<budget, searches, crashes, jobs, cacheable>>

\* The job polled was purged: the lookup raises and the task dies of it.
ObservePurged(t) ==
    /\ tasks[t].at = "polling" /\ jobs[tasks[t].job].status = "purged"
    /\ tasks' = [tasks EXCEPT ![t] = Fresh("ended")]
    /\ UNCHANGED <<budget, searches, stops, crashes, ran, jobs, cacheable>>

\* _search_finished, called by the loop some time after the task ended.
SearchFinished(t) ==
    /\ tasks[t].at = "ended"
    /\ tasks' = [tasks EXCEPT ![t] = Fresh("gone")]
    /\ searches' = NoTask
    /\ UNCHANGED <<budget, stops, crashes, ran, jobs, cacheable>>

-----------------------------------------------------------------------------
(* optimize.get *)

\* The answers the replay finds: the method is walked from the start, the job of
\* each point looked up, until one has no metric.
ReplayedUpTo[n \in Nat] ==
    IF n = 0 THEN <<>>
    ELSE LET a == ReplayedUpTo[n - 1]
             m == Answer(JobOf(a, 1, Len(a)))
         IN IF Len(a) = n - 1 /\ Len(a) < Enough /\ m # NoMetric THEN Append(a, m) ELSE a

Replayed == ReplayedUpTo[budget]

\* Why the report says the search is not still going.
Reported ==
    LET a == Replayed
        n == Len(a)
        here == JobOf(a, 1, n) # 0
        remembered == stops # NoStop /\ stops.answered = n
    IN IF n >= Enough THEN "converged"
       ELSE IF n >= budget THEN "budget"
       ELSE IF here THEN "stalled"
       ELSE IF n = 0 /\ ~(remembered /\ stops.refused) THEN "not_run"
       ELSE IF remembered THEN stops.reason
       ELSE "incomplete"

-----------------------------------------------------------------------------
(* The rest of the world *)

\* Somebody solves the frontier of the search on their own.
SubmitElsewhere ==
    /\ cacheable
    /\ \E j \in 1..(Len(jobs) + 1) : Cached(Replayed, 1) = 0 /\ Submitted(Replayed, 1, NoRank, j)
    /\ ran' = NoRun
    /\ UNCHANGED <<budget, searches, stops, tasks, crashes, cacheable>>

OfTheJobs(A) == A /\ ran' = NoRun /\ UNCHANGED <<budget, searches, stops, tasks, crashes>>

\* The process dies, and with it the task and both dictionaries.
SearchCrash ==
    /\ crashes < MaxCrashes
    /\ crashes' = crashes + 1
    /\ tasks' = [t \in Tasks |->
                   IF tasks[t].at = "unborn" THEN tasks[t] ELSE Fresh("gone")]
    /\ searches' = NoTask /\ stops' = NoStop /\ ran' = NoRun
    /\ JobsReconciled
    /\ UNCHANGED <<budget, cacheable>>

SearchStep(t) == Ask(t) \/ Observe(t) \/ ObservePurged(t) \/ SearchFinished(t)

SearchNext ==
    \/ \E t \in Tasks : Start(t) \/ SearchStep(t)
    \/ \E i \in DOMAIN jobs : OfTheJobs(JobEnds(i) \/ JobBreaks(i) \/ PurgeJob(i))
    \/ SubmitElsewhere \/ SearchCrash

\* The loop goes on, and a solve that is not broken ends (JobRun: EveryJobEnds).
SearchFairness ==
    /\ \A t \in Tasks : WF_searchVars(SearchStep(t))
    /\ \A i \in 1..MaxJobs : WF_searchVars(OfTheJobs(JobEnds(i)))

SearchSpec == SearchInit /\ [][SearchNext]_searchVars /\ SearchFairness

-----------------------------------------------------------------------------
(* Properties *)

SearchTypeOK ==
    /\ JobsOK
    /\ budget \in Budgets
    /\ searches \in Tasks \cup {NoTask}
    /\ stops \in Stop \cup {NoStop}
    /\ \A t \in Tasks :
         /\ tasks[t].at \in {"unborn", "asking", "polling", "ended", "gone"}
         /\ tasks[t].answered \in Seq(Metrics) /\ Len(tasks[t].answered) <= budget
         /\ tasks[t].job \in 0..Len(jobs)
         /\ tasks[t].at = "polling" => tasks[t].job # 0

\* At most one driver works for a revision, and it is the one _searches names,
\* although the entry is popped by key from a callback that comes late.
OneSearchPerKey == \A t \in AtWork : searches = t /\ AtWork = {t}

\* What a finished search left is never there while another one is at work, when
\* a report would blame the one for the other (core/service.py:746).
StopIsCurrent == AtWork # {} => stops = NoStop

SearchesAreCurrent == SearchTypeOK /\ OneSearchPerKey /\ StopIsCurrent

\* A report that finds what the search saw: nothing was purged, the job it stopped
\* at is the one a replay looks up (it is not when it was somebody else's and
\* failed), and without a content address this is the first search (of a second
\* one the replay sees the jobs of the first).
SameEvidence ==
    /\ \A i \in DOMAIN jobs : jobs[i].status # "purged"
    /\ ran.job # 0 => JobOf(ran.answered, 1, Len(ran.answered)) = ran.job
    /\ ~cacheable => \A t \in Tasks : t > 1 => tasks[t].at = "unborn"

\* The report rebuilt from the jobs says what the search concluded: the same
\* answers and the same reason (core/optimize.py:20, core/service.py:865).
ReplayTellsTheRun ==
    ran # NoRun /\ SameEvidence => Replayed = ran.answered /\ Reported = ran.reason

\* One search at a time, reported as what it is while it runs and as what it
\* was when it is over.
SearchIsSound == SearchesAreCurrent /\ ReplayTellsTheRun

\* A search ends, unless the job it polls never does: it has no deadline of its
\* own (core/service.py:844).
SearchEnds ==
    \A t \in Tasks :
        t \in AtWork ~> \/ tasks[t].at = "gone"
                        \/ tasks[t].at = "polling" /\ jobs[tasks[t].job].status = "broken"
=============================================================================
