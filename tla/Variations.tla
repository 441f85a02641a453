----------------------------- MODULE Variations -----------------------------
(***************************************************************************)
(* The jobs behind studies and searches (core/service.py: submit,          *)
(* _variation_job, jobs_for_object).  Neither stores a run: each asks for   *)
(* points, every point is an ordinary job of one principal, and a report    *)
(* finds the answers again, by content address where there is one and       *)
(* otherwise by what the job recorded about its origin.  A point is a       *)
(* sequence of strings, so that both modules can name theirs.               *)
(***************************************************************************)
EXTENDS Naturals, Sequences, FiniteSets, FiniteSetsExt, TLC

CONSTANTS
    Metrics,       \* what a solve may report as the metric asked for
    MaxJobs,       \* jobs made (a bound)
    MaxPurges,     \* jobs the retention sweep drops (a bound)
    NoMetric, NoRank

ASSUME VariationsAssumption ==
    /\ NoMetric \notin Metrics /\ NoRank \notin Nat
    /\ MaxJobs \in Nat /\ MaxPurges \in Nat

VARIABLES
    jobs,        \* the jobs in the order of their creation
    cacheable    \* the capability declares itself deterministic and caching is on

jobVars == <<jobs, cacheable>>

\* A cancelled job counts as failed: neither has metrics, neither is reused.
Finished == {"done", "failed"}
Reusable == {"done", "running"}

\* A job: the point solved, the design revision it came from, the index its
\* inputs record, and what became of it.  Queued counts as running; a broken job
\* is one whose row says running and that nobody will end.
Job == [point : Seq(STRING), design : Nat, rank : Nat \cup {NoRank},
        status : Finished \cup {"running", "broken", "purged"},
        metric : Metrics \cup {NoMetric}]

JobsInit == jobs = <<>> /\ cacheable \in BOOLEAN

\* find_cached: the newest job of this address that is done or may still be.
\* 0 for none, as for every lookup here.
Cached(point, design) ==
    IF ~cacheable THEN 0
    ELSE Max({0} \cup {i \in DOMAIN jobs :
                 /\ jobs[i].point = point /\ jobs[i].design = design
                 /\ jobs[i].status \in Reusable \cup {"broken"}})

\* The jobs that record this index, listed newest first and put into a dict one
\* after the other: the oldest stays.
ByInput(rank) ==
    LET S == {i \in DOMAIN jobs : jobs[i].rank = rank /\ jobs[i].status # "purged"}
    IN IF S = {} THEN 0 ELSE Min(S)

\* How a report finds the job of a point.
JobOf(point, design, rank) ==
    LET c == Cached(point, design) IN IF c # 0 THEN c ELSE ByInput(rank)

Answer(i) == IF i = 0 THEN NoMetric ELSE jobs[i].metric

NewJob(point, design, rank) ==
    [point |-> point, design |-> design, rank |-> rank, status |-> "running",
     metric |-> NoMetric]

\* submit: a cached job, or a new one; j is its number.
Submitted(point, design, rank, j) ==
    LET c == Cached(point, design) IN
    IF c # 0 THEN j = c /\ UNCHANGED jobs
    ELSE /\ Len(jobs) < MaxJobs
         /\ j = Len(jobs) + 1
         /\ jobs' = Append(jobs, NewJob(point, design, rank))

-----------------------------------------------------------------------------
(* What happens to jobs meanwhile *)

\* A solve ends; a deterministic one reports what it reported before.
JobEnds(i) ==
    /\ i \in DOMAIN jobs /\ jobs[i].status = "running"
    /\ \E s \in Finished, m \in Metrics \cup {NoMetric} :
         /\ s # "done" => m = NoMetric
         /\ \A k \in DOMAIN jobs :
              /\ cacheable /\ s = "done" /\ jobs[k].point = jobs[i].point
              /\ jobs[k].design = jobs[i].design /\ jobs[k].metric # NoMetric
              => jobs[k].metric = m
         /\ jobs' = [jobs EXCEPT ![i].status = s, ![i].metric = m]
    /\ UNCHANGED cacheable

\* A solve comes to nothing and its row says running for good (the store refused
\* its result; its worker died).
JobBreaks(i) ==
    /\ i \in DOMAIN jobs /\ jobs[i].status = "running"
    /\ jobs' = [jobs EXCEPT ![i].status = "broken"]
    /\ UNCHANGED cacheable

\* The retention sweep drops a job, whatever its status.
PurgeJob(i) ==
    /\ i \in DOMAIN jobs /\ jobs[i].status # "purged"
    /\ Cardinality({k \in DOMAIN jobs : jobs[k].status = "purged"}) < MaxPurges
    /\ jobs' = [jobs EXCEPT ![i].status = "purged"]
    /\ UNCHANGED cacheable

\* The process starts again and fails what it was solving.
JobsReconciled ==
    jobs' = [i \in DOMAIN jobs |->
               IF jobs[i].status \in {"running", "broken"}
               THEN [jobs[i] EXCEPT !.status = "failed"] ELSE jobs[i]]

JobsOK ==
    /\ jobs \in Seq(Job)
    /\ cacheable \in BOOLEAN
=============================================================================
