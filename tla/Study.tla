------------------------------- MODULE Study -------------------------------
(***************************************************************************)
(* study.run and study.get (core/service.py, core/studies.py): one study    *)
(* revision over a design that may be named without a revision.  A run      *)
(* submits its variations one after the other and answers with the jobs; a  *)
(* report resolves the design again and looks the jobs up by what it says   *)
(* now.  What the variations are is StudyTables.                            *)
(***************************************************************************)
EXTENDS Variations

CONSTANTS
    Rungs,          \* how many variations the study has
    MaxDesigns,     \* revisions of the design (a bound)
    MaxStudyRuns,   \* calls of study.run (a bound)
    NoReceipt

ASSUME StudyAssumption == Rungs \in Nat /\ MaxDesigns \in Nat \ {0} /\ MaxStudyRuns \in Nat

VARIABLES
    pinned,      \* the study's reference names a revision of the design
    head,        \* the newest revision of the design
    submitting,  \* a run in progress: the revision it resolved, the jobs so far; or idle
    studyRuns,
    receipt      \* what the last run answered: the same, one entry per variation

studyVars == <<pinned, head, submitting, studyRuns, receipt, jobs, cacheable>>

\* Variation i, named by that many strings.
Point(i) == [k \in 1..i |-> "variation"]

Quiet == [at |-> "idle", design |-> 1, named |-> <<>>]

StudyInit ==
    /\ JobsInit
    /\ pinned \in BOOLEAN
    /\ head = 1 /\ submitting = Quiet /\ studyRuns = 0 /\ receipt = NoReceipt

\* _study_plan's design: a reference without a revision is the head of now.
Resolved == IF pinned THEN 1 ELSE head

\* run_study: resolve everything once ...
RunStudy ==
    /\ submitting = Quiet /\ studyRuns < MaxStudyRuns
    /\ studyRuns' = studyRuns + 1
    /\ submitting' = [at |-> "submitting", design |-> Resolved, named |-> <<>>]
    /\ UNCHANGED <<pinned, head, receipt, jobs, cacheable>>

\* SubmitRung recording the index of the variation before.
SubmitRungOffByOne ==
    LET i == Len(submitting.named) + 1 IN
    /\ submitting.at = "submitting" /\ i <= Rungs
    /\ \E j \in 1..(Len(jobs) + 1) :
         /\ Submitted(Point(i), submitting.design, i - 1, j)
         /\ submitting' = [submitting EXCEPT !.named = Append(@, j)]
    /\ UNCHANGED <<pinned, head, studyRuns, receipt, cacheable>>

\* ... then submit each variation.  A refusal is counted and the next one tried.
SubmitRung ==
    LET i == Len(submitting.named) + 1 IN
    /\ submitting.at = "submitting" /\ i <= Rungs
    /\ \/ /\ Cached(Point(i), submitting.design) = 0
          /\ submitting' = [submitting EXCEPT !.named = Append(@, 0)]
          /\ UNCHANGED jobs
       \/ \E j \in 1..(Len(jobs) + 1) :
            /\ Submitted(Point(i), submitting.design, i, j)
            /\ submitting' = [submitting EXCEPT !.named = Append(@, j)]
    /\ UNCHANGED <<pinned, head, studyRuns, receipt, cacheable>>

StudyAnswers ==
    /\ submitting.at = "submitting" /\ Len(submitting.named) = Rungs
    /\ receipt' = submitting
    /\ submitting' = Quiet
    /\ UNCHANGED <<pinned, head, studyRuns, jobs, cacheable>>

\* Somebody patches the design.
PatchDesign ==
    /\ head < MaxDesigns
    /\ head' = head + 1
    /\ UNCHANGED <<pinned, submitting, studyRuns, receipt, jobs, cacheable>>

\* study_report: the job of each variation, 0 where it says refused.
Row(i) == JobOf(Point(i), Resolved, i)

Complete == \A i \in 1..Rungs : Row(i) = 0 \/ jobs[Row(i)].status \in Finished

StudyNext ==
    \/ RunStudy \/ SubmitRung \/ StudyAnswers \/ PatchDesign
    \/ \E i \in DOMAIN jobs :
         /\ JobEnds(i) \/ PurgeJob(i)
         /\ UNCHANGED <<pinned, head, submitting, studyRuns, receipt>>

StudySpec == StudyInit /\ [][StudyNext]_studyVars

-----------------------------------------------------------------------------
(* Properties *)

StudyTypeOK ==
    /\ JobsOK
    /\ pinned \in BOOLEAN /\ head \in 1..MaxDesigns /\ studyRuns \in 0..MaxStudyRuns
    /\ submitting.at \in {"idle", "submitting"} /\ submitting.design \in 1..MaxDesigns
    /\ submitting.named \in Seq(0..Len(jobs)) /\ Len(submitting.named) <= Rungs
    /\ receipt = NoReceipt \/ receipt.named \in [1..Rungs -> 0..Len(jobs)]

\* A report made after a run shows, for every variation the run named a job for,
\* that job, or if it failed one that failed too; and it calls the study complete
\* only when these jobs are over.  Excepted: a design that moved, a purge, and a
\* second run without a content address, whose jobs stay hidden behind those of
\* the first (core/service.py:567).
TableShowsTheRun ==
    /\ receipt # NoReceipt /\ submitting = Quiet /\ (pinned \/ head = 1)
    /\ cacheable \/ studyRuns = 1
    /\ \A i \in DOMAIN jobs : jobs[i].status # "purged"
    => \A i \in 1..Rungs : receipt.named[i] # 0 =>
         /\ \/ Row(i) = receipt.named[i]
            \/ jobs[receipt.named[i]].status = "failed" /\ jobs[Row(i)].status = "failed"
         /\ Complete => jobs[receipt.named[i]].status \in Finished

=============================================================================
