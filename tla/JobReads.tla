------------------------------ MODULE JobReads ------------------------------
(***************************************************************************)
(* What a caller reads of one job while it is run, retired, swept or       *)
(* reconciled: FenixSpoonCore.job, result_levels, query_result and         *)
(* job_events (core/service.py) over JobManager.get (jobs.py) and          *)
(* SqliteJobStore (store.py), as Session.wait and the polling routes call  *)
(* them.                                                                   *)
(*                                                                         *)
(* Reads run on threads of their own, beside the event loop that runs the  *)
(* job.  A job is kept in four places: its record, its result.json, its event *)
(* log, and the live Job object the manager answers with until it retires  *)
(* the job.  Every read below is a read of one of them; a read that needs  *)
(* two makes two.                                                          *)
(***************************************************************************)
EXTENDS JobRecords

CONSTANTS
    Limits,      \* the page sizes a poller asks for
    MaxMishaps   \* restarts, sweeps and manual cleanups (a bound)

ASSUME ReadsAssumption == Limits \subseteq Nat \ {0} /\ MaxMishaps \in Nat

VARIABLES
    record,        \* the job's record, or Missing
    payload,    \* whether result.json is there
    told,       \* the job's event log
    entry,      \* the live Job object
    cached,     \* whether JobManager._jobs still answers with it
    writer,     \* where run_solve and the retirement are
    verdict,    \* what the solve ended as
    reports,    \* progress events written
    sweeping,   \* purge_expired has deleted the rows, and not yet the files
    mishaps,    \* restarts, sweeps and cleanups so far
    purged,     \* history: the sweep took this job
    removed,    \* history: result.json was deleted
    reader,     \* one call for the job's answer
    poller      \* one client paging the event log

jobSide    == <<record, payload, told, entry, cached, writer, verdict, reports>>
readerSide == <<reader, poller>>
mishapSide == <<sweeping, mishaps, purged, removed>>
readsVars  == <<jobSide, readerSide, mishapSide>>

\* A row has metrics and diagnostics once it has a result_kind.
Row(status, kind) == [status |-> status, kind |-> kind]
Missing == Row(NoRow, FALSE)

\* The live Job object as submit makes it.
Fresh == [status |-> "queued", result |-> FALSE, summary |-> FALSE]

NoCall == [at |-> "idle", patient |-> FALSE, fields |-> FALSE, holds |-> "nothing",
           copy |-> Fresh, torn |-> FALSE, answer |-> "none", status |-> "none"]

ReadsInit ==
    /\ record = Missing /\ payload = FALSE /\ told = <<>>
    /\ entry = Fresh /\ cached = FALSE
    /\ writer = "submitting" /\ verdict = "none" /\ reports = 0
    /\ sweeping = FALSE /\ mishaps = 0 /\ purged = FALSE /\ removed = FALSE
    /\ reader = NoCall
    /\ poller = [checked |-> FALSE, next |-> 0, read |-> <<>>, final |-> FALSE]

-----------------------------------------------------------------------------
(* The job *)

\* JobManager.submit: the record, then the live entry.
SubmitJob ==
    /\ writer = "submitting"
    /\ record' = Row("queued", FALSE) /\ cached' = TRUE
    /\ writer' = "queued"
    /\ UNCHANGED <<payload, told, entry, verdict, reports, readerSide, mishapSide>>

\* run_solve begins.  The live entry stays `queued`.
BeginSolve ==
    /\ writer = "queued" /\ ~sweeping
    /\ record' = Row("running", FALSE)
    /\ told' = Append(told, StatusEvent("running"))
    /\ writer' = "solving"
    /\ UNCHANGED <<payload, entry, cached, verdict, reports, readerSide, mishapSide>>

ReportProgress ==
    /\ writer = "solving" /\ ~sweeping /\ reports < MaxProgress
    /\ reports' = reports + 1
    /\ told' = Append(told, ProgressEvent(reports'))
    /\ UNCHANGED <<record, payload, entry, cached, writer, verdict, readerSide, mishapSide>>

SolveEnds ==
    /\ writer = "solving" /\ ~sweeping
    /\ \E v \in Terminal :
         /\ verdict' = v
         /\ writer' = IF v = "done" THEN "saving" ELSE "recording"
    /\ UNCHANGED <<record, payload, told, entry, cached, reports, readerSide, mishapSide>>

\* put with the row first: a crash in between leaves a `done` job without a file.
RecordFirst ==
    \/ /\ writer = "saving"
       /\ record' = Row("done", TRUE) /\ writer' = "recording"
       /\ UNCHANGED payload
    \/ /\ writer = "recording"
       /\ payload' = (verdict = "done")
       /\ record' = Row(verdict, verdict = "done") /\ writer' = "recorded"

\* SqliteJobStore.put of the terminal record: result.json if there is a result,
\* then the record, which a sweep in between makes a new one.
SaveThenRecord ==
    \/ /\ writer = "saving"
       /\ payload' = TRUE /\ writer' = "recording"
       /\ UNCHANGED record
    \/ /\ writer = "recording"
       /\ record' = Row(verdict, verdict = "done") /\ writer' = "recorded"
       /\ UNCHANGED payload

PutVerdict ==
    /\ SaveThenRecord
    /\ UNCHANGED <<told, entry, cached, verdict, reports, readerSide, mishapSide>>

\* The last event, once the progress still in flight has been waited for.
TellVerdict ==
    /\ writer = "recorded" /\ ~sweeping
    /\ told' = Append(told, StatusEvent(verdict))
    /\ writer' = "absorbing status"
    /\ UNCHANGED <<record, payload, entry, cached, verdict, reports, readerSide, mishapSide>>

\* Job.absorb, one assignment at a time.
AbsorbSteps ==
    \/ /\ writer = "absorbing status"
       /\ entry' = [entry EXCEPT !.status = verdict] /\ writer' = "absorbing result"
    \/ /\ writer = "absorbing result"
       /\ entry' = [entry EXCEPT !.result = (verdict = "done")] /\ writer' = "absorbing summary"
    \/ /\ writer = "absorbing summary"
       /\ entry' = [entry EXCEPT !.summary = (verdict = "done")] /\ writer' = "retiring"

Absorb ==
    /\ AbsorbSteps
    /\ UNCHANGED <<record, payload, told, cached, verdict, reports, readerSide, mishapSide>>

\* finish() of JobManager._retire drops the entry; a reader may still hold it.
RetireJob ==
    /\ writer = "retiring"
    /\ cached' = FALSE /\ writer' = "ended"
    /\ UNCHANGED <<record, payload, told, entry, verdict, reports, readerSide, mishapSide>>

-----------------------------------------------------------------------------
(* Sweeps, cleanups, restarts *)

\* The points of run_solve at which another coroutine may run.
Suspended == writer \in {"queued", "solving", "recorded", "ended"}

\* purge_before: row and log in one transaction.
SweepRows ==
    /\ Suspended /\ ~sweeping /\ record # Missing /\ mishaps < MaxMishaps
    /\ record' = Missing /\ told' = <<>>
    /\ sweeping' = TRUE /\ mishaps' = mishaps + 1 /\ purged' = TRUE
    /\ UNCHANGED <<payload, entry, cached, writer, verdict, reports, readerSide, removed>>

\* The rest of purge_expired: the live entry, then the directory.
SweepFiles ==
    /\ sweeping /\ sweeping' = FALSE
    /\ cached' = FALSE /\ payload' = FALSE /\ removed' = TRUE
    /\ UNCHANGED <<record, told, entry, writer, verdict, reports, readerSide, mishaps, purged>>

\* Somebody deletes result.json by hand.
CleanUp ==
    /\ payload /\ mishaps < MaxMishaps
    /\ payload' = FALSE /\ removed' = TRUE /\ mishaps' = mishaps + 1
    /\ UNCHANGED <<record, told, entry, cached, writer, verdict, reports, readerSide,
                   sweeping, purged>>

\* The process dies and the next one reconciles the store before it serves: an
\* unfinished row becomes `failed`.  Calls under way are gone; a poller asks again.
Restart ==
    /\ mishaps < MaxMishaps /\ writer # "submitting"
    /\ mishaps' = mishaps + 1 /\ sweeping' = FALSE
    /\ cached' = FALSE /\ writer' = "ended"
    /\ IF record # Missing /\ record.status \in Unfinished
       THEN record' = Row("failed", FALSE) /\ told' = Append(told, StatusEvent("failed"))
       ELSE UNCHANGED <<record, told>>
    /\ reader' = NoCall
    /\ poller' = [poller EXCEPT !.checked = FALSE]
    /\ UNCHANGED <<payload, entry, verdict, reports, purged, removed>>

-----------------------------------------------------------------------------
(* Asking for the answer *)

\* A caller either waits for the end first (Job.wait) or asks at once; it wants
\* the field arrays (result, query, levels with `fields`) or only what the row has.
AskForAnswer ==
    /\ reader.at = "idle" /\ writer # "submitting"
    /\ \E patient, fields \in BOOLEAN :
         reader' = [NoCall EXCEPT !.at = IF patient THEN "waiting" ELSE "asking",
                                  !.patient = patient, !.fields = fields]
    /\ UNCHANGED <<jobSide, poller, mishapSide>>

AnswerWith(what, status) ==
    reader' = [reader EXCEPT !.at = "answered", !.answer = what, !.status = status]

GoOnTo(place) == reader' = [reader EXCEPT !.at = place]

\* JobManager.get for a status: the live entry while there is one, else the row.
WaitForEnd ==
    /\ reader.at = "waiting"
    /\ CASE cached -> entry.status \in Terminal /\ GoOnTo("asking")
         [] ~cached /\ record = Missing -> AnswerWith("not found", "none")
         [] OTHER  -> record.status \in Terminal /\ GoOnTo("asking")
    /\ UNCHANGED <<jobSide, poller, mishapSide>>

\* JobManager.get for the answer: a reference to the live entry, or a record
\* made from the record, whose payload is looked for after the lock is released.
GetJob ==
    /\ reader.at = "asking"
    /\ CASE cached ->
              reader' = [reader EXCEPT !.at = "checking", !.holds = "entry",
                                       !.torn = (writer # "retiring")]
         [] ~cached /\ record = Missing -> AnswerWith("not found", "none")
         [] OTHER ->
              reader' = [reader EXCEPT
                  !.at = IF reader.fields /\ record.kind THEN "looking" ELSE "checking",
                  !.holds = "record",
                  !.copy = [status |-> record.status, result |-> FALSE, summary |-> record.kind]]
    /\ UNCHANGED <<jobSide, poller, mishapSide>>

\* _record: is the file there, and then what is in it.
LookForPayload ==
    /\ reader.at = "looking"
    /\ GoOnTo(IF payload THEN "loading" ELSE "checking")
    /\ UNCHANGED <<jobSide, poller, mishapSide>>

LoadPayload ==
    /\ reader.at = "loading"
    /\ IF payload
       THEN reader' = [reader EXCEPT !.at = "checking", !.copy.result = TRUE]
       ELSE AnswerWith("crashed", "none")
    /\ UNCHANGED <<jobSide, poller, mishapSide>>

\* The job as the caller sees it now: a live entry may change in its hands.
InHand == IF reader.holds = "entry" THEN entry ELSE reader.copy

CheckSucceeded ==
    /\ reader.at = "checking"
    /\ IF InHand.status \in {"failed", "cancelled"}
       THEN AnswerWith("did not succeed", InHand.status)
       ELSE GoOnTo("checking done")
    /\ UNCHANGED <<jobSide, poller, mishapSide>>

CheckDone ==
    /\ reader.at = "checking done"
    /\ IF InHand.status # "done"
       THEN AnswerWith("not finished", InHand.status)
       ELSE GoOnTo("checking payload")
    /\ UNCHANGED <<jobSide, poller, mishapSide>>

CheckPayload ==
    /\ reader.at = "checking payload"
    /\ IF reader.fields /\ ~InHand.result
       THEN AnswerWith("payload missing", "done")
       ELSE GoOnTo("building")
    /\ UNCHANGED <<jobSide, poller, mishapSide>>

\* results.build leaves out what has no summary, without a word.
BuildAnswer ==
    /\ reader.at = "building"
    /\ AnswerWith(IF InHand.summary THEN "complete" ELSE "empty", "done")
    /\ UNCHANGED <<jobSide, poller, mishapSide>>

ReaderAgain ==
    /\ reader.at = "answered"
    /\ reader' = NoCall
    /\ UNCHANGED <<jobSide, poller, mishapSide>>

-----------------------------------------------------------------------------
(* Paging the event log *)

EndsIn(events) == \E i \in DOMAIN events : IsTerminal(events[i])

\* job_events, the ownership check: JobNotFound leaves the poller where it was.
CheckOwner ==
    /\ ~poller.checked /\ ~poller.final
    /\ cached \/ record # Missing
    /\ poller' = [poller EXCEPT !.checked = TRUE]
    /\ UNCHANGED <<jobSide, reader, mishapSide>>

\* The events after `next`, at most limit of them; final if they hold the verdict.
Page(limit) ==
    LET end  == IF poller.next + limit < Len(told) THEN poller.next + limit ELSE Len(told)
        page == SubSeq(told, poller.next + 1, end) IN
    [checked |-> FALSE, next |-> poller.next + Len(page),
     read |-> poller.read \o page, final |-> EndsIn(page)]

ReadPage ==
    /\ poller.checked
    /\ \E limit \in Limits : poller' = Page(limit)
    /\ UNCHANGED <<jobSide, reader, mishapSide>>

ReadsNext ==
    \/ SubmitJob \/ BeginSolve \/ ReportProgress \/ SolveEnds \/ PutVerdict
    \/ TellVerdict \/ Absorb \/ RetireJob
    \/ SweepRows \/ SweepFiles \/ CleanUp \/ Restart
    \/ AskForAnswer \/ WaitForEnd \/ GetJob \/ LookForPayload \/ LoadPayload
    \/ CheckSucceeded \/ CheckDone \/ CheckPayload \/ BuildAnswer \/ ReaderAgain
    \/ CheckOwner \/ ReadPage

ReadsSpec == ReadsInit /\ [][ReadsNext]_readsVars

-----------------------------------------------------------------------------
(* Properties *)

\* Two kinds of call may be answered with less than the job has: one made after
\* its files were removed, and one that was handed the live entry while
\* Job.absorb was still to finish with it.  Every other call is told the truth:
\* who waited is never told to wait, a `done` job has its metrics and its arrays,
\* and `not found` is said only of a job the sweep took.
AnswersAreRight ==
    LET said == reader.answer IN
    /\ said \in {"payload missing", "crashed"} => removed \/ reader.torn
    /\ said = "empty" => reader.torn
    /\ said = "not finished" =>
         ~reader.patient /\ (reader.status \in Unfinished \/ reader.torn)
    /\ said = "not found" => purged
    /\ said = "did not succeed" /\ record # Missing /\ ~purged => reader.status = record.status

\* A poller that follows `next` reads the log in order, each event once, and is
\* told it is final exactly when it has read the verdict, unless a sweep took
\* the log away and its numbers began again.
PagesAreTheLog ==
    ~purged => /\ poller.read = SubSeq(told, 1, poller.next)
               /\ poller.next = Len(poller.read)
               /\ poller.final = EndsIn(poller.read)

\* What is read of a job is what happened to it.
ReadsAreRight == AnswersAreRight /\ PagesAreTheLog
=============================================================================
