----------------------------- MODULE JobRecords -----------------------------
(***************************************************************************)
(* The vocabulary of one job's durable half: the statuses of its record,   *)
(* the events of its log, and what the two stores do when an event is      *)
(* added (store.py).  Shared by every module in which a job is run,        *)
(* reported or watched.                                                    *)
(***************************************************************************)
EXTENDS Naturals, Sequences

CONSTANT
    MaxProgress,   \* how many progress events one solve may report (a bound)
    MirrorAliased  \* TRUE: MemoryJobStore, whose stored log is the list the
                   \* event sink mirrors into; FALSE: SqliteJobStore

ASSUME RecordsAssumption ==
    /\ MaxProgress \in Nat
    /\ MirrorAliased \in BOOLEAN

Terminal   == {"done", "failed", "cancelled"}
Unfinished == {"queued", "running"}
Status     == Unfinished \cup Terminal
NoRow      == "none"

\* Why a job failed; the record's `error`.
Error == {"none", "timeout", "exception", "restart"}

StatusEvent(s)   == [type |-> "status", status |-> s]
ProgressEvent(n) == [type |-> "progress", iteration |-> n]

Event == [type : {"status"}, status : {"running"} \cup Terminal]
           \cup [type : {"progress"}, iteration : 1..MaxProgress]

IsStatus(e)   == e.type = "status"
IsProgress(e) == e.type = "progress"
IsTerminal(e) == IsStatus(e) /\ e.status \in Terminal

Verdict == {e \in Event : IsTerminal(e)}

\* SqliteJobStore.add_event inserts one row at MAX(seq)+1.
SqliteAddEvent(events, e) == Append(events, e)

\* MemoryJobStore.put kept the very list the sink mirrors into, so the mirror's
\* append and the store's both land on it.
MemoryAddEvent(events, e) == events \o <<e, e>>

AddEvent(events, e) ==
    IF MirrorAliased THEN MemoryAddEvent(events, e) ELSE SqliteAddEvent(events, e)

\* The positions of a log that hold a terminal event.
VerdictsIn(events) == {i \in DOMAIN events : IsTerminal(events[i])}

\* The iteration numbers reported in a log up to position k.
ProgressUpTo(events, k) ==
    {events[i].iteration : i \in {m \in 1..k : IsProgress(events[m])}}
=============================================================================
