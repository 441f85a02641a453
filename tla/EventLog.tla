------------------------------ MODULE EventLog ------------------------------
(***************************************************************************)
(* What event delivery promises, whatever carries the events: each job has *)
(* one growing log, and a reader that opens a job is handed that log from  *)
(* the beginning, one event at a time, in order, none skipped and none     *)
(* repeated, and is let go at the first terminal event.  This is the       *)
(* invariant tests/test_events.py opens with.  A reader may also be cut    *)
(* off (a closed socket, a dead server); it then starts over.              *)
(***************************************************************************)
EXTENDS Naturals, Sequences

CONSTANTS
    Jobs, Readers,
    NoJob,     \* what a reader with nothing open reads
    Event,     \* what a log may hold
    Verdict    \* the terminal events, at which a reader is let go

VARIABLES
    log,      \* the events of each job, in the order they were recorded
    reading,  \* the job each reader has open, or NoJob
    seen      \* what each reader has been handed since it last opened a job

logVars == <<log, reading, seen>>

Init ==
    /\ log = [j \in Jobs |-> <<>>]
    /\ reading = [r \in Readers |-> NoJob]
    /\ seen = [r \in Readers |-> <<>>]

Record(j) ==
    /\ \E e \in Event : log' = [log EXCEPT ![j] = Append(@, e)]
    /\ UNCHANGED <<reading, seen>>

Open(r, j) ==
    /\ reading[r] = NoJob
    /\ reading' = [reading EXCEPT ![r] = j]
    /\ seen' = [seen EXCEPT ![r] = <<>>]
    /\ UNCHANGED log

Hand(r) ==
    /\ reading[r] # NoJob
    /\ Len(seen[r]) < Len(log[reading[r]])
    /\ LET e == log[reading[r]][Len(seen[r]) + 1] IN
         /\ seen' = [seen EXCEPT ![r] = Append(@, e)]
         /\ reading' = [reading EXCEPT ![r] = IF e \in Verdict THEN NoJob ELSE @]
    /\ UNCHANGED log

CutOff(R) ==
    /\ reading' = [r \in Readers |-> IF r \in R THEN NoJob ELSE reading[r]]
    /\ UNCHANGED <<log, seen>>

Next ==
    \/ \E j \in Jobs : Record(j)
    \/ \E r \in Readers, j \in Jobs : Open(r, j)
    \/ \E r \in Readers : Hand(r)
    \/ \E R \in SUBSET Readers : CutOff(R)

Spec == Init /\ [][Next]_logVars
=============================================================================
