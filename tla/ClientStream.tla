---------------------------- MODULE ClientStream ----------------------------
(***************************************************************************)
(* The client's end of a job's events (client.ts: events, streamOnce) over  *)
(* the server's (EventStream): an iterator that reattaches when its socket  *)
(* closes and skips, by counting, what it has handed out already.  One job  *)
(* and one caller; sockets drop, the server dies and starts again, and the  *)
(* retention sweep (store.py, jobs.py) takes the job's row and log, even    *)
(* while it runs, after which its events are numbered from 1 again.         *)
(***************************************************************************)
EXTENDS EventStream

CONSTANTS
    MaxReconnects,   \* the client's option
    MaxDrops,        \* sockets lost (a bound)
    MaxServerDeaths  \* restarts of the server (a bound)

\* One job and one caller, who reads one stream at a time.
ASSUME ClientAssumption ==
    /\ \E j \in Jobs : Jobs = {j}
    /\ \E r \in Readers : Readers = {r}
    /\ MaxReconnects \in Nat /\ MaxDrops \in Nat /\ MaxServerDeaths \in Nat

VARIABLES
    row,        \* the job's row is in the store
    recorded,   \* every event of the job so far, whatever became of the log
    iterator,   \* where the iterator is, its counters, and what it handed out
    losses,     \* sockets lost, server deaths among them
    deaths,
    swept       \* the retention sweep took the job once

clientVars == <<log, reading, history, replayed, queue, seen,
                row, recorded, iterator, losses, deaths, swept>>
streamVars == <<reading, history, replayed, queue, seen>>

\* The error the route answers in band when there is no such job.
Refusal == [type |-> "error"]

ClientInit ==
    /\ ReaderInit
    /\ log = [j \in Jobs |-> <<>>]
    /\ row = TRUE /\ recorded = <<>>
    /\ iterator = [at |-> "idle", seen |-> 0, delivered |-> 0, attempt |-> 0, handed |-> <<>>]
    /\ losses = 0 /\ deaths = 0 /\ swept = FALSE

-----------------------------------------------------------------------------
(* The job *)

Over == recorded # <<>> /\ IsTerminal(recorded[Len(recorded)])

Progressed == Cardinality({i \in DOMAIN recorded : IsProgress(recorded[i])})

\* The next event of the job: stored, numbered by the log there is, published.
\* The verdict is stored with the row, which comes back if it was gone.
JobEmits(j) ==
    /\ ~Over
    /\ \E e \in Verdict \cup (IF Progressed < MaxProgress
                              THEN {ProgressEvent(Progressed + 1)} ELSE {}) :
         /\ log' = [log EXCEPT ![j] = SqliteAddEvent(@, e)]
         /\ Publish(j, Len(log[j]) + 1, e)
         /\ recorded' = Append(recorded, e)
         /\ row' = (row \/ IsTerminal(e))
    /\ UNCHANGED <<reading, history, replayed, seen, iterator, losses, deaths, swept>>

\* purge_expired: by age alone; the row, the log and the live entry go.
Swept(j) ==
    /\ ~swept /\ recorded # <<>>
    /\ swept' = TRUE
    /\ row' = FALSE
    /\ log' = [log EXCEPT ![j] = <<>>]
    /\ UNCHANGED <<streamVars, recorded, iterator, losses, deaths>>

\* The server dies and starts again; a row found unfinished is failed.
ServerDies(j) ==
    /\ deaths < MaxServerDeaths
    /\ deaths' = deaths + 1
    /\ losses' = losses + 1
    /\ Detach(Readers)
    /\ IF Over THEN UNCHANGED <<log, recorded>>
       ELSE /\ recorded' = Append(recorded, StatusEvent("failed"))
            /\ log' = IF row THEN [log EXCEPT ![j] = Append(@, StatusEvent("failed"))] ELSE log
    /\ UNCHANGED <<row, iterator, swept>>

\* The socket drops; what was sent and had not arrived is lost.
SocketDrops(r) ==
    /\ losses < MaxDrops
    /\ reading[r] # NoJob
    /\ losses' = losses + 1
    /\ reading' = [reading EXCEPT ![r] = NoJob]
    /\ history' = [history EXCEPT ![r] = <<>>]
    /\ replayed' = [replayed EXCEPT ![r] = 0]
    /\ queue' = [queue EXCEPT ![r] = <<>>]
    /\ \E k \in iterator.seen..Len(seen[r]) : seen' = [seen EXCEPT ![r] = SubSeq(@, 1, k)]
    /\ UNCHANGED <<log, row, recorded, iterator, deaths, swept>>

-----------------------------------------------------------------------------
(* The iterator *)

Begin ==
    /\ iterator.at = "idle"
    /\ iterator' = [iterator EXCEPT !.at = "connecting"]
    /\ UNCHANGED <<log, streamVars, row, recorded, losses, deaths, swept>>

\* streamOnce: the route finds the job and streams it.
Connect(r, j) ==
    /\ iterator.at = "connecting" /\ row
    /\ Attach(r, j, log[j])
    /\ iterator' = [iterator EXCEPT !.at = "streaming", !.seen = 0]
    /\ UNCHANGED <<log, row, recorded, losses, deaths, swept>>

\* Counted for what the iterator has handed out, once or not at all.
Counted(n, e) ==
    IF n <= iterator.delivered THEN [iterator EXCEPT !.seen = n]
    ELSE [iterator EXCEPT !.seen = n, !.delivered = n, !.handed = Append(@, e),
             !.at = IF e # Refusal /\ IsTerminal(e) THEN "done" ELSE @]

\* The route does not find it: one event that says so, and the socket closes.
\* It counts like any other.
ConnectRefused(r) ==
    /\ iterator.at = "connecting" /\ ~row
    /\ seen' = [seen EXCEPT ![r] = <<>>]
    /\ iterator' = [Counted(1, Refusal) EXCEPT !.at = "streaming", !.seen = 0]
    /\ UNCHANGED <<log, reading, history, replayed, queue, row, recorded, losses, deaths, swept>>

\* TakeNext that hands everything out.
TakeNextUncounted(r) ==
    /\ iterator.at = "streaming" /\ iterator.seen < Len(seen[r])
    /\ LET e == seen[r][iterator.seen + 1] IN
         iterator' = [iterator EXCEPT !.seen = @ + 1, !.handed = Append(@, e),
                         !.at = IF IsTerminal(e) THEN "done" ELSE @]
    /\ UNCHANGED <<log, streamVars, row, recorded, losses, deaths, swept>>

\* One event off the socket: handed out unless it was before.  A terminal one
\* ends the iterator.
TakeNext(r) ==
    /\ iterator.at = "streaming" /\ iterator.seen < Len(seen[r])
    /\ iterator' = Counted(iterator.seen + 1, seen[r][iterator.seen + 1])
    /\ UNCHANGED <<log, streamVars, row, recorded, losses, deaths, swept>>

\* The socket closed without a terminal event: reattach, so many times in all.
Reattach(r) ==
    /\ iterator.at = "streaming" /\ reading[r] = NoJob /\ iterator.seen = Len(seen[r])
    /\ iterator' = IF iterator.attempt >= MaxReconnects THEN [iterator EXCEPT !.at = "threw"]
                   ELSE [iterator EXCEPT !.at = "connecting", !.attempt = @ + 1]
    /\ UNCHANGED <<log, streamVars, row, recorded, losses, deaths, swept>>

\* The caller aborts, or stops iterating.
Abandon ==
    /\ iterator.at \in {"connecting", "streaming"}
    /\ iterator' = [iterator EXCEPT !.at = "abandoned"]
    /\ Detach(Readers)
    /\ UNCHANGED <<log, row, recorded, losses, deaths, swept>>

ServerSends(r) ==
    /\ ReplayNext(r) \/ ReceiveNext(r)
    /\ UNCHANGED <<log, row, recorded, iterator, losses, deaths, swept>>

ClientStep(r) ==
    \/ TakeNext(r) \/ Reattach(r) \/ ConnectRefused(r) \/ ServerSends(r)
    \/ \E j \in Jobs : Connect(r, j)

ClientNext ==
    \/ Begin \/ Abandon
    \/ \E j \in Jobs : JobEmits(j) \/ Swept(j) \/ ServerDies(j)
    \/ \E r \in Readers : SocketDrops(r) \/ ClientStep(r)

\* The server and the client both go on; the job need not.
ClientFairness == \A r \in Readers : WF_clientVars(ClientStep(r))

ClientSpec == ClientInit /\ [][ClientNext]_clientVars /\ ClientFairness

-----------------------------------------------------------------------------
(* Properties *)

\* Where an event was recorded.
Place(e) == CHOOSE i \in DOMAIN recorded : recorded[i] = e

\* "Oldest first, ending after the terminal status event ... skipping events
\* already delivered" (client.ts:398): no event is handed out twice or out of
\* order, and none is left out unless the sweep took the log in between.
DeliveredOnce ==
    LET handed == iterator.handed
        events == {i \in DOMAIN handed : handed[i] # Refusal} IN
    /\ \A i, k \in events : i < k => Place(handed[i]) < Place(handed[k])
    /\ ~swept => IsPrefix(handed, recorded)

\* The iterator gives up on a job only after more sockets were lost than it may
\* reattach, or because of the sweep.
GivesUpLate == iterator.at = "threw" => losses > MaxReconnects \/ swept

ClientIsTold == ReaderOK /\ DeliveredOnce /\ GivesUpLate

\* An iterator comes to its end once the job has.  Excepted: its stream was open
\* when the sweep renumbered the events under it (store.py:753), and the server
\* drops them as old.
IteratorEnds ==
    iterator.at \in {"connecting", "streaming"} /\ Over
        ~> \/ iterator.at \in {"done", "threw", "abandoned"}
           \/ swept /\ \E r \in Readers : reading[r] # NoJob
=============================================================================
