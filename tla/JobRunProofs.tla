---------------------------- MODULE JobRunProofs ----------------------------
(***************************************************************************)
(* Theorems about JobRun for every set of jobs and readers, every pool and *)
(* every number of restarts.  The sequel of the argument:                  *)
(*                                                                         *)
(*   TypeCorrect      every variable keeps its type;                       *)
(*   DeliveryInvariant  with the SQLite store, what a reader was handed,   *)
(*                    has yet to replay and has queued is the whole log;   *)
(*   PrefixDelivered  hence what it was handed is a prefix of the log;     *)
(*   VerdictsAreFinal  a stored verdict is never rewritten;                *)
(*   EntriesAreAccounted  the live entry, the cancel event and the         *)
(*                    coroutine of a job exist together;                   *)
(*   OneVerdictAnnounced  the log announces the stored verdict, once;      *)
(*   ProgressIsFirst  with everything its solver reported ahead of it.     *)
(***************************************************************************)
EXTENDS JobRun, EventStreamProofs

USE RecordsAssumption, StreamAssumption, RunAssumption

LEMMA AddEventType ==
    ASSUME NEW s \in Seq(Event), NEW e \in Event
    PROVE  AddEvent(s, e) \in Seq(Event) /\ Len(AddEvent(s, e)) \in Nat
BY DEF AddEvent, SqliteAddEvent, MemoryAddEvent

\* Recording an event keeps the log and the readers' queues well typed.
LEMMA EmitType ==
    ASSUME StoreOK, ReaderOK, NEW j \in Jobs, NEW e \in Event, Emit(j, e)
    PROVE  /\ log' \in [Jobs -> Seq(Event)]
           /\ queue' \in [Readers -> Seq(Delivery)]
<1>1. log' \in [Jobs -> Seq(Event)]
  BY AddEventType DEF StoreOK, Emit, Publish
<1>2. Len(log'[j]) \in Nat
  BY <1>1
<1> DEFINE d == [seq |-> Len(log'[j]), event |-> e]
<1>3. d \in Delivery
  BY <1>2 DEF Delivery
<1>4. queue' = [r \in Readers |-> IF reading[r] = j THEN Append(queue[r], d) ELSE queue[r]]
  BY DEF Emit, Publish
<1> HIDE DEF d
<1>5. queue' \in [Readers -> Seq(Delivery)]
  BY <1>3, <1>4 DEF ReaderOK
<1> QED
  BY <1>1, <1>5

\* What the inductive argument adds to the types: a coroutine past its wait has
\* a verdict in the store, so what it announces is a terminal status.
VerdictStored ==
    \A j \in Jobs : run[j] \in {"draining", "closing", "retiring", "ended"}
                      => stored[j] \in Terminal

TypeInv == TypeOK /\ VerdictStored

\* A group of variables that a step leaves alone keeps its type.
LEMMA Frames ==
    /\ StoreOK  /\ UNCHANGED storeVars  => StoreOK'
    /\ MemoryOK /\ UNCHANGED memoryVars => MemoryOK'
    /\ RunOK    /\ UNCHANGED runVars    => RunOK'
    /\ ThreadOK /\ UNCHANGED threadVars => ThreadOK'
    /\ LoopOK   /\ UNCHANGED loopVars   => LoopOK'
    /\ ReaderOK /\ UNCHANGED readerVars => ReaderOK'
    /\ ServerOK /\ UNCHANGED serverVars => ServerOK'
<1>1. StoreOK /\ UNCHANGED storeVars => StoreOK'
  BY DEF StoreOK, storeVars
<1>2. MemoryOK /\ UNCHANGED memoryVars => MemoryOK'
  BY DEF MemoryOK, memoryVars
<1>3. RunOK /\ UNCHANGED runVars => RunOK'
  BY DEF RunOK, runVars
<1>4. ThreadOK /\ UNCHANGED threadVars => ThreadOK'
  BY DEF ThreadOK, threadVars
<1>5. LoopOK /\ UNCHANGED loopVars => LoopOK'
  BY DEF LoopOK, loopVars
<1>6. ReaderOK /\ UNCHANGED readerVars => ReaderOK'
  BY DEF ReaderOK, readerVars
<1>7. ServerOK /\ UNCHANGED serverVars => ServerOK'
  BY DEF ServerOK, serverVars
<1> QED
  BY <1>1, <1>2, <1>3, <1>4, <1>5, <1>6, <1>7

LEMMA InitType == Init => TypeInv
BY DEF Init, ReaderInit, TypeInv, TypeOK, StoreOK, MemoryOK, RunOK, ThreadOK, LoopOK, ReaderOK,
       ServerOK, VerdictStored, RunState, ThreadState, Status, Error

LEMMA SubmitType ==
    ASSUME TypeInv, NEW j \in Jobs, Submit(j)
    PROVE  TypeInv'
<1>1. StoreOK /\ MemoryOK /\ RunOK /\ ThreadOK /\ LoopOK /\ ReaderOK /\ ServerOK
  BY DEF TypeInv, TypeOK
<1>20. StoreOK'
  BY <1>1 DEF Submit, Start, StoreOK, Status, Unfinished
<1>21. MemoryOK'
  BY <1>1 DEF Submit, Start, MemoryOK
<1>22. RunOK'
  BY <1>1 DEF Submit, Start, RunOK, RunState
<1>23. ThreadOK' /\ LoopOK' /\ ReaderOK' /\ ServerOK'
  BY <1>1, Frames DEF Submit, Start
<1>24. VerdictStored'
  BY <1>1 DEF Submit, Start, VerdictStored, StoreOK, RunOK, TypeInv
<1> QED
  BY <1>20, <1>21, <1>22, <1>23, <1>24 DEF TypeInv, TypeOK

LEMMA CancelType ==
    ASSUME TypeInv, NEW j \in Jobs, Cancel(j)
    PROVE  TypeInv'
<1>1. StoreOK /\ MemoryOK /\ RunOK /\ ThreadOK /\ LoopOK /\ ReaderOK /\ ServerOK
  BY DEF TypeInv, TypeOK
<1>20. MemoryOK'
  BY <1>1 DEF Cancel, MemoryOK
<1>21. StoreOK' /\ RunOK' /\ ThreadOK' /\ LoopOK' /\ ReaderOK' /\ ServerOK'
  BY <1>1, Frames DEF Cancel
<1>22. VerdictStored'
  BY <1>1 DEF Cancel, VerdictStored, StoreOK, RunOK, TypeInv, storeVars, runVars
<1> QED
  BY <1>20, <1>21, <1>22 DEF TypeInv, TypeOK

LEMMA BeginRunType ==
    ASSUME TypeInv, NEW j \in Jobs, BeginRun(j)
    PROVE  TypeInv'
<1>1. StoreOK /\ MemoryOK /\ RunOK /\ ThreadOK /\ LoopOK /\ ReaderOK /\ ServerOK
  BY DEF TypeInv, TypeOK
<1>2. StatusEvent("running") \in Event /\ Emit(j, StatusEvent("running"))
  BY EventFacts DEF BeginRun
<1>3. log' \in [Jobs -> Seq(Event)] /\ queue' \in [Readers -> Seq(Delivery)]
  BY <1>1, <1>2, EmitType
<1>4. Append(pool, j) \in Seq(Jobs)
  BY <1>1 DEF ThreadOK
<1>20. StoreOK'
  BY <1>1, <1>3 DEF BeginRun, StoreOK, Status, Unfinished
<1>21. RunOK'
  BY <1>1 DEF BeginRun, RunOK, RunState, runVars
<1>22. ThreadOK'
  BY <1>1, <1>4 DEF BeginRun, ThreadOK, ThreadState
<1>23. ReaderOK'
  BY <1>1, <1>3 DEF BeginRun, ReaderOK
<1>24. MemoryOK' /\ LoopOK' /\ ServerOK'
  BY <1>1, Frames DEF BeginRun
<1>25. VerdictStored'
  BY <1>1 DEF BeginRun, VerdictStored, StoreOK, RunOK, TypeInv
<1> QED
  BY <1>20, <1>21, <1>22, <1>23, <1>24, <1>25 DEF TypeInv, TypeOK

LEMMA StartThreadType ==
    ASSUME TypeInv, NEW j \in Jobs, StartThread(j)
    PROVE  TypeInv'
<1>1. StoreOK /\ MemoryOK /\ RunOK /\ ThreadOK /\ LoopOK /\ ReaderOK /\ ServerOK
  BY DEF TypeInv, TypeOK
<1>2. Tail(pool) \in Seq(Jobs)
  BY <1>1 DEF StartThread, ThreadOK
<1>20. ThreadOK'
  BY <1>1, <1>2 DEF StartThread, ThreadOK, ThreadState
<1>21. StoreOK' /\ MemoryOK' /\ RunOK' /\ LoopOK' /\ ReaderOK' /\ ServerOK'
  BY <1>1, Frames DEF StartThread
<1>22. VerdictStored'
  BY <1>1 DEF StartThread, VerdictStored, StoreOK, RunOK, TypeInv, storeVars, runVars
<1> QED
  BY <1>20, <1>21, <1>22 DEF TypeInv, TypeOK

LEMMA ProgressType ==
    ASSUME TypeInv, NEW j \in Jobs, Progress(j)
    PROVE  TypeInv'
<1>1. StoreOK /\ MemoryOK /\ RunOK /\ ThreadOK /\ LoopOK /\ ReaderOK /\ ServerOK
  BY DEF TypeInv, TypeOK
<1>2. steps[j] + 1 \in 1..MaxProgress
  BY <1>1 DEF Progress, ThreadOK
<1>3. Append(posted[j], steps[j] + 1) \in Seq(1..MaxProgress)
  BY <1>1, <1>2 DEF LoopOK
<1>20. ThreadOK'
  BY <1>1, <1>2 DEF Progress, ThreadOK
<1>21. LoopOK'
  BY <1>1, <1>3 DEF Progress, LoopOK
<1>22. StoreOK' /\ MemoryOK' /\ RunOK' /\ ReaderOK' /\ ServerOK'
  BY <1>1, Frames DEF Progress
<1>23. VerdictStored'
  BY <1>1 DEF Progress, VerdictStored, StoreOK, RunOK, TypeInv, storeVars, runVars
<1> QED
  BY <1>20, <1>21, <1>22, <1>23 DEF TypeInv, TypeOK

LEMMA FinishThreadType ==
    ASSUME TypeInv, NEW j \in Jobs, FinishThread(j)
    PROVE  TypeInv'
<1>1. StoreOK /\ MemoryOK /\ RunOK /\ ThreadOK /\ LoopOK /\ ReaderOK /\ ServerOK
  BY DEF TypeInv, TypeOK
<1>20. ThreadOK'
  BY <1>1 DEF FinishThread, ThreadOK, ThreadState, Finished
<1>21. StoreOK' /\ MemoryOK' /\ RunOK' /\ LoopOK' /\ ReaderOK' /\ ServerOK'
  BY <1>1, Frames DEF FinishThread
<1>22. VerdictStored'
  BY <1>1 DEF FinishThread, VerdictStored, StoreOK, RunOK, TypeInv, storeVars, runVars
<1> QED
  BY <1>20, <1>21, <1>22 DEF TypeInv, TypeOK

LEMMA ScheduleType ==
    ASSUME TypeInv, NEW j \in Jobs, Schedule(j)
    PROVE  TypeInv'
<1>1. StoreOK /\ MemoryOK /\ RunOK /\ ThreadOK /\ LoopOK /\ ReaderOK /\ ServerOK
  BY DEF TypeInv, TypeOK
<1>2. /\ Append(pending[j], Head(posted[j])) \in Seq(1..MaxProgress)
      /\ Tail(posted[j]) \in Seq(1..MaxProgress)
  BY <1>1 DEF Schedule, LoopOK
<1>20. LoopOK'
  BY <1>1, <1>2 DEF Schedule, LoopOK
<1>21. StoreOK' /\ MemoryOK' /\ RunOK' /\ ThreadOK' /\ ReaderOK' /\ ServerOK'
  BY <1>1, Frames DEF Schedule
<1>22. VerdictStored'
  BY <1>1 DEF Schedule, VerdictStored, StoreOK, RunOK, TypeInv, storeVars, runVars
<1> QED
  BY <1>20, <1>21, <1>22 DEF TypeInv, TypeOK

LEMMA RunEmitType ==
    ASSUME TypeInv, NEW j \in Jobs, RunEmit(j)
    PROVE  TypeInv'
<1>1. StoreOK /\ MemoryOK /\ RunOK /\ ThreadOK /\ LoopOK /\ ReaderOK /\ ServerOK
  BY DEF TypeInv, TypeOK
<1>2. Head(pending[j]) \in 1..MaxProgress /\ Tail(pending[j]) \in Seq(1..MaxProgress)
  BY <1>1 DEF RunEmit, LoopOK
<1>3. ProgressEvent(Head(pending[j])) \in Event /\ Emit(j, ProgressEvent(Head(pending[j])))
  BY <1>2, EventFacts DEF RunEmit
<1>4. log' \in [Jobs -> Seq(Event)] /\ queue' \in [Readers -> Seq(Delivery)]
  BY <1>1, <1>3, EmitType
<1>20. StoreOK'
  BY <1>1, <1>4 DEF RunEmit, StoreOK
<1>21. RunOK'
  BY <1>1 DEF RunEmit, RunOK
<1>22. LoopOK'
  BY <1>1, <1>2 DEF RunEmit, LoopOK
<1>23. ReaderOK'
  BY <1>1, <1>4 DEF RunEmit, ReaderOK
<1>24. MemoryOK' /\ ThreadOK' /\ ServerOK'
  BY <1>1, Frames DEF RunEmit
<1>25. VerdictStored'
  BY <1>1 DEF RunEmit, VerdictStored, StoreOK, RunOK, TypeInv
<1> QED
  BY <1>20, <1>21, <1>22, <1>23, <1>24, <1>25 DEF TypeInv, TypeOK

\* Persisting a verdict keeps the row and the coroutine well typed.
LEMMA ConcludeType ==
    ASSUME StoreOK, RunOK, LoopOK, VerdictStored,
           NEW j \in Jobs, NEW s \in Terminal, NEW why \in Error,
           Conclude(j, s, why), UNCHANGED log
    PROVE  StoreOK' /\ RunOK' /\ VerdictStored'
<1>1. Len(pending[j]) \in Nat
  BY DEF LoopOK
<1>2. StoreOK'
  BY DEF Conclude, StoreOK, Status
<1>3. RunOK'
  BY <1>1 DEF Conclude, RunOK, RunState
<1>4. VerdictStored'
  BY DEF Conclude, VerdictStored, StoreOK, RunOK
<1> QED
  BY <1>2, <1>3, <1>4

LEMMA ResumeWorkType ==
    ASSUME TypeInv, NEW j \in Jobs, ResumeWork(j)
    PROVE  TypeInv'
<1>1. StoreOK /\ MemoryOK /\ RunOK /\ ThreadOK /\ LoopOK /\ ReaderOK /\ ServerOK
  BY DEF TypeInv, TypeOK
<1>2. thread[j] \in {"returned", "raised", "aborted"}
  BY DEF ResumeWork, Finished
<1>3. /\ VerdictOf(thread[j]) \in Terminal
      /\ (IF thread[j] = "raised" THEN "exception" ELSE "none") \in Error
  BY <1>2 DEF VerdictOf, Terminal, Error
<1>4. StoreOK' /\ RunOK' /\ VerdictStored'
  BY <1>1, <1>3, ConcludeType DEF ResumeWork, TypeInv
<1>20. StoreOK'
  BY <1>4
<1>21. RunOK'
  BY <1>4
<1>22. MemoryOK' /\ ThreadOK' /\ LoopOK' /\ ReaderOK' /\ ServerOK'
  BY <1>1, Frames DEF ResumeWork
<1>23. VerdictStored'
  BY <1>4
<1> QED
  BY <1>20, <1>21, <1>22, <1>23 DEF TypeInv, TypeOK

LEMMA ResumeBrokenType ==
    ASSUME TypeInv, NEW j \in Jobs, ResumeBroken(j)
    PROVE  TypeInv'
<1>1. StoreOK /\ MemoryOK /\ RunOK /\ ThreadOK /\ LoopOK /\ ReaderOK /\ ServerOK
  BY DEF TypeInv, TypeOK
<1>20. MemoryOK'
  BY <1>1 DEF ResumeBroken, MemoryOK
<1>21. RunOK'
  BY <1>1 DEF ResumeBroken, RunOK, RunState
<1>22. StoreOK' /\ ThreadOK' /\ LoopOK' /\ ReaderOK' /\ ServerOK'
  BY <1>1, Frames DEF ResumeBroken
<1>23. VerdictStored'
  BY <1>1 DEF ResumeBroken, VerdictStored, StoreOK, RunOK, TypeInv, storeVars
<1> QED
  BY <1>20, <1>21, <1>22, <1>23 DEF TypeInv, TypeOK

LEMMA ResumeTimeoutType ==
    ASSUME TypeInv, NEW j \in Jobs, ResumeTimeout(j)
    PROVE  TypeInv'
<1>1. StoreOK /\ MemoryOK /\ RunOK /\ ThreadOK /\ LoopOK /\ ReaderOK /\ ServerOK
  BY DEF TypeInv, TypeOK
<1>2. "failed" \in Terminal /\ "timeout" \in Error
  BY DEF Terminal, Error
<1>3. StoreOK' /\ RunOK' /\ VerdictStored'
  BY <1>1, <1>2, ConcludeType DEF ResumeTimeout, TypeInv
<1>20. StoreOK'
  BY <1>3
<1>21. MemoryOK'
  BY <1>1 DEF ResumeTimeout, MemoryOK
<1>22. RunOK'
  BY <1>3
<1>23. ThreadOK'
  BY <1>1 DEF ResumeTimeout, ThreadOK, ThreadState
<1>24. LoopOK' /\ ReaderOK' /\ ServerOK'
  BY <1>1, Frames DEF ResumeTimeout
<1>25. VerdictStored'
  BY <1>3
<1> QED
  BY <1>20, <1>21, <1>22, <1>23, <1>24, <1>25 DEF TypeInv, TypeOK

LEMMA DrainedType ==
    ASSUME TypeInv, NEW j \in Jobs, Drained(j)
    PROVE  TypeInv'
<1>1. StoreOK /\ MemoryOK /\ RunOK /\ ThreadOK /\ LoopOK /\ ReaderOK /\ ServerOK
  BY DEF TypeInv, TypeOK
<1>20. RunOK'
  BY <1>1 DEF Drained, RunOK, RunState
<1>21. StoreOK' /\ MemoryOK' /\ ThreadOK' /\ LoopOK' /\ ReaderOK' /\ ServerOK'
  BY <1>1, Frames DEF Drained
<1>22. VerdictStored'
  BY <1>1 DEF Drained, VerdictStored, StoreOK, RunOK, TypeInv, storeVars
<1> QED
  BY <1>20, <1>21, <1>22 DEF TypeInv, TypeOK

LEMMA EmitVerdictType ==
    ASSUME TypeInv, NEW j \in Jobs, EmitVerdict(j)
    PROVE  TypeInv'
<1>1. StoreOK /\ MemoryOK /\ RunOK /\ ThreadOK /\ LoopOK /\ ReaderOK /\ ServerOK
  BY DEF TypeInv, TypeOK
<1>2. StatusEvent(stored[j]) \in Event /\ Emit(j, StatusEvent(stored[j]))
  BY EventFacts DEF EmitVerdict, TypeInv, VerdictStored
<1>3. log' \in [Jobs -> Seq(Event)] /\ queue' \in [Readers -> Seq(Delivery)]
  BY <1>1, <1>2, EmitType
<1>20. StoreOK'
  BY <1>1, <1>3 DEF EmitVerdict, StoreOK
<1>21. RunOK'
  BY <1>1 DEF EmitVerdict, RunOK, RunState
<1>22. ReaderOK'
  BY <1>1, <1>3 DEF EmitVerdict, ReaderOK
<1>23. MemoryOK' /\ ThreadOK' /\ LoopOK' /\ ServerOK'
  BY <1>1, Frames DEF EmitVerdict
<1>24. VerdictStored'
  BY <1>1 DEF EmitVerdict, VerdictStored, StoreOK, RunOK, TypeInv
<1> QED
  BY <1>20, <1>21, <1>22, <1>23, <1>24 DEF TypeInv, TypeOK

LEMMA RetireType ==
    ASSUME TypeInv, NEW j \in Jobs, Retire(j)
    PROVE  TypeInv'
<1>1. StoreOK /\ MemoryOK /\ RunOK /\ ThreadOK /\ LoopOK /\ ReaderOK /\ ServerOK
  BY DEF TypeInv, TypeOK
<1>20. MemoryOK'
  BY <1>1 DEF Retire, MemoryOK
<1>21. RunOK'
  BY <1>1 DEF Retire, RunOK, RunState
<1>22. StoreOK' /\ ThreadOK' /\ LoopOK' /\ ReaderOK' /\ ServerOK'
  BY <1>1, Frames DEF Retire
<1>23. VerdictStored'
  BY <1>1 DEF Retire, VerdictStored, StoreOK, RunOK, TypeInv, storeVars
<1> QED
  BY <1>20, <1>21, <1>22, <1>23 DEF TypeInv, TypeOK

LEMMA OpenStreamType ==
    ASSUME TypeInv, NEW r \in Readers, NEW j \in Jobs, OpenStream(r, j)
    PROVE  TypeInv'
<1>1. StoreOK /\ MemoryOK /\ RunOK /\ ThreadOK /\ LoopOK /\ ReaderOK /\ ServerOK
  BY DEF TypeInv, TypeOK
<1>2. log[j] \in Seq(Event) /\ <<>> \in Seq(Event) /\ <<>> \in Seq(Delivery)
  BY <1>1 DEF StoreOK
<1>20. ReaderOK'
  BY <1>1, <1>2 DEF OpenStream, Attach, ReaderOK
<1>21. StoreOK' /\ MemoryOK' /\ RunOK' /\ ThreadOK' /\ LoopOK' /\ ServerOK'
  BY <1>1, Frames DEF OpenStream, Attach
<1>22. VerdictStored'
  BY <1>1 DEF OpenStream, Attach, VerdictStored, StoreOK, RunOK, TypeInv, storeVars, runVars
<1> QED
  BY <1>20, <1>21, <1>22 DEF TypeInv, TypeOK

LEMMA ReplayType ==
    ASSUME TypeInv, NEW r \in Readers, Replay(r)
    PROVE  TypeInv'
<1>1. StoreOK /\ MemoryOK /\ RunOK /\ ThreadOK /\ LoopOK /\ ReaderOK /\ ServerOK
  BY DEF TypeInv, TypeOK
<1>2. /\ Head(history[r]) \in Event /\ Tail(history[r]) \in Seq(Event)
      /\ replayed[r] + 1 \in Nat /\ queue[r] \in Seq(Delivery)
  BY <1>1 DEF Replay, ReplayNext, ReaderOK
<1>3. HandOn(r, Head(history[r]), replayed[r] + 1, Tail(history[r]), queue[r])
  BY DEF Replay, ReplayNext
<1>20. ReaderOK'
  BY <1>1, <1>2, <1>3, HandOnType
<1>21. StoreOK' /\ MemoryOK' /\ RunOK' /\ ThreadOK' /\ LoopOK' /\ ServerOK'
  BY <1>1, Frames DEF Replay, ReplayNext
<1>22. VerdictStored'
  BY <1>1 DEF Replay, ReplayNext, VerdictStored, StoreOK, RunOK, TypeInv, storeVars, runVars
<1> QED
  BY <1>20, <1>21, <1>22 DEF TypeInv, TypeOK

LEMMA ReceiveType ==
    ASSUME TypeInv, NEW r \in Readers, Receive(r)
    PROVE  TypeInv'
<1>1. StoreOK /\ MemoryOK /\ RunOK /\ ThreadOK /\ LoopOK /\ ReaderOK /\ ServerOK
  BY DEF TypeInv, TypeOK
<1> DEFINE d == Head(queue[r])
<1>2. d \in Delivery /\ Tail(queue[r]) \in Seq(Delivery)
  BY <1>1 DEF Receive, ReceiveNext, ReaderOK
<1>3. ASSUME d.seq <= replayed[r] PROVE ReaderOK'
  BY <1>1, <1>2, <1>3 DEF Receive, ReceiveNext, ReaderOK
<1>4. ASSUME ~(d.seq <= replayed[r]) PROVE ReaderOK'
  <2>1. d.event \in Event /\ d.seq \in Nat /\ <<>> \in Seq(Event)
    BY <1>2 DEF Delivery
  <2>2. HandOn(r, d.event, d.seq, <<>>, Tail(queue[r]))
    BY <1>4 DEF Receive, ReceiveNext
  <2> QED
    BY <1>1, <1>2, <2>1, <2>2, HandOnType
<1>20. ReaderOK'
  BY <1>3, <1>4
<1>21. StoreOK' /\ MemoryOK' /\ RunOK' /\ ThreadOK' /\ LoopOK' /\ ServerOK'
  BY <1>1, Frames DEF Receive, ReceiveNext
<1>22. VerdictStored'
  BY <1>1 DEF Receive, ReceiveNext, VerdictStored, StoreOK, RunOK, TypeInv, storeVars, runVars
<1> QED
  BY <1>20, <1>21, <1>22 DEF TypeInv, TypeOK

LEMMA LeaveType ==
    ASSUME TypeInv, NEW r \in Readers, Leave(r)
    PROVE  TypeInv'
<1>1. StoreOK /\ MemoryOK /\ RunOK /\ ThreadOK /\ LoopOK /\ ReaderOK /\ ServerOK
  BY DEF TypeInv, TypeOK
<1>2. <<>> \in Seq(Event) /\ <<>> \in Seq(Delivery)
  OBVIOUS
<1>20. ReaderOK'
  BY <1>1, <1>2 DEF Leave, Detach, ReaderOK
<1>21. StoreOK' /\ MemoryOK' /\ RunOK' /\ ThreadOK' /\ LoopOK' /\ ServerOK'
  BY <1>1, Frames DEF Leave, Detach
<1>22. VerdictStored'
  BY <1>1 DEF Leave, Detach, VerdictStored, StoreOK, RunOK, TypeInv, storeVars, runVars
<1> QED
  BY <1>20, <1>21, <1>22 DEF TypeInv, TypeOK

LEMMA CrashType ==
    ASSUME TypeInv, Crash
    PROVE  TypeInv'
<1>1. StoreOK /\ MemoryOK /\ RunOK /\ ThreadOK /\ LoopOK /\ ReaderOK /\ ServerOK
  BY DEF TypeInv, TypeOK
<1>2. /\ <<>> \in Seq(Event) /\ <<>> \in Seq(Delivery)
      /\ <<>> \in Seq(Jobs) /\ <<>> \in Seq(1..MaxProgress)
  OBVIOUS
<1>20. MemoryOK'
  BY DEF Crash, Detach, MemoryOK
<1>21. RunOK'
  BY <1>1 DEF Crash, Detach, RunOK, RunState
<1>22. ThreadOK'
  BY <1>1, <1>2 DEF Crash, Detach, ThreadOK, ThreadState
<1>23. LoopOK'
  BY <1>2 DEF Crash, Detach, LoopOK
<1>24. ReaderOK'
  BY <1>1, <1>2 DEF Crash, Detach, ReaderOK
<1>25. ServerOK'
  BY <1>1 DEF Crash, Detach, ServerOK
<1>26. StoreOK'
  BY <1>1, Frames DEF Crash, Detach
<1>27. VerdictStored'
  BY <1>1 DEF Crash, Detach, VerdictStored, StoreOK, RunOK, TypeInv, storeVars
<1> QED
  BY <1>20, <1>21, <1>22, <1>23, <1>24, <1>25, <1>26, <1>27 DEF TypeInv, TypeOK

LEMMA ReconcileType ==
    ASSUME TypeInv, NEW j \in Jobs, Reconcile(j)
    PROVE  TypeInv'
<1>1. StoreOK /\ MemoryOK /\ RunOK /\ ThreadOK /\ LoopOK /\ ReaderOK /\ ServerOK
  BY DEF TypeInv, TypeOK
<1>20. StoreOK'
  BY <1>1 DEF Reconcile, StoreOK, Status, Terminal, Error
<1>21. ServerOK'
  BY <1>1 DEF Reconcile, ServerOK
<1>22. MemoryOK' /\ RunOK' /\ ThreadOK' /\ LoopOK' /\ ReaderOK'
  BY <1>1, Frames DEF Reconcile
<1>23. VerdictStored'
  BY <1>1 DEF Reconcile, VerdictStored, StoreOK, RunOK, TypeInv, runVars, Terminal
<1> QED
  BY <1>20, <1>21, <1>22, <1>23 DEF TypeInv, TypeOK

LEMMA ReconcileEventType ==
    ASSUME TypeInv, NEW j \in Jobs, ReconcileEvent(j)
    PROVE  TypeInv'
<1>1. StoreOK /\ MemoryOK /\ RunOK /\ ThreadOK /\ LoopOK /\ ReaderOK /\ ServerOK
  BY DEF TypeInv, TypeOK
<1>2. StatusEvent("failed") \in Event
  BY EventFacts DEF Terminal
<1>20. StoreOK'
  BY <1>1, <1>2 DEF ReconcileEvent, StoreOK
<1>21. ServerOK'
  BY <1>1 DEF ReconcileEvent, ServerOK
<1>22. MemoryOK' /\ RunOK' /\ ThreadOK' /\ LoopOK' /\ ReaderOK'
  BY <1>1, Frames DEF ReconcileEvent
<1>23. VerdictStored'
  BY <1>1 DEF ReconcileEvent, VerdictStored, StoreOK, RunOK, TypeInv, runVars
<1> QED
  BY <1>20, <1>21, <1>22, <1>23 DEF TypeInv, TypeOK

LEMMA ServeType ==
    ASSUME TypeInv, Serve
    PROVE  TypeInv'
<1>1. StoreOK /\ MemoryOK /\ RunOK /\ ThreadOK /\ LoopOK /\ ReaderOK /\ ServerOK
  BY DEF TypeInv, TypeOK
<1>20. ServerOK'
  BY <1>1 DEF Serve, ServerOK
<1>21. StoreOK' /\ MemoryOK' /\ RunOK' /\ ThreadOK' /\ LoopOK' /\ ReaderOK'
  BY <1>1, Frames DEF Serve
<1>22. VerdictStored'
  BY <1>1 DEF Serve, VerdictStored, StoreOK, RunOK, TypeInv, storeVars, runVars
<1> QED
  BY <1>20, <1>21, <1>22 DEF TypeInv, TypeOK

LEMMA NextType == TypeInv /\ [Next]_vars => TypeInv'
<1> SUFFICES ASSUME TypeInv, [Next]_vars PROVE TypeInv'
  OBVIOUS
<1>1. ASSUME NEW j \in Jobs, Submit(j) \/ Cancel(j) \/ ThreadStep(j) PROVE TypeInv'
  BY <1>1, SubmitType, CancelType, StartThreadType, ProgressType, FinishThreadType DEF ThreadStep
<1>2. ASSUME NEW j \in Jobs, LoopStep(j) PROVE TypeInv'
  BY <1>2, BeginRunType, ScheduleType, RunEmitType, ResumeWorkType, ResumeBrokenType,
     DrainedType, EmitVerdictType, RetireType DEF LoopStep
<1>3. ASSUME NEW j \in Jobs, ResumeTimeout(j) PROVE TypeInv'
  BY <1>3, ResumeTimeoutType
<1>4. ASSUME NEW r \in Readers, StreamStep(r) \/ Leave(r) \/ \E j \in Jobs : OpenStream(r, j)
      PROVE  TypeInv'
  BY <1>4, ReplayType, ReceiveType, LeaveType, OpenStreamType DEF StreamStep
<1>5. CASE StartupStep
  BY <1>5, ServeType, ReconcileType, ReconcileEventType DEF StartupStep
<1>6. CASE Crash
  BY <1>6, CrashType
<1>7. CASE UNCHANGED vars
  <2>1. /\ UNCHANGED storeVars /\ UNCHANGED memoryVars /\ UNCHANGED runVars
        /\ UNCHANGED threadVars /\ UNCHANGED loopVars /\ UNCHANGED readerVars
        /\ UNCHANGED serverVars
    BY <1>7 DEF vars
  <2>2. TypeOK'
    BY <2>1, Frames DEF TypeInv, TypeOK
  <2>3. VerdictStored'
    BY <2>1 DEF TypeInv, VerdictStored, storeVars, runVars
  <2> QED
    BY <2>2, <2>3 DEF TypeInv
<1> QED
  BY <1>1, <1>2, <1>3, <1>4, <1>5, <1>6, <1>7 DEF Next

\* Every variable keeps its type in every reachable state, and a coroutine that
\* has concluded left a verdict in the store.
THEOREM TypeCorrect == Spec => [](TypeOK /\ VerdictStored)
<1>1. Init => TypeInv
  BY InitType
<1>2. TypeInv /\ [Next]_vars => TypeInv'
  BY NextType
<1> QED
  BY <1>1, <1>2, PTL DEF Spec, TypeInv

-----------------------------------------------------------------------------
(* Delivery *)

\* Nobody is attached while a new process reconciles what the last one left, so
\* the events it records without publishing are missed by nobody.
Unread == server = "starting" => \A r \in Readers : reading[r] = NoJob

DeliveryInv == TypeInv /\ DeliveryExact /\ Unread

\* A step that touches neither logs nor streams disturbs nothing.
LEMMA DeliveryFrame ==
    ASSUME DeliveryExact, Unread, UNCHANGED <<log, readerVars>>, server' = server
    PROVE  DeliveryExact' /\ Unread'
BY DEF DeliveryExact, Unread, readerVars

\* Recording and publishing in one step of the loop reaches every attached
\* stream of the job and no other.
LEMMA EmitDelivery ==
    ASSUME ~MirrorAliased, TypeInv, DeliveryExact, NEW j \in Jobs, NEW e \in Event,
           Emit(j, e), UNCHANGED <<reading, history, replayed, seen>>
    PROVE  DeliveryExact'
<1> SUFFICES ASSUME NEW r \in Readers, reading[r] # NoJob
             PROVE  Covers(log'[reading[r]], seen[r], history[r], replayed[r], queue'[r])
  BY DEF DeliveryExact
<1>1. StoreOK /\ ReaderOK
  BY DEF TypeInv, TypeOK
<1>2. /\ reading[r] \in Jobs /\ log[reading[r]] \in Seq(Event)
      /\ seen[r] \in Seq(Event) /\ history[r] \in Seq(Event) /\ replayed[r] \in Nat
      /\ queue[r] \in Seq(Delivery)
      /\ Covers(log[reading[r]], seen[r], history[r], replayed[r], queue[r])
  BY <1>1 DEF StoreOK, ReaderOK, DeliveryExact
<1>3. log' = [log EXCEPT ![j] = Append(@, e)]
  BY DEF Emit, Publish, AddEvent, SqliteAddEvent, MemoryAddEvent
<1>4. CASE reading[r] = j
  <2> DEFINE d == [seq |-> Len(log'[j]), event |-> e]
  <2>1. log'[j] = Append(log[j], e)
    BY <1>1, <1>3 DEF StoreOK
  <2>2. d.seq = Len(log[j]) + 1 /\ d.event = e /\ d \in Delivery
    BY <1>2, <1>4, <2>1 DEF Delivery
  <2>3. queue'[r] = Append(queue[r], d)
    BY <1>4 DEF Emit, Publish
  <2> HIDE DEF d
  <2> QED
    BY <1>2, <1>4, <2>1, <2>2, <2>3, CoversRecord, SMTT(30)
<1>5. CASE reading[r] # j
  BY <1>1, <1>2, <1>3, <1>5 DEF Emit, Publish, StoreOK
<1> QED
  BY <1>4, <1>5

\* What handing one event on does to the streams: the reader's covers the log
\* still, or has ended; the others are not touched.
LEMMA HandOnDelivery ==
    ASSUME TypeInv, DeliveryExact, Unread, NEW r \in Readers, NEW e \in Event, NEW n \in Nat,
           NEW rest \in Seq(Event), NEW feed \in Seq(Delivery),
           reading[r] # NoJob,
           Covers(log[reading[r]], Append(seen[r], e), rest, n, feed),
           HandOn(r, e, n, rest, feed), log' = log, server' = server
    PROVE  DeliveryExact' /\ Unread'
<1>1. ReaderOK
  BY DEF TypeInv, TypeOK
<1>2. \A i \in Readers \ {r} :
         /\ reading'[i] = reading[i] /\ seen'[i] = seen[i] /\ history'[i] = history[i]
         /\ replayed'[i] = replayed[i] /\ queue'[i] = queue[i]
  BY <1>1 DEF HandOn, ReaderOK
<1>3. CASE IsTerminal(e)
  <2>1. reading'[r] = NoJob
    BY <1>1, <1>3 DEF HandOn, ReaderOK
  <2> QED
    BY <1>2, <2>1 DEF DeliveryExact, Unread
<1>4. CASE ~IsTerminal(e)
  <2>1. /\ reading'[r] = reading[r] /\ seen'[r] = Append(seen[r], e)
        /\ history'[r] = rest /\ replayed'[r] = n /\ queue'[r] = feed
    BY <1>1, <1>4 DEF HandOn, ReaderOK
  <2> QED
    BY <1>2, <2>1 DEF DeliveryExact, Unread
<1> QED
  BY <1>3, <1>4

\* The two ways an event is handed on, seen from the log: it is the next one.
LEMMA ReplayHands ==
    ASSUME DeliveryInv, NEW r \in Readers, Replay(r)
    PROVE  LET e == Head(history[r]) IN
             /\ e \in Event
             /\ HandOn(r, e, replayed[r] + 1, Tail(history[r]), queue[r])
             /\ Tail(history[r]) \in Seq(Event) /\ replayed[r] + 1 \in Nat
             /\ queue[r] \in Seq(Delivery)
             /\ Covers(log[reading[r]], Append(seen[r], e), Tail(history[r]),
                       replayed[r] + 1, queue[r])
             /\ Len(seen[r]) < Len(log[reading[r]])
             /\ e = log[reading[r]][Len(seen[r]) + 1]
<1>1. StoreOK /\ ReaderOK
  BY DEF DeliveryInv, TypeInv, TypeOK
<1>2. /\ reading[r] \in Jobs /\ log[reading[r]] \in Seq(Event)
      /\ seen[r] \in Seq(Event) /\ history[r] \in Seq(Event) /\ replayed[r] \in Nat
      /\ queue[r] \in Seq(Delivery) /\ history[r] # <<>>
      /\ Covers(log[reading[r]], seen[r], history[r], replayed[r], queue[r])
  BY <1>1 DEF StoreOK, ReaderOK, DeliveryInv, DeliveryExact, Replay, ReplayNext
<1>3. Head(history[r]) \in Event /\ Tail(history[r]) \in Seq(Event) /\ replayed[r] + 1 \in Nat
  BY <1>2
<1>4. /\ Covers(log[reading[r]], Append(seen[r], Head(history[r])), Tail(history[r]),
                replayed[r] + 1, queue[r])
      /\ Len(seen[r]) < Len(log[reading[r]])
      /\ Head(history[r]) = log[reading[r]][Len(seen[r]) + 1]
  BY <1>2, CoversReplay
<1> QED
  BY <1>2, <1>3, <1>4 DEF Replay, ReplayNext

LEMMA ReceiveHands ==
    ASSUME DeliveryInv, NEW r \in Readers, Receive(r)
    PROVE  LET d == Head(queue[r]) IN
             /\ d.event \in Event /\ d.seq \in Nat
             /\ HandOn(r, d.event, d.seq, <<>>, Tail(queue[r]))
             /\ Tail(queue[r]) \in Seq(Delivery)
             /\ Covers(log[reading[r]], Append(seen[r], d.event), <<>>, d.seq, Tail(queue[r]))
             /\ Len(seen[r]) < Len(log[reading[r]])
             /\ d.event = log[reading[r]][Len(seen[r]) + 1]
<1>1. StoreOK /\ ReaderOK
  BY DEF DeliveryInv, TypeInv, TypeOK
<1>2. /\ reading[r] \in Jobs /\ log[reading[r]] \in Seq(Event)
      /\ seen[r] \in Seq(Event) /\ history[r] = <<>> /\ replayed[r] \in Nat
      /\ queue[r] \in Seq(Delivery) /\ queue[r] # <<>>
      /\ Covers(log[reading[r]], seen[r], <<>>, replayed[r], queue[r])
  BY <1>1 DEF StoreOK, ReaderOK, DeliveryInv, DeliveryExact, Receive, ReceiveNext
<1> DEFINE d == Head(queue[r])
<1>3. d \in Delivery /\ Tail(queue[r]) \in Seq(Delivery)
  BY <1>2
<1>4. d.event \in Event /\ d.seq \in Nat
  BY <1>3 DEF Delivery
<1>5. /\ d.seq = replayed[r] + 1
      /\ Covers(log[reading[r]], Append(seen[r], d.event), <<>>, d.seq, Tail(queue[r]))
      /\ Len(seen[r]) < Len(log[reading[r]])
      /\ d.event = log[reading[r]][Len(seen[r]) + 1]
  <2> DEFINE l == log[reading[r]]
             s == seen[r]
             n == replayed[r]
             q == queue[r]
  <2>1. /\ l \in Seq(Event) /\ s \in Seq(Event) /\ n \in Nat
        /\ q \in Seq(Delivery) /\ q # <<>> /\ Covers(l, s, <<>>, n, q)
    BY <1>2
  <2> HIDE DEF l, s, n, q
  <2>2. /\ Head(q).seq = n + 1
        /\ Covers(l, Append(s, Head(q).event), <<>>, Head(q).seq, Tail(q))
        /\ Len(s) < Len(l) /\ Head(q).event = l[Len(s) + 1]
    BY <2>1, CoversReceive
  <2> QED
    BY <2>2 DEF l, s, n, q
<1>6. ~(d.seq <= replayed[r])
  BY <1>2, <1>5
<1>7. HandOn(r, d.event, d.seq, <<>>, Tail(queue[r]))
  BY <1>6 DEF Receive, ReceiveNext
<1> QED
  BY <1>3, <1>4, <1>5, <1>7

LEMMA DeliveryStep ==
    ASSUME ~MirrorAliased, DeliveryInv, [Next]_vars
    PROVE  DeliveryExact' /\ Unread'
<1> USE DEF DeliveryInv
<1>1. StoreOK /\ MemoryOK /\ RunOK /\ ThreadOK /\ LoopOK /\ ReaderOK /\ ServerOK
  BY DEF TypeInv, TypeOK
<1>2. ASSUME NEW j \in Jobs,
             \/ Submit(j) \/ Cancel(j) \/ ThreadStep(j) \/ Schedule(j) \/ ResumeWork(j)
             \/ ResumeBroken(j) \/ ResumeTimeout(j) \/ Drained(j) \/ Retire(j) \/ Reconcile(j)
      PROVE  DeliveryExact' /\ Unread'
  <2>1. UNCHANGED <<log, readerVars>> /\ server' = server
    BY <1>2 DEF Submit, Start, Cancel, ThreadStep, StartThread, Progress, FinishThread, Schedule,
       ResumeWork, ResumeBroken, ResumeTimeout, Drained, Retire, Reconcile, storeVars, serverVars
  <2> QED
    BY <2>1, DeliveryFrame
<1>3. ASSUME NEW j \in Jobs, BeginRun(j) PROVE DeliveryExact' /\ Unread'
  <2>1. StatusEvent("running") \in Event
    BY EventFacts
  <2>2. DeliveryExact'
    BY <1>3, <2>1, EmitDelivery DEF BeginRun
  <2> QED
    BY <1>3, <2>2 DEF BeginRun, Unread, serverVars
<1>4. ASSUME NEW j \in Jobs, RunEmit(j) PROVE DeliveryExact' /\ Unread'
  <2>1. Head(pending[j]) \in 1..MaxProgress
    BY <1>1, <1>4 DEF RunEmit, LoopOK
  <2>2. ProgressEvent(Head(pending[j])) \in Event
    BY <2>1, EventFacts
  <2>3. DeliveryExact'
    BY <1>4, <2>2, EmitDelivery DEF RunEmit
  <2> QED
    BY <1>4, <2>3 DEF RunEmit, Unread, serverVars
<1>5. ASSUME NEW j \in Jobs, EmitVerdict(j) PROVE DeliveryExact' /\ Unread'
  <2>1. StatusEvent(stored[j]) \in Event
    BY <1>5, EventFacts DEF EmitVerdict, TypeInv, VerdictStored
  <2>2. DeliveryExact'
    BY <1>5, <2>1, EmitDelivery DEF EmitVerdict
  <2> QED
    BY <1>5, <2>2 DEF EmitVerdict, Unread, serverVars
<1>6. ASSUME NEW r \in Readers, NEW j \in Jobs, OpenStream(r, j) PROVE DeliveryExact' /\ Unread'
  <2>1. Covers(log[j], <<>>, log[j], 0, <<>>)
    BY <1>1, CoversOpen DEF StoreOK
  <2>2. DeliveryExact'
    <3> SUFFICES ASSUME NEW i \in Readers, reading'[i] # NoJob
                 PROVE  Covers(log'[reading'[i]], seen'[i], history'[i], replayed'[i], queue'[i])
      BY DEF DeliveryExact
    <3>1. CASE i = r
      BY <1>1, <1>6, <2>1, <3>1 DEF OpenStream, Attach, ReaderOK, storeVars
    <3>2. CASE i # r
      BY <1>1, <1>6, <3>2 DEF OpenStream, Attach, ReaderOK, storeVars, DeliveryExact
    <3> QED
      BY <3>1, <3>2
  <2>3. Unread'
    BY <1>6 DEF OpenStream, Attach, Serving, Unread, serverVars
  <2> QED
    BY <2>2, <2>3
<1>7. ASSUME NEW r \in Readers, Replay(r) PROVE DeliveryExact' /\ Unread'
  <2>1. reading[r] # NoJob /\ log' = log /\ server' = server
    BY <1>7 DEF Replay, ReplayNext, storeVars, serverVars
  <2> QED
    BY <1>7, <2>1, ReplayHands, HandOnDelivery
<1>8. ASSUME NEW r \in Readers, Receive(r) PROVE DeliveryExact' /\ Unread'
  <2>1. reading[r] # NoJob /\ log' = log /\ server' = server /\ <<>> \in Seq(Event)
    BY <1>8 DEF Receive, ReceiveNext, storeVars, serverVars
  <2> QED
    BY <1>8, <2>1, ReceiveHands, HandOnDelivery
<1>9. ASSUME NEW r \in Readers, Leave(r) PROVE DeliveryExact' /\ Unread'
  BY <1>1, <1>9 DEF Leave, Detach, ReaderOK, DeliveryExact, Unread, storeVars, serverVars
<1>10. CASE Crash
  BY <1>10 DEF Crash, Detach, DeliveryExact, Unread
<1>11. CASE Serve
  BY <1>11 DEF Serve, DeliveryExact, Unread, storeVars, readerVars
<1>12. ASSUME NEW j \in Jobs, ReconcileEvent(j) PROVE DeliveryExact' /\ Unread'
  BY <1>12 DEF ReconcileEvent, DeliveryExact, Unread, readerVars
<1>13. CASE UNCHANGED vars
  BY <1>13, DeliveryFrame DEF vars, storeVars, serverVars
<1> QED
  BY <1>2, <1>3, <1>4, <1>5, <1>6, <1>7, <1>8, <1>9, <1>10, <1>11, <1>12, <1>13
  DEF Next, LoopStep, StreamStep, StartupStep

LEMMA DeliveryInductive ==
    ASSUME ~MirrorAliased
    PROVE  Spec => []DeliveryInv
<1>1. Init => DeliveryInv
  BY InitType DEF Init, ReaderInit, DeliveryInv, DeliveryExact, Unread
<1>2. DeliveryInv /\ [Next]_vars => DeliveryInv'
  BY DeliveryStep, NextType DEF DeliveryInv
<1> QED
  BY <1>1, <1>2, PTL DEF Spec

\* With the SQLite store, an attached reader's replay and live feed are together
\* exactly the job's log, whatever is recorded while it replays.
THEOREM DeliveryInvariant ==
    ASSUME ~MirrorAliased
    PROVE  Spec => []DeliveryExact
<1>1. DeliveryInv => DeliveryExact
  BY DEF DeliveryInv
<1> QED
  BY <1>1, DeliveryInductive, PTL

\* What a reader was handed is a prefix of the stored log: each event once, in
\* order, none skipped.
THEOREM PrefixDelivered ==
    ASSUME ~MirrorAliased
    PROVE  Spec => []SeenIsLogPrefix
<1>1. ASSUME DeliveryInv PROVE SeenIsLogPrefix
  <2> SUFFICES ASSUME NEW r \in Readers, reading[r] # NoJob
               PROVE  IsPrefix(seen[r], log[reading[r]])
    BY DEF SeenIsLogPrefix
  <2>1. /\ seen[r] \in Seq(Event) /\ history[r] \in Seq(Event) /\ queue[r] \in Seq(Delivery)
        /\ Covers(log[reading[r]], seen[r], history[r], replayed[r], queue[r])
    BY <1>1 DEF DeliveryInv, TypeInv, TypeOK, ReaderOK, DeliveryExact
  <2>2. Len(seen[r]) \in Nat /\ Len(history[r]) \in Nat /\ Len(queue[r]) \in Nat
    BY <2>1
  <2>3. Len(log[reading[r]]) = Len(seen[r]) + Len(history[r]) + Len(queue[r])
    BY <2>1 DEF Covers
  <2>4. \A i \in 1..Len(seen[r]) : seen[r][i] = log[reading[r]][i]
    BY <2>1 DEF Covers
  <2>5. Len(seen[r]) <= Len(log[reading[r]])
    <3>1. \A a, b, c \in Nat : a <= a + b + c
      OBVIOUS
    <3> QED
      BY <2>2, <2>3, <3>1
  <2>6. DOMAIN seen[r] = 1..Len(seen[r])
    BY <2>1
  <2> QED
    BY <2>1, <2>2, <2>4, <2>5, <2>6 DEF IsPrefix
<1> QED
  BY <1>1, DeliveryInductive, PTL

-----------------------------------------------------------------------------
(* The stream implements the abstract log *)

LEMMA VerdictEvents == \A e \in Event : e \in Verdict <=> IsTerminal(e)
BY DEF Verdict

\* Handing on the next event of the log is the abstract Hand.
LEMMA HandOnImplements ==
    ASSUME ReaderOK, NEW r \in Readers, NEW e \in Event, NEW n, NEW rest, NEW feed,
           HandOn(r, e, n, rest, feed), log' = log, reading[r] # NoJob,
           Len(seen[r]) < Len(log[reading[r]]), e = log[reading[r]][Len(seen[r]) + 1]
    PROVE  Stream!Hand(r)
BY VerdictEvents DEF Stream!Hand, HandOn, ReaderOK

LEMMA EmitImplements ==
    ASSUME ~MirrorAliased, NEW j \in Jobs, NEW e \in Event, Emit(j, e),
           UNCHANGED <<reading, seen>>
    PROVE  Stream!Record(j)
BY DEF Emit, Publish, AddEvent, SqliteAddEvent, MemoryAddEvent, Stream!Record

LEMMA StepImplements ==
    ASSUME ~MirrorAliased, DeliveryInv, [Next]_vars
    PROVE  [Stream!Next]_(Stream!logVars)
<1>1. StoreOK /\ LoopOK /\ ReaderOK
  BY DEF DeliveryInv, TypeInv, TypeOK
<1>2. ASSUME NEW j \in Jobs,
             \/ Submit(j) \/ Cancel(j) \/ ThreadStep(j) \/ Schedule(j) \/ ResumeWork(j)
             \/ ResumeBroken(j) \/ ResumeTimeout(j) \/ Drained(j) \/ Retire(j) \/ Reconcile(j)
      PROVE  UNCHANGED Stream!logVars
  BY <1>2 DEF Submit, Start, Cancel, ThreadStep, StartThread, Progress, FinishThread, Schedule,
     ResumeWork, ResumeBroken, ResumeTimeout, Drained, Retire, Reconcile, storeVars,
     readerVars, Stream!logVars
<1>3. ASSUME NEW j \in Jobs, BeginRun(j) \/ RunEmit(j) \/ EmitVerdict(j) PROVE Stream!Record(j)
  <2>1. CASE BeginRun(j)
    BY <2>1, EventFacts, EmitImplements DEF BeginRun
  <2>2. CASE RunEmit(j)
    <3>1. ProgressEvent(Head(pending[j])) \in Event
      BY <1>1, <2>2, EventFacts DEF RunEmit, LoopOK
    <3> QED
      BY <2>2, <3>1, EmitImplements DEF RunEmit
  <2>3. CASE EmitVerdict(j)
    <3>1. StatusEvent(stored[j]) \in Event
      BY <2>3, EventFacts DEF EmitVerdict, DeliveryInv, TypeInv, VerdictStored
    <3> QED
      BY <2>3, <3>1, EmitImplements DEF EmitVerdict
  <2> QED
    BY <1>3, <2>1, <2>2, <2>3
<1>4. ASSUME NEW j \in Jobs, ReconcileEvent(j) PROVE Stream!Record(j)
  <2>1. StatusEvent("failed") \in Event
    BY EventFacts DEF Terminal
  <2> QED
    BY <1>4, <2>1 DEF ReconcileEvent, Stream!Record, readerVars
<1>5. ASSUME NEW r \in Readers, NEW j \in Jobs, OpenStream(r, j) PROVE Stream!Open(r, j)
  BY <1>5 DEF OpenStream, Attach, Stream!Open, storeVars
<1>6. ASSUME NEW r \in Readers, StreamStep(r) PROVE Stream!Hand(r)
  <2>1. CASE Replay(r)
    <3>1. log' = log /\ reading[r] # NoJob
      BY <2>1 DEF Replay, ReplayNext, storeVars
    <3> QED
      BY <1>1, <2>1, <3>1, ReplayHands, HandOnImplements
  <2>2. CASE Receive(r)
    <3>1. log' = log /\ reading[r] # NoJob
      BY <2>2 DEF Receive, ReceiveNext, storeVars
    <3> QED
      BY <1>1, <2>2, <3>1, ReceiveHands, HandOnImplements
  <2> QED
    BY <1>6, <2>1, <2>2 DEF StreamStep
<1>7. ASSUME NEW r \in Readers, Leave(r) PROVE Stream!CutOff({r})
  BY <1>1, <1>7 DEF Leave, Detach, Stream!CutOff, ReaderOK, storeVars
<1>8. CASE Crash
  <2>1. Stream!CutOff(Readers)
    BY <1>8 DEF Crash, Detach, Stream!CutOff, storeVars
  <2> QED
    BY <2>1 DEF Stream!Next
<1>9. CASE Serve \/ UNCHANGED vars
  BY <1>9 DEF Serve, vars, storeVars, readerVars, Stream!logVars
<1> QED
  BY <1>2, <1>3, <1>4, <1>5, <1>6, <1>7, <1>8, <1>9
  DEF Next, LoopStep, StartupStep, Stream!Next

\* The in-process event stream over the SQLite store implements the abstract
\* log: every step is a recording, an opening, the handing on of the next
\* event, a reader cut off, or a stutter.
THEOREM StreamImplementsEventLog ==
    ASSUME ~MirrorAliased
    PROVE  Spec => StreamSpec
<1>1. Init => Stream!Init
  BY DEF Init, Stream!Init, ReaderInit
<1>2. DeliveryInv /\ [Next]_vars => [Stream!Next]_(Stream!logVars)
  BY StepImplements
<1> QED
  BY <1>1, <1>2, DeliveryInductive, PTL DEF Spec, StreamSpec, Stream!Spec

-----------------------------------------------------------------------------
(* How a job ends.                                                         *)

\* Where the coroutine is says what the row holds, and a server that is
\* starting runs no coroutine.
RunHolds ==
    /\ \A j \in Jobs : /\ run[j] = "created" => stored[j] = "queued"
                       /\ run[j] = "awaiting" => stored[j] = "running"
    /\ server = "starting" => \A j \in Jobs : run[j] \in {"none", "ended", "lost"}

HoldsInv == TypeInv /\ RunHolds

\* A step that leaves a stored verdict alone.
FinalStep ==
    \A j \in Jobs : stored[j] \in Terminal => stored'[j] = stored[j] /\ error'[j] = error[j]

\* The statuses that matter here differ from each other.
LEMMA StatusFacts ==
    /\ NoRow \notin Terminal /\ NoRow \notin Unfinished
    /\ \A s \in Unfinished : s \notin Terminal
    /\ "queued" \in Unfinished /\ "running" \in Unfinished /\ "failed" \in Terminal
    /\ Unfinished = {"queued", "running"} /\ Terminal = {"done", "failed", "cancelled"}
BY DEF NoRow, Terminal, Unfinished

\* A step that touches neither the rows, the coroutines nor the server.
LEMMA HoldsFrame ==
    ASSUME HoldsInv, UNCHANGED <<stored, error, run, server>>
    PROVE  RunHolds' /\ FinalStep
BY DEF HoldsInv, RunHolds, FinalStep

\* A verdict is stored for a coroutine that was awaiting its solver.
LEMMA ConcludeHolds ==
    ASSUME HoldsInv, NEW j \in Jobs, NEW s, NEW why,
           run[j] = "awaiting", server = "up", Conclude(j, s, why), UNCHANGED server
    PROVE  RunHolds' /\ FinalStep
BY StatusFacts DEF Conclude, HoldsInv, RunHolds, FinalStep, TypeInv, TypeOK, StoreOK, RunOK

LEMMA HoldsStep ==
    ASSUME HoldsInv, [Next]_vars
    PROVE  RunHolds' /\ FinalStep
<1>0. /\ stored \in [Jobs -> Status \cup {NoRow}] /\ error \in [Jobs -> Error]
      /\ run \in [Jobs -> RunState]
  BY DEF HoldsInv, TypeInv, TypeOK, StoreOK, RunOK
<1>1. ASSUME NEW j \in Jobs, Submit(j) PROVE RunHolds' /\ FinalStep
  BY <1>0, <1>1, StatusFacts
     DEF Submit, Start, Serving, HoldsInv, RunHolds, FinalStep, serverVars
<1>2. ASSUME NEW j \in Jobs, Cancel(j) \/ ThreadStep(j) \/ Schedule(j) PROVE RunHolds' /\ FinalStep
  BY <1>2, HoldsFrame DEF Cancel, ThreadStep, StartThread, Progress, FinishThread, Schedule,
     storeVars, runVars, serverVars
<1>3. ASSUME NEW j \in Jobs, BeginRun(j) PROVE RunHolds' /\ FinalStep
  BY <1>0, <1>3, StatusFacts DEF BeginRun, Serving, HoldsInv, RunHolds, FinalStep, serverVars
<1>4. ASSUME NEW j \in Jobs, RunEmit(j) PROVE RunHolds' /\ FinalStep
  BY <1>4, HoldsFrame DEF RunEmit, serverVars
<1>5. ASSUME NEW j \in Jobs, ResumeWork(j) PROVE RunHolds' /\ FinalStep
  BY <1>5, ConcludeHolds DEF ResumeWork, Serving, serverVars
<1>6. ASSUME NEW j \in Jobs, ResumeTimeout(j) PROVE RunHolds' /\ FinalStep
  BY <1>6, ConcludeHolds DEF ResumeTimeout, Serving, serverVars
<1>7. ASSUME NEW j \in Jobs, ResumeBroken(j) \/ Drained(j) PROVE RunHolds' /\ FinalStep
  BY <1>0, <1>7 DEF ResumeBroken, Drained, Serving, HoldsInv, RunHolds, FinalStep, storeVars,
     serverVars
<1>8. ASSUME NEW j \in Jobs, EmitVerdict(j) \/ Retire(j) PROVE RunHolds' /\ FinalStep
  BY <1>0, <1>8 DEF EmitVerdict, Retire, HoldsInv, RunHolds, FinalStep, storeVars, serverVars
<1>9. ASSUME NEW r \in Readers, StreamStep(r) \/ Leave(r) \/ \E j \in Jobs : OpenStream(r, j)
      PROVE  RunHolds' /\ FinalStep
  BY <1>9, HoldsFrame DEF StreamStep, Replay, Receive, Leave, OpenStream, storeVars, runVars,
     serverVars
<1>10. CASE Crash
  BY <1>0, <1>10 DEF Crash, HoldsInv, RunHolds, FinalStep, storeVars
<1>11. ASSUME NEW j \in Jobs, Reconcile(j) PROVE RunHolds' /\ FinalStep
  BY <1>0, <1>11, StatusFacts DEF Reconcile, HoldsInv, RunHolds, FinalStep, runVars
<1>12. ASSUME NEW j \in Jobs, ReconcileEvent(j) PROVE RunHolds' /\ FinalStep
  BY <1>12, HoldsFrame DEF ReconcileEvent, runVars
<1>13. CASE Serve
  BY <1>13 DEF Serve, HoldsInv, RunHolds, FinalStep, storeVars, runVars
<1>14. CASE UNCHANGED vars
  BY <1>14, HoldsFrame DEF vars, storeVars, runVars, serverVars
<1> QED
  BY <1>1, <1>2, <1>3, <1>4, <1>5, <1>6, <1>7, <1>8, <1>9, <1>10, <1>11, <1>12, <1>13, <1>14
     DEF Next, LoopStep, StartupStep

LEMMA HoldsInductive == Spec => []HoldsInv
<1>1. Init => HoldsInv
  BY InitType DEF Init, HoldsInv, RunHolds
<1>2. HoldsInv /\ [Next]_vars => HoldsInv'
  BY HoldsStep, NextType DEF HoldsInv
<1> QED
  BY <1>1, <1>2, PTL DEF Spec

\* A verdict, once stored, is never rewritten: not by a late timer, a late
\* solver, a second cancel or the reconciliation of the next process.
THEOREM VerdictsAreFinal == Spec => VerdictIsFinal
<1>1. HoldsInv /\ [Next]_vars => [FinalStep]_vars
  BY HoldsStep
<1>2. Spec => [][FinalStep]_vars
  BY <1>1, HoldsInductive, PTL DEF Spec
<1> QED
  BY <1>2, PTL DEF VerdictIsFinal, FinalStep

-----------------------------------------------------------------------------
(* The live entry, the cancel event and the coroutine *)

\* The coroutines between start and the end of drive().
Held == {j \in Jobs : run[j] \in {"created", "awaiting", "draining", "closing", "retiring"}}

Kept ==
    /\ cancels = Held
    /\ live = Held \cup Abandoned
    /\ server = "up" => \A j \in Jobs : stored[j] \in Unfinished => j \in live

KeptInv == HoldsInv /\ Kept

LEMMA KeptFrame ==
    ASSUME KeptInv, UNCHANGED <<stored, run, live, cancels, server>>
    PROVE  Kept'
BY DEF KeptInv, Kept, Held, Abandoned

\* Storing a verdict moves the coroutine on, and keeps its entries.
LEMMA ConcludeKept ==
    ASSUME KeptInv, NEW j \in Jobs, NEW s \in Terminal, NEW why, run[j] = "awaiting",
           Conclude(j, s, why), UNCHANGED <<live, cancels, server>>
    PROVE  Kept'
<1>0. stored \in [Jobs -> Status \cup {NoRow}] /\ run \in [Jobs -> RunState]
  BY DEF KeptInv, HoldsInv, TypeInv, TypeOK, StoreOK, RunOK
<1>1. run'[j] \in {"closing", "draining"} /\ \A k \in Jobs \ {j} : run'[k] = run[k]
  BY <1>0 DEF Conclude
<1>2. Held' = Held /\ Abandoned' = Abandoned
  BY <1>1 DEF Held, Abandoned
<1> QED
  BY <1>0, <1>2, StatusFacts DEF Conclude, KeptInv, Kept

LEMMA KeptStep ==
    ASSUME KeptInv, [Next]_vars
    PROVE  Kept'
<1>0. /\ stored \in [Jobs -> Status \cup {NoRow}] /\ run \in [Jobs -> RunState]
      /\ live \subseteq Jobs /\ cancels \subseteq Jobs
  BY DEF KeptInv, HoldsInv, TypeInv, TypeOK, StoreOK, RunOK, MemoryOK
<1>1. ASSUME NEW j \in Jobs, Submit(j) PROVE Kept'
  BY <1>0, <1>1, StatusFacts DEF Submit, Start, Serving, KeptInv, Kept, Held, Abandoned, serverVars,
     HoldsInv, RunHolds, TypeInv, VerdictStored
<1>2. ASSUME NEW j \in Jobs, Cancel(j) \/ ThreadStep(j) \/ Schedule(j) PROVE Kept'
  BY <1>2, KeptFrame DEF Cancel, ThreadStep, StartThread, Progress, FinishThread, Schedule,
     storeVars, runVars, serverVars, memoryVars
<1>3. ASSUME NEW j \in Jobs, BeginRun(j) PROVE Kept'
  BY <1>0, <1>3 DEF BeginRun, Serving, KeptInv, Kept, Held, Abandoned, serverVars, memoryVars
<1>4. ASSUME NEW j \in Jobs, RunEmit(j) PROVE Kept'
  BY <1>4, KeptFrame DEF RunEmit, serverVars, memoryVars
<1>5. ASSUME NEW j \in Jobs, ResumeWork(j) PROVE Kept'
  <2>1. VerdictOf(thread[j]) \in Terminal
    BY <1>5 DEF ResumeWork, Finished, VerdictOf, Terminal
  <2> QED
    BY <1>5, <2>1, ConcludeKept DEF ResumeWork, serverVars, memoryVars
<1>6. ASSUME NEW j \in Jobs, ResumeTimeout(j) PROVE Kept'
  BY <1>6, StatusFacts, ConcludeKept DEF ResumeTimeout, serverVars
<1>7. ASSUME NEW j \in Jobs, ResumeBroken(j) PROVE Kept'
  BY <1>0, <1>7 DEF ResumeBroken, KeptInv, Kept, Held, Abandoned, storeVars, serverVars
<1>8. ASSUME NEW j \in Jobs, Drained(j) \/ EmitVerdict(j) PROVE Kept'
  BY <1>0, <1>8 DEF Drained, EmitVerdict, KeptInv, Kept, Held, Abandoned, storeVars, serverVars,
     memoryVars
<1>9. ASSUME NEW j \in Jobs, Retire(j) PROVE Kept'
  BY <1>0, <1>9, StatusFacts DEF Retire, KeptInv, Kept, Held, Abandoned, storeVars, serverVars,
     HoldsInv, TypeInv, VerdictStored
<1>10. ASSUME NEW r \in Readers, StreamStep(r) \/ Leave(r) \/ \E j \in Jobs : OpenStream(r, j)
       PROVE  Kept'
  BY <1>10, KeptFrame DEF StreamStep, Replay, Receive, Leave, OpenStream, storeVars, runVars,
     serverVars, memoryVars
<1>11. CASE Crash
  BY <1>0, <1>11 DEF Crash, KeptInv, Kept, Held, Abandoned, storeVars
<1>12. ASSUME NEW j \in Jobs, Reconcile(j) PROVE Kept'
  BY <1>0, <1>12 DEF Reconcile, KeptInv, Kept, Held, Abandoned, runVars, memoryVars
<1>13. ASSUME NEW j \in Jobs, ReconcileEvent(j) PROVE Kept'
  BY <1>13, KeptFrame DEF ReconcileEvent, runVars, memoryVars
<1>14. CASE Serve
  BY <1>14 DEF Serve, KeptInv, Kept, Held, Abandoned, storeVars, runVars, memoryVars
<1>15. CASE UNCHANGED vars
  BY <1>15, KeptFrame DEF vars, storeVars, runVars, serverVars, memoryVars
<1> QED
  BY <1>1, <1>2, <1>3, <1>4, <1>5, <1>6, <1>7, <1>8, <1>9, <1>10, <1>11, <1>12, <1>13, <1>14,
     <1>15 DEF Next, LoopStep, StartupStep

\* Between requests the live entry, the cancel event and the coroutine of a job
\* exist together or not at all, and a job without them has a verdict: the window
\* JobManager._retire says does not exist.
THEOREM EntriesAreAccounted == Spec => []Accounted
<1>1. Init => KeptInv
  BY InitType, StatusFacts DEF Init, KeptInv, Kept, Held, Abandoned, HoldsInv, RunHolds
<1>2. KeptInv /\ [Next]_vars => KeptInv'
  BY HoldsStep, NextType, KeptStep DEF HoldsInv, KeptInv
<1>3. KeptInv => Accounted
  <2> SUFFICES ASSUME KeptInv, Serving PROVE Accounted
    BY DEF Accounted
  <2>1. Held = Active
    BY DEF Held, Active, Serving, LoopFree
  <2> QED
    BY <2>1 DEF KeptInv, Kept, Accounted, Serving
<1> QED
  BY <1>1, <1>2, <1>3, PTL DEF Spec

-----------------------------------------------------------------------------
(* What the log says of the verdict *)

\* Until its terminal event is emitted a job's log has no verdict, neither the
\* coroutine's nor the reconciliation's.
Unannounced ==
    /\ \A j \in Jobs : run[j] \in {"created", "awaiting", "draining", "closing"}
                         => VerdictsIn(log[j]) = {}
    /\ fixing # NoJob => /\ server = "starting" /\ stored[fixing] = "failed"
                         /\ VerdictsIn(log[fixing]) = {}

AgreesInv == HoldsInv /\ VerdictAgrees /\ Unannounced

\* A job that is unfinished has announced nothing.
LEMMA UnfinishedIsSilent ==
    ASSUME AgreesInv, NEW j \in Jobs, stored[j] \notin Terminal
    PROVE  VerdictsIn(log[j]) = {}
BY DEF AgreesInv, VerdictAgrees, VerdictsIn, IsTerminal

LEMMA AgreesFrame ==
    ASSUME AgreesInv, UNCHANGED <<stored, log, run, fixing, server>>
    PROVE  VerdictAgrees' /\ Unannounced'
BY DEF AgreesInv, VerdictAgrees, Unannounced

\* An event that is no verdict disturbs nothing; one that is must be the first,
\* and the row's.
LEMMA RecordAgrees ==
    ASSUME AgreesInv, NEW j \in Jobs, NEW e \in Event,
           log' = [log EXCEPT ![j] = Append(@, e)], UNCHANGED <<stored>>,
           IsTerminal(e) => VerdictsIn(log[j]) = {} /\ e.status = stored[j]
    PROVE  /\ VerdictAgrees'
           /\ \A k \in Jobs : k # j \/ ~IsTerminal(e) => VerdictsIn(log'[k]) = VerdictsIn(log[k])
<1>0. log \in [Jobs -> Seq(Event)]
  BY DEF AgreesInv, HoldsInv, TypeInv, TypeOK, StoreOK
<1>1. /\ log'[j] = Append(log[j], e)
      /\ \A k \in Jobs \ {j} : log'[k] = log[k]
  BY <1>0
<1>2. /\ VerdictsIn(log'[j]) = VerdictsIn(log[j]) \cup (IF IsTerminal(e) THEN {Len(log[j]) + 1} ELSE {})
      /\ \A i \in VerdictsIn(log[j]) : log'[j][i] = log[j][i]
      /\ log'[j][Len(log[j]) + 1] = e
  <2>1. log[j] \in Seq(Event)
    BY <1>0
  <2>2. Append(log[j], e)[Len(log[j]) + 1] = e
    BY <2>1
  <2> DEFINE l == Append(log[j], e)
  <2>3. /\ VerdictsIn(l) = VerdictsIn(log[j]) \cup (IF IsTerminal(e) THEN {Len(log[j]) + 1} ELSE {})
        /\ \A i \in VerdictsIn(log[j]) : l[i] = log[j][i]
    BY <2>1, VerdictsInAppend
  <2>4. log'[j] = l /\ l[Len(log[j]) + 1] = e
    BY <1>1, <2>2
  <2> HIDE DEF l
  <2> QED
    BY <2>3, <2>4
<1>3. \A k \in Jobs : k # j \/ ~IsTerminal(e) => VerdictsIn(log'[k]) = VerdictsIn(log[k])
  BY <1>1, <1>2
<1>4. ASSUME NEW k \in Jobs, NEW i \in VerdictsIn(log'[k])
      PROVE  log'[k][i].status = stored[k] /\ VerdictsIn(log'[k]) = {i}
  <2>1. CASE k # j \/ ~IsTerminal(e)
    <3>1. VerdictsIn(log'[k]) = VerdictsIn(log[k]) /\ i \in VerdictsIn(log[k])
      BY <1>3, <1>4, <2>1
    <3>2. log'[k][i] = log[k][i]
      BY <1>1, <1>2, <3>1
    <3> QED
      BY <3>1, <3>2 DEF AgreesInv, VerdictAgrees
  <2>2. CASE k = j /\ IsTerminal(e)
    <3>1. VerdictsIn(log[j]) = {} /\ e.status = stored[j]
      BY <2>2
    <3>2. VerdictsIn(log'[j]) = {Len(log[j]) + 1}
      BY <1>2, <2>2, <3>1
    <3>3. i = Len(log[j]) + 1
      BY <1>4, <2>2, <3>2
    <3> QED
      BY <1>2, <2>2, <3>1, <3>2, <3>3
  <2> QED
    BY <2>1, <2>2
<1> QED
  BY <1>3, <1>4 DEF VerdictAgrees

\* Storing a verdict where none was announced.
LEMMA StoreAgrees ==
    ASSUME AgreesInv, NEW j \in Jobs, NEW s,
           stored[j] \notin Terminal, stored' = [stored EXCEPT ![j] = s], UNCHANGED log
    PROVE  VerdictAgrees'
BY UnfinishedIsSilent DEF AgreesInv, HoldsInv, TypeInv, TypeOK, StoreOK, VerdictAgrees

LEMMA AgreesStep ==
    ASSUME AgreesInv, [Next]_vars, ~MirrorAliased
    PROVE  VerdictAgrees' /\ Unannounced'
<1>0. /\ stored \in [Jobs -> Status \cup {NoRow}] /\ run \in [Jobs -> RunState]
      /\ log \in [Jobs -> Seq(Event)] /\ pending \in [Jobs -> Seq(1..MaxProgress)]
  BY DEF AgreesInv, HoldsInv, TypeInv, TypeOK, StoreOK, RunOK, LoopOK
<1>1. ASSUME NEW j \in Jobs, Submit(j) PROVE VerdictAgrees' /\ Unannounced'
  <2>1. VerdictsIn(log[j]) = {} /\ VerdictAgrees'
    BY <1>1, StatusFacts, UnfinishedIsSilent, StoreAgrees DEF Submit
  <2> QED
    BY <1>0, <1>1, <2>1, StatusFacts
       DEF Submit, Start, Serving, AgreesInv, Unannounced, serverVars
<1>2. ASSUME NEW j \in Jobs, Cancel(j) \/ ThreadStep(j) \/ Schedule(j)
      PROVE  VerdictAgrees' /\ Unannounced'
  BY <1>2, AgreesFrame DEF Cancel, ThreadStep, StartThread, Progress, FinishThread, Schedule,
     storeVars, runVars, serverVars
<1>3. ASSUME NEW j \in Jobs, BeginRun(j) PROVE VerdictAgrees' /\ Unannounced'
  <2> DEFINE e == StatusEvent("running")
  <2>1. e \in Event /\ ~IsTerminal(e) /\ log' = [log EXCEPT ![j] = Append(@, e)]
    BY <1>3, EventFacts DEF BeginRun, Emit, AddEvent, SqliteAddEvent, StatusEvent, IsTerminal, Terminal
  <2> HIDE DEF e
  <2>2. /\ VerdictsIn(log'[j]) = VerdictsIn(log[j]) \cup {}
        /\ \A k \in Jobs \ {j} : log'[k] = log[k]
        /\ VerdictsIn(log[j]) = {}
    BY <1>0, <1>3, <2>1, VerdictsInAppend DEF BeginRun, AgreesInv, Unannounced
  <2>3. VerdictAgrees'
    BY <1>0, <1>3, <2>2 DEF BeginRun, AgreesInv, VerdictAgrees
  <2>4. Unannounced'
    BY <1>0, <1>3, <2>2 DEF BeginRun, Serving, AgreesInv, Unannounced, serverVars
  <2> QED
    BY <2>3, <2>4
<1>4. ASSUME NEW j \in Jobs, RunEmit(j) PROVE VerdictAgrees' /\ Unannounced'
  <2> DEFINE e == ProgressEvent(Head(pending[j]))
  <2>1. e \in Event
    BY <1>0, <1>4, EventFacts DEF RunEmit
  <2>2. ~IsTerminal(e) /\ log' = [log EXCEPT ![j] = Append(@, e)]
    BY <1>4 DEF RunEmit, Emit, AddEvent, SqliteAddEvent, ProgressEvent, IsTerminal, IsStatus
  <2> HIDE DEF e
  <2>3. VerdictAgrees' /\ \A k \in Jobs : VerdictsIn(log'[k]) = VerdictsIn(log[k])
    BY <1>4, <2>1, <2>2, RecordAgrees DEF RunEmit
  <2>4. UNCHANGED <<run, fixing, server, stored>>
    BY <1>4 DEF RunEmit, serverVars
  <2> QED
    BY <2>3, <2>4 DEF AgreesInv, Unannounced, HoldsInv, TypeInv, TypeOK, ServerOK
<1>5. ASSUME NEW j \in Jobs, NEW s, NEW why, run[j] = "awaiting", server = "up",
             Conclude(j, s, why), UNCHANGED <<log, server, fixing>>
      PROVE  VerdictAgrees' /\ Unannounced'
  <2>1. stored[j] = "running"
    BY <1>5 DEF AgreesInv, HoldsInv, RunHolds
  <2>2. VerdictAgrees' /\ VerdictsIn(log[j]) = {}
    BY <1>5, <2>1, StatusFacts, StoreAgrees, UnfinishedIsSilent DEF Conclude
  <2> QED
    BY <1>0, <1>5, <2>2 DEF Conclude, AgreesInv, Unannounced
<1>6. ASSUME NEW j \in Jobs, ResumeWork(j) \/ ResumeTimeout(j) PROVE VerdictAgrees' /\ Unannounced'
  BY <1>5, <1>6 DEF ResumeWork, ResumeTimeout, Serving, serverVars
<1>7. ASSUME NEW j \in Jobs, ResumeBroken(j) \/ Drained(j) \/ Retire(j)
      PROVE  VerdictAgrees' /\ Unannounced'
  BY <1>0, <1>7, ZenonT(40) DEF ResumeBroken, Drained, Retire, AgreesInv, VerdictAgrees, Unannounced, storeVars,
     serverVars
<1>8. ASSUME NEW j \in Jobs, EmitVerdict(j) PROVE VerdictAgrees' /\ Unannounced'
  <2> DEFINE e == StatusEvent(stored[j])
  <2>1. e \in Event
    BY <1>8, EventFacts DEF EmitVerdict, AgreesInv, HoldsInv, TypeInv, VerdictStored
  <2>2. e.status = stored[j] /\ log' = [log EXCEPT ![j] = Append(@, e)]
    BY <1>8 DEF EmitVerdict, Emit, AddEvent, SqliteAddEvent, StatusEvent
  <2> HIDE DEF e
  <2>3. VerdictsIn(log[j]) = {} /\ server = "up"
    BY <1>0, <1>8 DEF EmitVerdict, AgreesInv, Unannounced, HoldsInv, RunHolds, TypeInv, TypeOK, ServerOK
  <2>4. VerdictAgrees' /\ \A k \in Jobs \ {j} : VerdictsIn(log'[k]) = VerdictsIn(log[k])
    BY <1>8, <2>1, <2>2, <2>3, RecordAgrees DEF EmitVerdict
  <2>5. UNCHANGED <<fixing, server, stored>> /\ run' = [run EXCEPT ![j] = "retiring"]
    BY <1>8 DEF EmitVerdict, serverVars
  <2> QED
    BY <1>0, <2>3, <2>4, <2>5 DEF AgreesInv, Unannounced
<1>9. ASSUME NEW r \in Readers, StreamStep(r) \/ Leave(r) \/ \E j \in Jobs : OpenStream(r, j)
      PROVE  VerdictAgrees' /\ Unannounced'
  BY <1>9, AgreesFrame DEF StreamStep, Replay, Receive, Leave, OpenStream, storeVars, runVars,
     serverVars
<1>10. CASE Crash
  BY <1>0, <1>10 DEF Crash, AgreesInv, VerdictAgrees, Unannounced, storeVars
<1>11. ASSUME NEW j \in Jobs, Reconcile(j) PROVE VerdictAgrees' /\ Unannounced'
  <2>1. stored[j] \notin Terminal
    BY <1>11, StatusFacts DEF Reconcile
  <2>2. VerdictAgrees' /\ VerdictsIn(log[j]) = {}
    BY <1>11, <2>1, StoreAgrees, UnfinishedIsSilent DEF Reconcile
  <2> QED
    BY <1>0, <1>11, <2>2 DEF Reconcile, AgreesInv, Unannounced, runVars
<1>12. ASSUME NEW j \in Jobs, ReconcileEvent(j) PROVE VerdictAgrees' /\ Unannounced'
  <2> DEFINE e == StatusEvent("failed")
  <2>1. e \in Event
    BY EventFacts, StatusFacts
  <2>2. e.status = "failed" /\ log' = [log EXCEPT ![j] = Append(@, e)]
    BY <1>12 DEF ReconcileEvent, StatusEvent
  <2> HIDE DEF e
  <2>3. VerdictsIn(log[j]) = {} /\ stored[j] = "failed" /\ run[j] \in {"none", "ended", "lost"}
    BY <1>12 DEF ReconcileEvent, AgreesInv, Unannounced, HoldsInv, RunHolds
  <2>5. UNCHANGED stored
    BY <1>12 DEF ReconcileEvent
  <2>4. VerdictAgrees' /\ \A k \in Jobs \ {j} : VerdictsIn(log'[k]) = VerdictsIn(log[k])
    BY <2>1, <2>2, <2>3, <2>5, RecordAgrees
  <2> QED
    BY <1>0, <1>12, <2>3, <2>4 DEF ReconcileEvent, AgreesInv, Unannounced, runVars
<1>13. CASE Serve
  BY <1>13 DEF Serve, AgreesInv, VerdictAgrees, Unannounced, storeVars, runVars
<1>14. CASE UNCHANGED vars
  BY <1>14, AgreesFrame DEF vars, storeVars, runVars, serverVars
<1> QED
  BY <1>1, <1>2, <1>3, <1>4, <1>6, <1>7, <1>8, <1>9, <1>10, <1>11, <1>12, <1>13, <1>14
     DEF Next, LoopStep, StartupStep

LEMMA AgreesInductive ==
    ASSUME ~MirrorAliased
    PROVE  Spec => []AgreesInv
<1>1. Init => AgreesInv
  BY InitType DEF Init, AgreesInv, VerdictAgrees, VerdictsIn, Unannounced, HoldsInv, RunHolds
<1>2. AgreesInv /\ [Next]_vars => AgreesInv'
  BY AgreesStep, HoldsStep, NextType DEF AgreesInv, HoldsInv
<1> QED
  BY <1>1, <1>2, PTL DEF Spec

\* The log announces at most one verdict, and it is the one in the row, whoever
\* decides the job and however often the process dies (the SQLite store).
THEOREM OneVerdictAnnounced ==
    ASSUME ~MirrorAliased
    PROVE  Spec => []VerdictAgrees
<1>1. AgreesInv => VerdictAgrees
  BY DEF AgreesInv
<1> QED
  BY <1>1, AgreesInductive, PTL

-----------------------------------------------------------------------------
(* Progress comes before the verdict *)

\* What the solver of a job has reported, wherever it has got to.
Underway(j) ==
    ProgressUpTo(log[j], Len(log[j])) \cup Range(pending[j]) \cup Range(posted[j])

\* Decided by what its solver did, neither by the timer nor by a restart.
BySolver(j) == error[j] \in {"none", "exception"}

Decided(j) == BySolver(j) /\ run[j] \in {"draining", "closing", "retiring", "ended"}

\* Until the solver is done everything it reported is in the log or on its way
\* there; the gather counts what is still on its way when the verdict is stored.
FlowOf(j) ==
    /\ stored[j] = NoRow => run[j] = "none"
    /\ run[j] = "broken" => stored[j] = "running"
    /\ run[j] \in {"none", "created", "lost"} =>
         posted[j] = <<>> /\ pending[j] = <<>> /\ thread[j] = "none"
    /\ run[j] \in {"none", "created", "awaiting"} => Underway(j) = 1..steps[j]
    /\ Decided(j) =>
         /\ posted[j] = <<>> /\ thread[j] \in Finished \cup {"none"}
         /\ left[j] = Len(pending[j])
         /\ VerdictsIn(log[j]) = {} => Underway(j) = 1..steps[j]
    /\ Decided(j) /\ run[j] # "draining" => pending[j] = <<>>
    /\ BySolver(j) => \A i \in VerdictsIn(log[j]) : ProgressUpTo(log[j], i) = 1..steps[j]

Flow ==
    /\ \A j \in Jobs : FlowOf(j)
    /\ fixing # NoJob => error[fixing] = "restart"

FlowInv == AgreesInv /\ Flow

\* A job of which a step changes nothing.
LEMMA FlowFrame ==
    ASSUME NEW k \in Jobs, FlowOf(k),
           stored'[k] = stored[k], error'[k] = error[k], log'[k] = log[k], run'[k] = run[k],
           left'[k] = left[k], thread'[k] = thread[k], steps'[k] = steps[k],
           posted'[k] = posted[k], pending'[k] = pending[k]
    PROVE  FlowOf(k)'
BY DEF FlowOf, Decided, BySolver, Underway

\* A solver that is at work has announced nothing of its job, unless the timer or
\* a restart decided it.
LEMMA AtWorkIsSilent ==
    ASSUME FlowInv, NEW j \in Jobs, BySolver(j), thread[j] \notin Finished \cup {"none"}
    PROVE  VerdictsIn(log[j]) = {}
<1>1. run[j] \in RunState /\ FlowOf(j)
  BY DEF FlowInv, Flow, AgreesInv, HoldsInv, TypeInv, TypeOK, RunOK
<1>2. run[j] \in {"awaiting", "broken"}
  BY <1>1 DEF FlowOf, Decided, RunState
<1>3. stored[j] = "running"
  BY <1>1, <1>2 DEF FlowOf, FlowInv, AgreesInv, HoldsInv, RunHolds
<1> QED
  BY <1>3, StatusFacts, UnfinishedIsSilent DEF FlowInv

LEMMA Types ==
    ASSUME FlowInv
    PROVE  /\ stored \in [Jobs -> Status \cup {NoRow}] /\ error \in [Jobs -> Error]
           /\ log \in [Jobs -> Seq(Event)]
           /\ run \in [Jobs -> RunState] /\ left \in [Jobs -> Nat]
           /\ thread \in [Jobs -> ThreadState] /\ steps \in [Jobs -> 0..MaxProgress]
           /\ posted \in [Jobs -> Seq(1..MaxProgress)]
           /\ pending \in [Jobs -> Seq(1..MaxProgress)]
BY DEF FlowInv, AgreesInv, HoldsInv, TypeInv, TypeOK, StoreOK, RunOK, ThreadOK, LoopOK

LEMMA SubmitFlow ==
    ASSUME FlowInv, NEW j \in Jobs, Submit(j)
    PROVE  Flow'
<1>1. FlowOf(j)'
  BY Types, StatusFacts
     DEF Submit, Start, FlowInv, Flow, FlowOf, Decided, BySolver, Underway, threadVars, loopVars
<1>2. \A k \in Jobs \ {j} : FlowOf(k)'
  BY Types, FlowFrame DEF Submit, Start, FlowInv, Flow, threadVars, loopVars
<1> QED
  BY <1>1, <1>2 DEF Submit, FlowInv, Flow, serverVars

LEMMA BeginRunFlow ==
    ASSUME FlowInv, NEW j \in Jobs, BeginRun(j), ~MirrorAliased
    PROVE  Flow'
<1> DEFINE e == StatusEvent("running")
           l == Append(log[j], e)
<1>1. /\ e \in Event /\ ~IsTerminal(e) /\ ~IsProgress(e) /\ log'[j] = l
      /\ \A k \in Jobs \ {j} : log'[k] = log[k]
  BY Types, EventFacts
     DEF BeginRun, Emit, AddEvent, SqliteAddEvent, StatusEvent, IsTerminal, IsProgress, Terminal
<1>2. log[j] \in Seq(Event) /\ VerdictsIn(log[j]) = {}
  BY Types DEF BeginRun, FlowInv, AgreesInv, Unannounced
<1>3. VerdictsIn(l) = {}
  BY <1>1, <1>2, VerdictsInAppend
<1>4. ProgressUpTo(l, Len(log[j]) + 1) = ProgressUpTo(log[j], Len(log[j]))
  BY <1>1, <1>2, SaidNow
<1>5. Len(l) = Len(log[j]) + 1
  BY <1>2
<1> HIDE DEF l, e
<1>6. Underway(j)' = Underway(j)
  BY <1>1, <1>4, <1>5 DEF BeginRun, Underway, loopVars
<1>7. FlowOf(j)'
  BY <1>1, <1>3, <1>6, Types
     DEF BeginRun, FlowInv, Flow, FlowOf, Decided, BySolver, NoRow, loopVars
<1>8. \A k \in Jobs \ {j} : FlowOf(k)'
  BY <1>1, Types, FlowFrame DEF BeginRun, FlowInv, Flow, loopVars
<1> QED
  BY <1>7, <1>8 DEF BeginRun, FlowInv, Flow, serverVars

LEMMA ThreadFlow ==
    ASSUME FlowInv, NEW j \in Jobs, StartThread(j) \/ FinishThread(j)
    PROVE  Flow'
<1>1. FlowOf(j)'
  <2>1. /\ thread[j] \in {"waiting", "solving"} \/ thread'[j] = thread[j]
        /\ thread[j] = "none" => thread'[j] = "none"
        /\ FlowOf(j)
        /\ UNCHANGED <<stored, error, log, run, left, steps, posted, pending>>
    BY Types DEF StartThread, FinishThread, FlowInv, Flow, storeVars, runVars, loopVars
  <2>2. UNCHANGED <<Underway(j), VerdictsIn(log[j])>>
    BY <2>1 DEF Underway
  <2>3. Decided(j)' => Decided(j) /\ thread'[j] = thread[j]
    BY <2>1 DEF Decided, BySolver, FlowOf, Finished
  <2>4. run'[j] \in {"none", "created", "lost"} => thread'[j] = "none"
    BY <2>1 DEF FlowOf
  <2> QED
    BY <2>1, <2>2, <2>3, <2>4 DEF FlowOf, Decided, BySolver
<1>2. \A k \in Jobs \ {j} : FlowOf(k)'
  BY Types, FlowFrame DEF StartThread, FinishThread, FlowInv, Flow, storeVars, runVars, loopVars
<1> QED
  BY <1>1, <1>2 DEF StartThread, FinishThread, FlowInv, Flow, serverVars, storeVars

LEMMA ProgressFlow ==
    ASSUME FlowInv, NEW j \in Jobs, Progress(j)
    PROVE  Flow'
<1>1. /\ thread[j] = "solving" /\ steps[j] \in 0..MaxProgress /\ steps'[j] = steps[j] + 1
      /\ posted[j] \in Seq(1..MaxProgress) /\ posted'[j] = Append(posted[j], steps[j] + 1)
      /\ steps[j] + 1 \in 1..MaxProgress /\ FlowOf(j)
      /\ UNCHANGED <<stored, error, log, run, left, thread, pending, fixing>>
  BY Types DEF Progress, FlowInv, Flow, storeVars, runVars, serverVars
<1>2. BySolver(j) => VerdictsIn(log[j]) = {}
  BY <1>1, AtWorkIsSilent DEF Finished
<1>3. Range(posted'[j]) = Range(posted[j]) \cup {steps[j] + 1}
  BY <1>1, RangeAppend
<1>4. 1..steps'[j] = (1..steps[j]) \cup {steps[j] + 1}
  BY <1>1
<1>5. Underway(j)' = Underway(j) \cup {steps[j] + 1}
  BY <1>1, <1>3 DEF Underway
<1>6. run[j] \notin {"none", "created", "lost"} /\ ~Decided(j)
  BY <1>1 DEF FlowOf, Finished
<1>7. FlowOf(j)'
  BY <1>1, <1>2, <1>4, <1>5, <1>6 DEF FlowOf, Decided, BySolver
<1>8. \A k \in Jobs \ {j} : FlowOf(k)'
  BY Types, FlowFrame DEF Progress, FlowInv, Flow, storeVars, runVars
<1> QED
  BY <1>1, <1>7, <1>8 DEF FlowInv, Flow

LEMMA ScheduleFlow ==
    ASSUME FlowInv, NEW j \in Jobs, Schedule(j)
    PROVE  Flow'
<1>1. /\ posted[j] \in Seq(1..MaxProgress) /\ posted[j] # <<>> /\ posted'[j] = Tail(posted[j])
      /\ pending[j] \in Seq(1..MaxProgress) /\ pending'[j] = Append(pending[j], Head(posted[j]))
      /\ FlowOf(j)
      /\ UNCHANGED <<stored, error, log, run, left, thread, steps, fixing>>
  BY Types DEF Schedule, FlowInv, Flow, storeVars, runVars, threadVars, serverVars
<1>2. Head(posted[j]) \in 1..MaxProgress
  BY <1>1
<1>3. /\ Range(posted[j]) = {Head(posted[j])} \cup Range(posted'[j])
      /\ Range(pending'[j]) = Range(pending[j]) \cup {Head(posted[j])}
  BY <1>1, <1>2, RangeAppend, RangeHeadTail
<1>4. Underway(j)' = Underway(j)
  BY <1>1, <1>3 DEF Underway
<1>5. FlowOf(j)'
  BY <1>1, <1>4 DEF FlowOf, Decided, BySolver
<1>6. \A k \in Jobs \ {j} : FlowOf(k)'
  BY Types, FlowFrame DEF Schedule, FlowInv, Flow, storeVars, runVars, threadVars
<1> QED
  BY <1>1, <1>5, <1>6 DEF FlowInv, Flow

LEMMA RunEmitFlow ==
    ASSUME FlowInv, NEW j \in Jobs, RunEmit(j), ~MirrorAliased
    PROVE  Flow'
<1> DEFINE e == ProgressEvent(Head(pending[j]))
           l == Append(log[j], e)
<1>1. /\ pending[j] \in Seq(1..MaxProgress) /\ pending[j] # <<>>
      /\ pending'[j] = Tail(pending[j]) /\ log[j] \in Seq(Event)
      /\ left[j] \in Nat /\ left'[j] = IF left[j] > 0 THEN left[j] - 1 ELSE 0
      /\ FlowOf(j)
      /\ UNCHANGED <<stored, error, run, thread, steps, posted, fixing>>
  BY Types DEF RunEmit, FlowInv, Flow, threadVars, serverVars
<1>2. Head(pending[j]) \in 1..MaxProgress
  BY <1>1
<1>3. /\ e \in Event /\ ~IsTerminal(e) /\ IsProgress(e) /\ e.iteration = Head(pending[j])
  BY <1>2, EventFacts DEF ProgressEvent, IsTerminal, IsStatus, IsProgress
<1>4. log'[j] = l /\ \A k \in Jobs \ {j} : log'[k] = log[k]
  BY Types DEF RunEmit, Emit, AddEvent, SqliteAddEvent
<1> HIDE DEF e
<1>13. log[j] \in Seq(Event) /\ e \in Event
  BY <1>1, <1>3
<1>5. VerdictsIn(l) = VerdictsIn(log[j])
  <2>1. VerdictsIn(l) = VerdictsIn(log[j]) \cup (IF IsTerminal(e) THEN {Len(log[j]) + 1} ELSE {})
    BY <1>13, VerdictsInAppend
  <2> QED
    BY <1>3, <2>1
<1>6. /\ ProgressUpTo(l, Len(log[j]) + 1) = ProgressUpTo(log[j], Len(log[j])) \cup {Head(pending[j])}
      /\ Len(l) = Len(log[j]) + 1
  <2>1. ProgressUpTo(l, Len(log[j]) + 1) =
          ProgressUpTo(log[j], Len(log[j])) \cup (IF IsProgress(e) THEN {e.iteration} ELSE {})
    BY <1>13, SaidNow
  <2>2. Len(l) = Len(log[j]) + 1
    BY <1>13
  <2> QED
    BY <1>3, <2>1, <2>2
<1>7. \A i \in VerdictsIn(log[j]) : ProgressUpTo(l, i) = ProgressUpTo(log[j], i)
  BY <1>1, <1>3, SaidBefore DEF VerdictsIn
<1>8. Range(pending[j]) = {Head(pending[j])} \cup Range(pending'[j])
  BY <1>1, RangeHeadTail
<1> HIDE DEF l
<1>9. Underway(j)' = Underway(j)
  BY <1>1, <1>4, <1>6, <1>8 DEF Underway
<1>10. Len(pending'[j]) = Len(pending[j]) - 1 /\ Len(pending[j]) > 0
  BY <1>1
<1>11. FlowOf(j)'
  BY <1>1, <1>4, <1>5, <1>7, <1>9, <1>10 DEF FlowOf, Decided, BySolver
<1>12. \A k \in Jobs \ {j} : FlowOf(k)'
  BY <1>4, Types, FlowFrame DEF RunEmit, FlowInv, Flow, threadVars
<1> QED
  BY <1>1, <1>11, <1>12 DEF FlowInv, Flow

\* Storing what the timer decided, or what the solver did.
LEMMA ConcludeFlow ==
    ASSUME FlowInv, NEW j \in Jobs, NEW s \in Terminal, NEW why \in Error,
           run[j] = "awaiting", server = "up", Conclude(j, s, why),
           UNCHANGED <<log, steps, posted, pending, server, fixing>>,
           \A k \in Jobs \ {j} : thread'[k] = thread[k],
           why \in {"none", "exception"} =>
             posted[j] = <<>> /\ thread[j] \in Finished /\ thread'[j] = thread[j]
    PROVE  Flow'
<1>1. /\ stored'[j] = s /\ error'[j] = why /\ left'[j] = Len(pending[j])
      /\ run'[j] = IF pending[j] = <<>> THEN "closing" ELSE "draining"
      /\ \A k \in Jobs \ {j} : /\ stored'[k] = stored[k] /\ error'[k] = error[k]
                                /\ left'[k] = left[k] /\ run'[k] = run[k]
  BY Types DEF Conclude
<1>2. VerdictsIn(log[j]) = {} /\ Underway(j) = 1..steps[j] /\ fixing = NoJob
  BY DEF FlowInv, Flow, FlowOf, AgreesInv, Unannounced
<1>3. Underway(j)' = Underway(j)
  BY DEF Underway
<1>4. FlowOf(j)'
  BY <1>1, <1>2, <1>3, StatusFacts DEF FlowOf, Decided, BySolver
<1>5. \A k \in Jobs \ {j} : FlowOf(k)'
  BY <1>1, FlowFrame DEF FlowInv, Flow
<1> QED
  BY <1>2, <1>4, <1>5 DEF Flow

LEMMA ResumeFlow ==
    ASSUME FlowInv, NEW j \in Jobs, ResumeWork(j) \/ ResumeTimeout(j)
    PROVE  Flow'
<1>1. CASE ResumeWork(j)
  <2> DEFINE why == IF thread[j] = "raised" THEN "exception" ELSE "none"
  <2>1. VerdictOf(thread[j]) \in Terminal /\ why \in Error /\ why \in {"none", "exception"}
    BY <1>1 DEF ResumeWork, Finished, VerdictOf, Terminal, Error
  <2>2. /\ run[j] = "awaiting" /\ server = "up" /\ posted[j] = <<>> /\ thread[j] \in Finished
        /\ Conclude(j, VerdictOf(thread[j]), why)
        /\ UNCHANGED <<log, steps, posted, pending, server, fixing, thread>>
    BY <1>1 DEF ResumeWork, Serving, threadVars, loopVars, serverVars
  <2> HIDE DEF why
  <2> QED
    BY <2>1, <2>2, ConcludeFlow
<1>2. CASE ResumeTimeout(j)
  <2>1. "failed" \in Terminal /\ "timeout" \in Error
    BY DEF Terminal, Error
  <2>2. /\ run[j] = "awaiting" /\ server = "up" /\ Conclude(j, "failed", "timeout")
        /\ UNCHANGED <<log, steps, posted, pending, server, fixing>>
        /\ \A k \in Jobs \ {j} : thread'[k] = thread[k]
    BY <1>2, Types DEF ResumeTimeout, Serving, loopVars, serverVars
  <2> QED
    BY <2>1, <2>2, ConcludeFlow
<1> QED
  BY <1>1, <1>2

LEMMA ResumeBrokenFlow ==
    ASSUME FlowInv, NEW j \in Jobs, ResumeBroken(j)
    PROVE  Flow'
<1>1. /\ run[j] = "awaiting" /\ run'[j] = "broken" /\ stored[j] = "running" /\ FlowOf(j)
      /\ UNCHANGED <<stored, error, log, left, thread, steps, posted, pending, fixing>>
  BY Types DEF ResumeBroken, FlowInv, Flow, AgreesInv, HoldsInv, RunHolds, storeVars, threadVars,
     loopVars, serverVars
<1>2. FlowOf(j)'
  BY <1>1, StatusFacts DEF FlowOf, Decided, BySolver
<1>3. \A k \in Jobs \ {j} : FlowOf(k)'
  BY <1>1, Types, FlowFrame DEF ResumeBroken, FlowInv, Flow
<1> QED
  BY <1>1, <1>2, <1>3 DEF FlowInv, Flow

LEMMA DrainedFlow ==
    ASSUME FlowInv, NEW j \in Jobs, Drained(j) \/ Retire(j)
    PROVE  Flow'
<1>1. /\ run[j] \in {"draining", "retiring"} /\ (run[j] = "draining" => left[j] = 0)
      /\ run'[j] \in {"closing", "ended"} /\ FlowOf(j) /\ pending[j] \in Seq(1..MaxProgress)
      /\ UNCHANGED <<stored, error, log, left, thread, steps, posted, pending, fixing>>
  BY Types DEF Drained, Retire, FlowInv, Flow, storeVars, threadVars, loopVars, serverVars
<1>2. Decided(j) /\ run[j] = "draining" => pending[j] = <<>>
  BY <1>1 DEF FlowOf
<1>3. Underway(j)' = Underway(j)
  BY <1>1 DEF Underway
<1>4. stored[j] # NoRow
  BY <1>1 DEF FlowOf
<1>5. FlowOf(j)'
  BY <1>1, <1>2, <1>3, <1>4 DEF FlowOf, Decided, BySolver
<1>6. \A k \in Jobs \ {j} : FlowOf(k)'
  BY <1>1, Types, FlowFrame DEF Drained, Retire, FlowInv, Flow
<1> QED
  BY <1>1, <1>5, <1>6 DEF FlowInv, Flow

LEMMA EmitVerdictFlow ==
    ASSUME FlowInv, NEW j \in Jobs, EmitVerdict(j), ~MirrorAliased
    PROVE  Flow'
<1> DEFINE e == StatusEvent(stored[j])
           l == Append(log[j], e)
<1>1. /\ run[j] = "closing" /\ run'[j] = "retiring" /\ FlowOf(j)
      /\ UNCHANGED <<stored, error, left, thread, steps, posted, pending, fixing>>
  BY Types DEF EmitVerdict, FlowInv, Flow, threadVars, loopVars, serverVars
<1>2. log[j] \in Seq(Event) /\ stored[j] \in Terminal /\ VerdictsIn(log[j]) = {}
  BY <1>1, Types DEF FlowInv, AgreesInv, Unannounced, HoldsInv, TypeInv, VerdictStored
<1>3. e \in Event /\ IsTerminal(e) /\ ~IsProgress(e)
  BY <1>2, EventFacts DEF StatusEvent, IsTerminal, IsStatus, IsProgress
<1>4. log'[j] = l /\ \A k \in Jobs \ {j} : log'[k] = log[k]
  BY Types DEF EmitVerdict, Emit, AddEvent, SqliteAddEvent
<1> HIDE DEF e
<1>5. VerdictsIn(l) = {Len(log[j]) + 1}
  <2>1. VerdictsIn(l) = VerdictsIn(log[j]) \cup (IF IsTerminal(e) THEN {Len(log[j]) + 1} ELSE {})
    BY <1>2, <1>3, VerdictsInAppend
  <2> QED
    BY <1>2, <1>3, <2>1
<1>6. ProgressUpTo(l, Len(log[j]) + 1) = ProgressUpTo(log[j], Len(log[j])) /\ Len(l) = Len(log[j]) + 1
  <2>1. ProgressUpTo(l, Len(log[j]) + 1) =
          ProgressUpTo(log[j], Len(log[j])) \cup (IF IsProgress(e) THEN {e.iteration} ELSE {})
    BY <1>2, <1>3, SaidNow
  <2>2. Len(l) = Len(log[j]) + 1
    BY <1>2, <1>3
  <2> QED
    BY <1>3, <2>1, <2>2
<1> HIDE DEF l
<1>7. BySolver(j) => Decided(j) /\ pending[j] = <<>> /\ posted[j] = <<>>
  BY <1>1 DEF FlowOf, Decided
<1>8. BySolver(j) => ProgressUpTo(log[j], Len(log[j])) = 1..steps[j]
  <2>1. Range(<<>>) = {}
    BY DEF Range
  <2> QED
    BY <1>1, <1>2, <1>7, <2>1 DEF FlowOf, Underway
<1>9. FlowOf(j)'
  BY <1>1, <1>2, <1>4, <1>5, <1>6, <1>7, <1>8, StatusFacts DEF FlowOf, Decided, BySolver
<1>10. \A k \in Jobs \ {j} : FlowOf(k)'
  BY <1>1, <1>4, Types, FlowFrame DEF EmitVerdict, FlowInv, Flow
<1> QED
  BY <1>1, <1>9, <1>10 DEF FlowInv, Flow

LEMMA CrashFlow ==
    ASSUME FlowInv, Crash
    PROVE  Flow'
<1>1. ASSUME NEW j \in Jobs PROVE FlowOf(j)'
  <2>1. /\ run'[j] = (IF run[j] \in {"none", "ended"} THEN run[j] ELSE "lost")
        /\ left'[j] = 0 /\ thread'[j] = "none" /\ posted'[j] = <<>> /\ pending'[j] = <<>>
        /\ UNCHANGED <<stored, error, log, steps>> /\ FlowOf(j)
    BY DEF Crash, FlowInv, Flow, storeVars
  <2>2. run[j] = "none" \/ (Decided(j) /\ run[j] = "ended") => Underway(j)' = Underway(j)
    BY <2>1 DEF FlowOf, Underway
  <2>3. run'[j] \in {"none", "ended", "lost"} /\ (run'[j] # "lost" => run'[j] = run[j])
    BY <2>1
  <2>4. Decided(j)' => Decided(j) /\ run[j] = "ended"
    BY <2>1, <2>3 DEF Decided, BySolver
  <2>5. Decided(j)' => left'[j] = Len(pending'[j]) /\ (VerdictsIn(log'[j]) = {} => Underway(j)' = 1..steps'[j])
    BY <2>1, <2>2, <2>4 DEF FlowOf
  <2>6. run'[j] \in {"none", "created", "awaiting"} => Underway(j)' = 1..steps'[j]
    <3>1. run'[j] \in {"none", "created", "awaiting"} => run[j] = "none"
      BY <2>3
    <3>2. run[j] = "none" => Underway(j) = 1..steps[j] /\ steps'[j] = steps[j]
      BY <2>1 DEF FlowOf
    <3> QED
      BY <2>2, <3>1, <3>2
  <2> QED
    BY <2>1, <2>3, <2>5, <2>6 DEF FlowOf, BySolver
<1> QED
  BY <1>1 DEF Crash, Flow

LEMMA ReconcileFlow ==
    ASSUME FlowInv, NEW j \in Jobs, Reconcile(j)
    PROVE  Flow'
<1>1. /\ stored'[j] = "failed" /\ error'[j] = "restart" /\ fixing' = j /\ FlowOf(j)
      /\ run[j] \in {"none", "ended", "lost"}
      /\ UNCHANGED <<log, run, left, thread, steps, posted, pending>>
  BY Types DEF Reconcile, FlowInv, Flow, AgreesInv, HoldsInv, RunHolds, runVars, threadVars, loopVars
<1>2. Underway(j)' = Underway(j)
  BY <1>1 DEF Underway
<1>3. FlowOf(j)'
  BY <1>1, <1>2, StatusFacts DEF FlowOf, Decided, BySolver
<1>4. \A k \in Jobs \ {j} : FlowOf(k)'
  BY <1>1, Types, FlowFrame DEF Reconcile, FlowInv, Flow
<1> QED
  BY <1>1, <1>3, <1>4 DEF Flow

LEMMA ReconcileEventFlow ==
    ASSUME FlowInv, NEW j \in Jobs, ReconcileEvent(j)
    PROVE  Flow'
<1> DEFINE e == StatusEvent("failed")
           l == Append(log[j], e)
<1>1. /\ fixing = j /\ fixing' = NoJob /\ log'[j] = l /\ error[j] = "restart" /\ FlowOf(j)
      /\ \A k \in Jobs \ {j} : log'[k] = log[k]
      /\ UNCHANGED <<stored, error, run, left, thread, steps, posted, pending>>
  BY Types DEF ReconcileEvent, FlowInv, Flow, runVars, threadVars, loopVars
<1>2. log[j] \in Seq(Event) /\ e \in Event /\ ~IsProgress(e)
  BY Types, EventFacts, StatusFacts DEF StatusEvent, IsProgress
<1> HIDE DEF e
<1>3. ProgressUpTo(l, Len(log[j]) + 1) = ProgressUpTo(log[j], Len(log[j])) /\ Len(l) = Len(log[j]) + 1
  <2>1. ProgressUpTo(l, Len(log[j]) + 1) =
          ProgressUpTo(log[j], Len(log[j])) \cup (IF IsProgress(e) THEN {e.iteration} ELSE {})
    BY <1>2, SaidNow
  <2>2. Len(l) = Len(log[j]) + 1
    BY <1>2
  <2> QED
    BY <1>2, <2>1, <2>2
<1> HIDE DEF l
<1>4. Underway(j)' = Underway(j)
  BY <1>1, <1>3 DEF Underway
<1>5. FlowOf(j)'
  BY <1>1, <1>4 DEF FlowOf, Decided, BySolver
<1>6. \A k \in Jobs \ {j} : FlowOf(k)'
  BY <1>1, FlowFrame DEF FlowInv, Flow
<1> QED
  BY <1>1, <1>5, <1>6 DEF Flow

LEMMA FlowStep ==
    ASSUME FlowInv, [Next]_vars, ~MirrorAliased
    PROVE  Flow'
<1>1. ASSUME UNCHANGED <<stored, error, log, run, left, thread, steps, posted, pending, fixing>>
      PROVE  Flow'
  BY <1>1, FlowFrame DEF FlowInv, Flow
<1>2. ASSUME NEW j \in Jobs, Cancel(j) PROVE Flow'
  BY <1>1, <1>2 DEF Cancel, storeVars, runVars, threadVars, loopVars, serverVars
<1>3. ASSUME NEW r \in Readers, StreamStep(r) \/ Leave(r) \/ \E j \in Jobs : OpenStream(r, j)
      PROVE  Flow'
  BY <1>1, <1>3 DEF StreamStep, Replay, Receive, Leave, OpenStream, storeVars, runVars,
     threadVars, loopVars, serverVars
<1>4. CASE Serve
  BY <1>1, <1>4 DEF Serve, storeVars, runVars, threadVars, loopVars
<1>5. CASE UNCHANGED vars
  BY <1>1, <1>5 DEF vars, storeVars, runVars, threadVars, loopVars, serverVars
<1>6. ASSUME NEW j \in Jobs, Submit(j) \/ ThreadStep(j) \/ LoopStep(j) \/ ResumeTimeout(j) PROVE Flow'
  BY <1>6, SubmitFlow, BeginRunFlow, ThreadFlow, ProgressFlow, ScheduleFlow, RunEmitFlow, ResumeFlow,
     ResumeBrokenFlow, DrainedFlow, EmitVerdictFlow DEF ThreadStep, LoopStep
<1>7. ASSUME NEW j \in Jobs, Reconcile(j) \/ ReconcileEvent(j) PROVE Flow'
  BY <1>7, ReconcileFlow, ReconcileEventFlow
<1>8. CASE Crash
  BY <1>8, CrashFlow
<1> QED
  BY <1>2, <1>3, <1>4, <1>5, <1>6, <1>7, <1>8 DEF Next, StartupStep

LEMMA FlowInit == Init => Flow
<1> SUFFICES ASSUME Init PROVE Flow
  OBVIOUS
<1>1. ASSUME NEW j \in Jobs PROVE FlowOf(j)
  <2>1. /\ log[j] = <<>> /\ pending[j] = <<>> /\ posted[j] = <<>> /\ steps[j] = 0
        /\ run[j] = "none" /\ thread[j] = "none"
    BY DEF Init
  <2>2. VerdictsIn(log[j]) = {} /\ Underway(j) = {} /\ 1..steps[j] = {}
    BY <2>1 DEF VerdictsIn, Underway, ProgressUpTo, Range
  <2> QED
    BY <2>1, <2>2 DEF FlowOf, Decided
<1> QED
  BY <1>1 DEF Init, Flow

\* Unless the timer or a restart decided the job, everything its solver reported
\* is in the log ahead of the verdict: what the gather of run_solve is for (the
\* SQLite store).
THEOREM ProgressIsFirst ==
    ASSUME ~MirrorAliased
    PROVE  Spec => []ProgressBeforeVerdict
<1>1. Init => Flow
  BY FlowInit
<1>2. FlowInv /\ [Next]_vars => Flow'
  BY FlowStep
<1>3. Spec => []FlowInv
  BY <1>1, <1>2, AgreesInductive, PTL DEF Spec, FlowInv
<1>4. FlowInv => ProgressBeforeVerdict
  BY DEF FlowInv, Flow, FlowOf, BySolver, ProgressBeforeVerdict
<1> QED
  BY <1>3, <1>4, PTL

=============================================================================
