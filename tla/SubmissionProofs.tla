-------------------------- MODULE SubmissionProofs --------------------------
(***************************************************************************)
(* Theorems about Submission, for any number of processes, owners, keys    *)
(* and jobs.                                                               *)
(***************************************************************************)
EXTENDS Submission, FiniteSetTheorems, TLAPS

USE SubmissionAssumption

\* Every submission that is counting or saving has a number left for its job.
NumbersLeft == made + Cardinality(Pending) <= MaxJobs

\* A process that is down is in the middle of nothing.
DeadIsIdle == \A p \in Processes : process[p] = "down" => call[p].doing = "idle"

IInv == TypeOK /\ NumbersLeft /\ DeadIsIdle /\ StrandedIsListed /\ ReuseCounted

-----------------------------------------------------------------------------
(* Calls, rows and the processes in the middle of a submission *)

\* What a call at each point carries.
LEMMA CallShape ==
    ASSUME TypeOK, NEW p \in Processes
    PROVE  /\ call[p].doing \in {"idle", "counting", "saving", "reusing", "reconciling", "failing"}
           /\ call[p].doing \in {"counting", "saving"} =>
                call[p].owner \in Owners /\ call[p].key \in Keys \cup {NoKey}
           /\ call[p].doing = "reusing" => call[p].job \in Jobs /\ call[p].found \in Nat
           /\ call[p].doing \in {"reconciling", "failing"} => call[p].left \subseteq Jobs
           /\ call[p].doing = "failing" =>
                /\ call[p].job \in Jobs
                /\ call[p].owner \in Owners /\ call[p].key \in Keys \cup {NoKey}
BY DEF TypeOK, Call

LEMMA PendingFinite == IsFiniteSet(Pending) /\ Cardinality(Pending) \in Nat
BY FS_Subset, FS_CardinalityType DEF Pending

\* A put leaves a table of rows, with the counts of the rows it inserts at nought.
LEMMA PutTypes ==
    ASSUME TypeOK, NEW j \in Jobs, NEW o \in Owners, NEW k \in Keys \cup {NoKey},
           NEW s \in Unfinished \cup Terminal, Put(j, o, k, s)
    PROVE  /\ rows' \in [Jobs -> Row \cup {NoRow}]
           /\ hits' \in [Jobs -> Nat]
           /\ rows'[j] # NoRow /\ rows'[j].status = s
           /\ \A i \in Jobs : i # j => rows'[i] = rows[i] /\ hits'[i] = hits[i]
           /\ rows'[j].reused = IF Present(j) THEN rows[j].reused ELSE 0
           /\ hits'[j] = IF Present(j) THEN hits[j] ELSE 0
<1> DEFINE r == IF Present(j) THEN [rows[j] EXCEPT !.status = s]
                ELSE [owner |-> o, key |-> k, status |-> s, reused |-> 0]
<1>1. r \in Row /\ r.status = s /\ r.reused = IF Present(j) THEN rows[j].reused ELSE 0
  <2>1. CASE Present(j)
    <3>1. rows[j] \in Row
      BY <2>1 DEF TypeOK, Present
    <3> QED
      BY <2>1, <3>1 DEF Row
  <2>2. CASE ~Present(j)
    BY <2>2 DEF Row
  <2> QED
    BY <2>1, <2>2
<1>2. rows' = [rows EXCEPT ![j] = r]
  BY DEF Put
<1> HIDE DEF r
<1>3. r # NoRow
  BY <1>1
<1>4. rows'[j] = r /\ \A i \in Jobs : i # j => rows'[i] = rows[i]
  BY <1>2 DEF TypeOK
<1>5. rows' \in [Jobs -> Row \cup {NoRow}]
  BY <1>1, <1>2 DEF TypeOK
<1>6. /\ hits' \in [Jobs -> Nat]
      /\ hits'[j] = IF Present(j) THEN hits[j] ELSE 0
      /\ \A i \in Jobs : i # j => hits'[i] = hits[i]
  BY DEF Put, TypeOK
<1> QED
  BY <1>1, <1>3, <1>4, <1>5, <1>6

\* A put counts as many reuses as it answered.
LEMMA PutCounts ==
    ASSUME TypeOK, ReuseCounted, NEW j \in Jobs, NEW o \in Owners, NEW k \in Keys \cup {NoKey},
           NEW s \in Unfinished \cup Terminal, Put(j, o, k, s)
    PROVE  ReuseCounted'
<1> SUFFICES ASSUME NEW i \in Jobs, rows'[i] # NoRow PROVE rows'[i].reused = hits'[i]
  BY DEF ReuseCounted, Present
<1>1. CASE i = j
  BY <1>1, PutTypes DEF ReuseCounted
<1>2. CASE i # j
  BY <1>2, PutTypes DEF ReuseCounted, Present
<1> QED
  BY <1>1, <1>2

\* A process that was not counting and does not start to leaves the numbers alone;
\* one that was gives one back.
LEMMA NumbersStay ==
    ASSUME TypeOK, NumbersLeft, NEW p \in Processes, NEW x \in Call,
           call' = [call EXCEPT ![p] = x], made' = made,
           x.doing \in {"counting", "saving"} => call[p].doing \in {"counting", "saving"}
    PROVE  NumbersLeft'
<1>1. call'[p] = x /\ \A q \in Processes : q # p => call'[q] = call[q]
  BY DEF TypeOK
<1>2. Pending' \in SUBSET Pending
  BY <1>1 DEF Pending
<1>3. Cardinality(Pending') \in Nat /\ Cardinality(Pending') <= Cardinality(Pending)
  BY <1>2, PendingFinite, FS_Subset, FS_CardinalityType
<1> QED
  BY <1>3, PendingFinite DEF NumbersLeft, TypeOK

\* The processes that are down stay idle.
LEMMA DeadStays ==
    ASSUME TypeOK, DeadIsIdle, NEW p \in Processes, NEW x, call' = [call EXCEPT ![p] = x],
           process' = process, process[p] # "down" \/ call[p].doing # "idle"
    PROVE  DeadIsIdle'
BY DEF TypeOK, DeadIsIdle

\* No list is shortened and no row becomes stranded.
LEMMA StrandedStays ==
    ASSUME TypeOK, StrandedIsListed, NEW p \in Processes,
           process' = process, \A q \in Processes : q # p => call'[q] = call[q],
           call[p].doing \notin {"reconciling", "failing"},
           \A j \in Jobs : j \in UnfinishedRows' /\ tasks'[j] = NoTask =>
                j \in UnfinishedRows /\ tasks[j] = NoTask
    PROVE  StrandedIsListed'
<1> SUFFICES ASSUME NEW j \in Jobs, j \in UnfinishedRows', tasks'[j] = NoTask
             PROVE  \E q \in Processes :
                      \/ process'[q] = "down"
                      \/ call'[q].doing \in {"reconciling", "failing"} /\ j \in call'[q].left
                      \/ call'[q].doing = "failing" /\ j = call'[q].job
  BY DEF StrandedIsListed, UnfinishedRows
<1>1. PICK q \in Processes :
         \/ process[q] = "down"
         \/ call[q].doing \in {"reconciling", "failing"} /\ j \in call[q].left
         \/ call[q].doing = "failing" /\ j = call[q].job
  BY DEF StrandedIsListed
<1> QED
  BY <1>1

-----------------------------------------------------------------------------
(* The invariant holds initially, and every step keeps it *)

LEMMA SubmissionInit == Init => IInv
<1> SUFFICES ASSUME Init PROVE IInv
  OBVIOUS
<1>1. TypeOK
  BY DEF Init, TypeOK, Call, Idle
<1>2. NumbersLeft
  <2>1. Pending = {}
    BY DEF Init, Pending, Idle
  <2>2. Cardinality(Pending) = 0
    BY <2>1, FS_EmptySet
  <2> QED
    BY <2>2 DEF Init, NumbersLeft
<1>3. StrandedIsListed /\ ReuseCounted /\ DeadIsIdle
  BY DEF Init, DeadIsIdle, StrandedIsListed, UnfinishedRows, ReuseCounted, Present
<1> QED
  BY <1>1, <1>2, <1>3 DEF IInv

LEMMA LookKeeps ==
    ASSUME IInv, NEW p \in Processes, Look(p)
    PROVE  IInv'
<1>1. UNCHANGED <<made, expired, rows, tasks, process, hits, deaths>> /\ process[p] = "serving"
     /\ call[p].doing = "idle"
  BY DEF Look, Free, Idle
<1>2. ReuseCounted'
  BY <1>1 DEF IInv, ReuseCounted, Present
<1>3. ASSUME NEW x \in Call, call' = [call EXCEPT ![p] = x] PROVE TypeOK' /\ StrandedIsListed' /\ DeadIsIdle'
  <2>1. TypeOK'
    BY <1>1, <1>3 DEF IInv, TypeOK
  <2>2. StrandedIsListed'
    BY <1>1, <1>3, StrandedStays DEF IInv, TypeOK, UnfinishedRows, Present
  <2>3. DeadIsIdle'
    BY <1>1, <1>3, DeadStays DEF IInv
  <2> QED
    BY <2>1, <2>2, <2>3
<1>4. CASE \E o \in Owners, k \in Keys \cup {NoKey} : \E j \in Cached(o, k) :
             call' = [call EXCEPT ![p] = [doing |-> "reusing", job |-> j,
                                          found |-> rows[j].reused]]
  <2>1. PICK j \in Jobs :
           /\ Present(j)
           /\ call' = [call EXCEPT ![p] = [doing |-> "reusing", job |-> j,
                                           found |-> rows[j].reused]]
    BY <1>4 DEF Cached
  <2> DEFINE x == [doing |-> "reusing", job |-> j, found |-> rows[j].reused]
  <2>2. rows[j].reused \in Nat
    BY <2>1 DEF Present, IInv, TypeOK, Row
  <2>3. x \in Call /\ x.doing = "reusing"
    BY <2>2 DEF Call
  <2>4. call' = [call EXCEPT ![p] = x]
    BY <2>1
  <2> HIDE DEF x
  <2>5. NumbersLeft'
    BY <1>1, <2>3, <2>4, NumbersStay DEF IInv
  <2> QED
    BY <1>2, <1>3, <2>3, <2>4, <2>5 DEF IInv
<1>5. CASE \E o \in Owners, k \in Keys \cup {NoKey} :
             /\ made + Cardinality(Pending) < MaxJobs
             /\ call' = [call EXCEPT ![p] = [doing |-> "counting", owner |-> o, key |-> k]]
  <2>1. PICK o \in Owners, k \in Keys \cup {NoKey} :
           call' = [call EXCEPT ![p] = [doing |-> "counting", owner |-> o, key |-> k]]
    BY <1>5
  <2> DEFINE x == [doing |-> "counting", owner |-> o, key |-> k]
  <2>2. x \in Call /\ x.doing = "counting"
    BY DEF Call
  <2>3. call' = [call EXCEPT ![p] = x]
    BY <2>1
  <2> HIDE DEF x
  <2>4. NumbersLeft'
    <3>1. Pending' = Pending \cup {p} /\ p \notin Pending
      BY <1>1, <2>2, <2>3 DEF IInv, TypeOK, Pending
    <3>2. Cardinality(Pending') = Cardinality(Pending) + 1
      BY <3>1, PendingFinite, FS_AddElement DEF IInv
    <3> QED
      BY <1>1, <1>5, <3>2, PendingFinite DEF NumbersLeft, IInv, TypeOK
  <2> QED
    BY <1>2, <1>3, <2>2, <2>3, <2>4 DEF IInv
<1> QED
  BY <1>4, <1>5 DEF Look

LEMMA ReuseKeeps ==
    ASSUME IInv, NEW p \in Processes, Reuse(p)
    PROVE  IInv'
<1>1. PICK j \in Jobs : call[p].job = j /\ call[p].doing = "reusing"
  BY CallShape DEF Reuse, IInv
<1>2. /\ Idle \in Call /\ Idle.doing = "idle"
      /\ call' = [call EXCEPT ![p] = Idle]
      /\ UNCHANGED <<made, expired, tasks, process, deaths>>
  BY DEF Reuse, Idle, Call
<1>3. NumbersLeft' /\ DeadIsIdle'
  BY <1>1, <1>2, NumbersStay, DeadStays DEF IInv
<1>4. CASE Present(j)
  <2> DEFINE r == [rows[j] EXCEPT !.reused = @ + 1]
  <2>1. rows' = [rows EXCEPT ![j] = r] /\ hits' = [hits EXCEPT ![j] = @ + 1]
    BY <1>1, <1>4 DEF Reuse
  <2>2. rows[j] \in Row
    BY <1>4 DEF Present, IInv, TypeOK
  <2>3. r \in Row /\ r.status = rows[j].status /\ r.reused = rows[j].reused + 1
    BY <2>2 DEF Row
  <2> HIDE DEF r
  <2>4. rows'[j] = r /\ \A i \in Jobs : i # j => rows'[i] = rows[i]
    BY <2>1 DEF IInv, TypeOK
  <2>5. TypeOK'
    BY <1>2, <2>1, <2>3 DEF IInv, TypeOK
  <2>6. ReuseCounted'
    BY <1>4, <2>1, <2>3, <2>4 DEF IInv, ReuseCounted, Present, TypeOK
  <2>7. \A i \in Jobs : i \in UnfinishedRows' => i \in UnfinishedRows
    BY <1>4, <2>3, <2>4 DEF UnfinishedRows, Present
  <2>8. StrandedIsListed'
    BY <1>1, <1>2, <2>7, StrandedStays DEF IInv, TypeOK
  <2> QED
    BY <1>3, <2>5, <2>6, <2>8 DEF IInv
<1>5. CASE ~Present(j)
  <2>1. UNCHANGED <<rows, hits>>
    BY <1>1, <1>5 DEF Reuse
  <2>2. TypeOK' /\ ReuseCounted'
    BY <1>2, <2>1 DEF IInv, TypeOK, ReuseCounted, Present
  <2>3. StrandedIsListed'
    BY <1>1, <1>2, <2>1, StrandedStays DEF IInv, TypeOK, UnfinishedRows, Present
  <2> QED
    BY <1>3, <2>2, <2>3 DEF IInv
<1> QED
  BY <1>4, <1>5

LEMMA CountKeeps ==
    ASSUME IInv, NEW p \in Processes, Count(p)
    PROVE  IInv'
<1> DEFINE x == IF ConcurrentJobs # 0 /\ Active(call[p].owner) >= ConcurrentJobs THEN Idle
                ELSE [call[p] EXCEPT !.doing = "saving"]
<1>1. /\ call[p].doing = "counting" /\ call' = [call EXCEPT ![p] = x]
      /\ UNCHANGED <<made, expired, rows, tasks, process, hits, deaths>>
  BY DEF Count
<1>2. x \in Call
  <2>1. Idle \in Call
    BY DEF Idle, Call
  <2>2. call[p] \in [doing : {"counting", "saving"}, owner : Owners, key : Keys \cup {NoKey}]
    BY <1>1 DEF IInv, TypeOK, Call
  <2>3. [call[p] EXCEPT !.doing = "saving"] \in Call
    BY <2>2 DEF Call
  <2> QED
    BY <2>1, <2>3
<1> HIDE DEF x
<1>3. TypeOK' /\ ReuseCounted'
  BY <1>1, <1>2 DEF IInv, TypeOK, ReuseCounted, Present
<1>4. NumbersLeft' /\ DeadIsIdle'
  BY <1>1, <1>2, NumbersStay, DeadStays DEF IInv
<1>5. StrandedIsListed'
  BY <1>1, StrandedStays DEF IInv, TypeOK, UnfinishedRows, Present
<1> QED
  BY <1>3, <1>4, <1>5 DEF IInv

LEMMA SaveKeeps ==
    ASSUME IInv, NEW p \in Processes, Save(p)
    PROVE  IInv'
<1> DEFINE j == made + 1
           t == [process |-> p, owner |-> call[p].owner, key |-> call[p].key,
                 status |-> "queued"]
<1>1. /\ call[p].doing = "saving" /\ call[p].owner \in Owners /\ call[p].key \in Keys \cup {NoKey}
      /\ made' = j /\ Put(j, call[p].owner, call[p].key, "queued")
      /\ tasks' = [tasks EXCEPT ![j] = t]
      /\ call' = [call EXCEPT ![p] = Idle] /\ UNCHANGED <<expired, process, deaths>>
  BY CallShape DEF Save, IInv
<1>2. p \in Pending /\ Pending' = Pending \ {p}
  BY <1>1 DEF Pending, IInv, TypeOK, Idle
<1>3. Cardinality(Pending') = Cardinality(Pending) - 1
  BY <1>2, PendingFinite, FS_RemoveElement
<1>4. Cardinality(Pending) # 0
  BY <1>2, PendingFinite, FS_EmptySet
<1>5. j \in Jobs
  BY <1>4, PendingFinite DEF IInv, NumbersLeft, TypeOK, Jobs
<1>6. NumbersLeft'
  BY <1>1, <1>3, PendingFinite DEF IInv, NumbersLeft, TypeOK
<1>7. t \in Task /\ t # NoTask
  BY <1>1 DEF Task, Unfinished
<1>8. Idle \in Call
  BY DEF Idle, Call
<1> HIDE DEF t
<1>9. TypeOK'
  <2>1. rows' \in [Jobs -> Row \cup {NoRow}] /\ hits' \in [Jobs -> Nat]
    BY <1>1, <1>5, PutTypes DEF IInv, Unfinished
  <2>2. made' \in 0..MaxJobs /\ expired' \in 0..made'
    BY <1>1, <1>5 DEF IInv, TypeOK, Jobs
  <2> HIDE DEF j
  <2> QED
    BY <1>1, <1>5, <1>7, <1>8, <2>1, <2>2 DEF IInv, TypeOK
<1>10. ReuseCounted'
  BY <1>1, <1>5, PutCounts DEF IInv, Unfinished
<1>11. StrandedIsListed'
  <2>1. \A i \in Jobs : i # j => rows'[i] = rows[i]
    BY <1>1, <1>5, PutTypes DEF IInv, Unfinished
  <2> HIDE DEF j
  <2>2. tasks'[j] # NoTask /\ \A i \in Jobs : i # j => tasks'[i] = tasks[i]
    BY <1>1, <1>5, <1>7 DEF IInv, TypeOK
  <2>3. \A i \in Jobs : i \in UnfinishedRows' /\ tasks'[i] = NoTask =>
           i \in UnfinishedRows /\ tasks[i] = NoTask
    BY <2>1, <2>2 DEF UnfinishedRows, Present
  <2> QED
    BY <1>1, <2>3, StrandedStays DEF IInv, TypeOK
<1>12. DeadIsIdle'
  BY <1>1, DeadStays DEF IInv
<1> QED
  BY <1>6, <1>9, <1>10, <1>11, <1>12 DEF IInv

\* A step of a coroutine: one put, and the task goes on or is done.
LEMMA SolveKeeps ==
    ASSUME IInv, NEW j \in Jobs, NEW t \in Task \cup {NoTask}, NEW s \in Unfinished \cup Terminal,
           tasks[j] # NoTask, Put(j, tasks[j].owner, tasks[j].key, s),
           tasks' = [tasks EXCEPT ![j] = t], t = NoTask => s \in Terminal,
           UNCHANGED <<made, expired, process, call, deaths>>
    PROVE  IInv'
<1>1. tasks[j].owner \in Owners /\ tasks[j].key \in Keys \cup {NoKey}
  BY DEF IInv, TypeOK, Task
<1>2. rows' \in [Jobs -> Row \cup {NoRow}] /\ hits' \in [Jobs -> Nat] /\ rows'[j].status = s
      /\ \A i \in Jobs : i # j => rows'[i] = rows[i]
  BY <1>1, PutTypes DEF IInv
<1>3. TypeOK'
  BY <1>2 DEF IInv, TypeOK
<1>4. NumbersLeft' /\ DeadIsIdle'
  BY DEF IInv, NumbersLeft, Pending, DeadIsIdle
<1>5. ReuseCounted'
  BY <1>1, PutCounts DEF IInv
<1>6. StrandedIsListed'
  <2> SUFFICES ASSUME NEW i \in Jobs, i \in UnfinishedRows', tasks'[i] = NoTask
               PROVE  i \in UnfinishedRows /\ tasks[i] = NoTask
    BY DEF IInv, StrandedIsListed, UnfinishedRows
  <2>1. CASE i = j
    <3>1. t = NoTask /\ rows'[j].status \in Terminal /\ rows'[j].status \in Unfinished
      BY <1>2, <2>1 DEF IInv, TypeOK, UnfinishedRows
    <3> QED
      BY <3>1 DEF Terminal, Unfinished
  <2>2. CASE i # j
    BY <1>2, <2>2 DEF IInv, TypeOK, UnfinishedRows, Present
  <2> QED
    BY <2>1, <2>2
<1> QED
  BY <1>3, <1>4, <1>5, <1>6 DEF IInv

LEMMA SolveStepKeeps ==
    ASSUME IInv, NEW j \in Jobs, SolveStep(j)
    PROVE  IInv'
<1>1. CASE Begin(j)
  <2> DEFINE t == [tasks[j] EXCEPT !.status = "running"]
  <2>1. tasks[j] \in Task
    BY <1>1 DEF Begin, IInv, TypeOK
  <2>2. t \in Task
    BY <2>1 DEF Task, Unfinished
  <2>3. t # NoTask /\ tasks' = [tasks EXCEPT ![j] = t]
    BY <1>1, <2>2 DEF Begin
  <2> HIDE DEF t
  <2> QED
    BY <1>1, <2>2, <2>3, SolveKeeps DEF Begin, Unfinished
<1>2. CASE Conclude(j)
  BY <1>2, SolveKeeps DEF Conclude
<1> QED
  BY <1>1, <1>2 DEF SolveStep

LEMMA DieKeeps ==
    ASSUME IInv, NEW p \in Processes, Die(p)
    PROVE  IInv'
<1>1. /\ Idle \in Call /\ Idle.doing = "idle"
      /\ call' = [call EXCEPT ![p] = Idle] /\ process' = [process EXCEPT ![p] = "down"]
      /\ UNCHANGED <<made, expired, rows, hits>>
  BY DEF Die, Idle, Call
<1>2. TypeOK'
  BY <1>1 DEF Die, IInv, TypeOK
<1>3. NumbersLeft'
  BY <1>1, NumbersStay DEF IInv
<1>4. DeadIsIdle' /\ StrandedIsListed'
  BY <1>1 DEF IInv, TypeOK, DeadIsIdle, StrandedIsListed
<1>5. ReuseCounted'
  BY <1>1 DEF IInv, ReuseCounted, Present
<1> QED
  BY <1>2, <1>3, <1>4, <1>5 DEF IInv

LEMMA StartKeeps ==
    ASSUME IInv, NEW p \in Processes, Start(p)
    PROVE  IInv'
<1> DEFINE x == [doing |-> "reconciling", left |-> UnfinishedRows]
<1>1. /\ x \in Call /\ x.doing = "reconciling" /\ x.left = UnfinishedRows
      /\ call' = [call EXCEPT ![p] = x] /\ process' = [process EXCEPT ![p] = "starting"]
      /\ UNCHANGED <<made, expired, rows, tasks, hits, deaths>>
  BY DEF Start, Call, UnfinishedRows
<1> HIDE DEF x
<1>2. TypeOK' /\ ReuseCounted'
  BY <1>1 DEF IInv, TypeOK, ReuseCounted, Present
<1>3. NumbersLeft'
  BY <1>1, NumbersStay DEF IInv
<1>4. DeadIsIdle'
  BY <1>1 DEF IInv, TypeOK, DeadIsIdle
<1>5. StrandedIsListed'
  <2>1. call'[p] = x /\ UnfinishedRows' = UnfinishedRows
    BY <1>1 DEF IInv, TypeOK, UnfinishedRows, Present
  <2> QED
    BY <1>1, <2>1 DEF StrandedIsListed
<1> QED
  BY <1>2, <1>3, <1>4, <1>5 DEF IInv

LEMMA ReadStrandedKeeps ==
    ASSUME IInv, NEW p \in Processes, ReadStranded(p)
    PROVE  IInv'
<1>1. /\ call[p].doing = "reconciling" /\ call[p].left \subseteq Jobs
      /\ UNCHANGED <<made, expired, rows, tasks, process, hits, deaths>>
  BY CallShape DEF ReadStranded, IInv
<1>2. PICK j \in call[p].left :
         call' = [call EXCEPT ![p] =
                    IF Present(j)
                    THEN [doing |-> "failing", left |-> @.left \ {j}, job |-> j,
                          owner |-> rows[j].owner, key |-> rows[j].key]
                    ELSE [doing |-> "reconciling", left |-> @.left \ {j}]]
  BY DEF ReadStranded
<1> DEFINE x == IF Present(j)
                THEN [doing |-> "failing", left |-> call[p].left \ {j}, job |-> j,
                      owner |-> rows[j].owner, key |-> rows[j].key]
                ELSE [doing |-> "reconciling", left |-> call[p].left \ {j}]
<1>3. /\ x \in Call /\ x.doing \in {"reconciling", "failing"}
      /\ x.left = call[p].left \ {j}
      /\ Present(j) => x.doing = "failing" /\ x.job = j
  <2>1. CASE Present(j)
    <3>1. rows[j].owner \in Owners /\ rows[j].key \in Keys \cup {NoKey}
      BY <1>1, <2>1 DEF Present, IInv, TypeOK, Row
    <3> QED
      BY <1>1, <2>1, <3>1 DEF Call
  <2>2. CASE ~Present(j)
    BY <1>1, <2>2 DEF Call
  <2> QED
    BY <2>1, <2>2
<1>4. call' = [call EXCEPT ![p] = x]
  BY <1>2
<1> HIDE DEF x
<1>5. TypeOK' /\ ReuseCounted'
  BY <1>1, <1>3, <1>4 DEF IInv, TypeOK, ReuseCounted, Present
<1>6. NumbersLeft' /\ DeadIsIdle'
  BY <1>1, <1>3, <1>4, NumbersStay, DeadStays DEF IInv
<1>7. StrandedIsListed'
  <2> SUFFICES ASSUME NEW i \in Jobs, i \in UnfinishedRows, tasks[i] = NoTask
               PROVE  \E q \in Processes :
                        \/ process[q] = "down"
                        \/ call'[q].doing \in {"reconciling", "failing"} /\ i \in call'[q].left
                        \/ call'[q].doing = "failing" /\ i = call'[q].job
    BY <1>1 DEF StrandedIsListed, UnfinishedRows, Present
  <2>1. Present(i)
    BY DEF UnfinishedRows
  <2>2. PICK q \in Processes :
           \/ process[q] = "down"
           \/ call[q].doing \in {"reconciling", "failing"} /\ i \in call[q].left
           \/ call[q].doing = "failing" /\ i = call[q].job
    BY DEF IInv, StrandedIsListed
  <2>3. call'[p] = x /\ (q # p => call'[q] = call[q])
    BY <1>4 DEF IInv, TypeOK
  <2>4. CASE q = p
    BY <1>1, <1>3, <2>1, <2>2, <2>3, <2>4
  <2>5. CASE q # p
    BY <2>2, <2>3, <2>5
  <2> QED
    BY <2>4, <2>5
<1> QED
  BY <1>5, <1>6, <1>7 DEF IInv

LEMMA FailStrandedKeeps ==
    ASSUME IInv, NEW p \in Processes, FailStranded(p)
    PROVE  IInv'
<1> DEFINE j == call[p].job
           x == [doing |-> "reconciling", left |-> call[p].left]
<1>1. /\ call[p].doing = "failing" /\ call[p].left \subseteq Jobs /\ j \in Jobs
      /\ call[p].owner \in Owners /\ call[p].key \in Keys \cup {NoKey}
      /\ "failed" \in Terminal
      /\ Put(j, call[p].owner, call[p].key, "failed")
      /\ call' = [call EXCEPT ![p] = x]
      /\ UNCHANGED <<made, expired, tasks, process, deaths>>
  BY CallShape DEF FailStranded, IInv, Terminal
<1>2. x \in Call /\ x.doing = "reconciling" /\ x.left = call[p].left
  BY <1>1 DEF Call
<1> HIDE DEF x, j
<1>3. /\ rows' \in [Jobs -> Row \cup {NoRow}] /\ hits' \in [Jobs -> Nat]
      /\ rows'[j].status = "failed"
      /\ \A i \in Jobs : i # j => rows'[i] = rows[i]
  BY <1>1, PutTypes DEF IInv
<1>4. TypeOK'
  BY <1>1, <1>2, <1>3 DEF IInv, TypeOK
<1>5. NumbersLeft' /\ DeadIsIdle'
  BY <1>1, <1>2, NumbersStay, DeadStays DEF IInv
<1>6. ReuseCounted'
  BY <1>1, PutCounts DEF IInv
<1>7. StrandedIsListed'
  <2> SUFFICES ASSUME NEW i \in Jobs, i \in UnfinishedRows', tasks[i] = NoTask
               PROVE  \E q \in Processes :
                        \/ process[q] = "down"
                        \/ call'[q].doing \in {"reconciling", "failing"} /\ i \in call'[q].left
                        \/ call'[q].doing = "failing" /\ i = call'[q].job
    BY <1>1 DEF StrandedIsListed, UnfinishedRows
  <2>1. i # j
    BY <1>3 DEF UnfinishedRows, Unfinished
  <2>2. i \in UnfinishedRows
    BY <1>3, <2>1 DEF UnfinishedRows, Present
  <2>3. PICK q \in Processes :
           \/ process[q] = "down"
           \/ call[q].doing \in {"reconciling", "failing"} /\ i \in call[q].left
           \/ call[q].doing = "failing" /\ i = call[q].job
    BY <2>2 DEF IInv, StrandedIsListed
  <2>4. call'[p] = x /\ (q # p => call'[q] = call[q])
    BY <1>1 DEF IInv, TypeOK
  <2>5. CASE q = p
    BY <1>2, <2>1, <2>3, <2>4, <2>5 DEF j
  <2>6. CASE q # p
    BY <2>3, <2>4, <2>6
  <2> QED
    BY <2>5, <2>6
<1> QED
  BY <1>4, <1>5, <1>6, <1>7 DEF IInv

\* A sweep takes rows away, and changes none.
LEMMA PurgedRows ==
    ASSUME TypeOK
    PROVE  Purged \in [Jobs -> Row \cup {NoRow}]
           /\ \A j \in Jobs : Purged[j] # NoRow => Purged[j] = rows[j]
BY DEF TypeOK, Purged

LEMMA ServeKeeps ==
    ASSUME IInv, NEW p \in Processes, Serve(p)
    PROVE  IInv'
<1>1. /\ call[p].doing = "reconciling" /\ call[p].left = {}
      /\ Idle \in Call /\ Idle.doing = "idle"
      /\ call' = [call EXCEPT ![p] = Idle] /\ process' = [process EXCEPT ![p] = "serving"]
      /\ UNCHANGED <<made, expired, tasks, hits, deaths>>
  BY DEF Serve, Idle, Call
<1>2. /\ rows' \in [Jobs -> Row \cup {NoRow}]
      /\ \A j \in Jobs : rows'[j] # NoRow => rows'[j] = rows[j]
  BY PurgedRows DEF Serve, IInv, TypeOK
<1>3. TypeOK'
  BY <1>1, <1>2 DEF IInv, TypeOK
<1>4. NumbersLeft'
  BY <1>1, NumbersStay DEF IInv
<1>5. ReuseCounted'
  BY <1>1, <1>2 DEF IInv, ReuseCounted, Present
<1>6. DeadIsIdle'
  BY <1>1 DEF IInv, TypeOK, DeadIsIdle
<1>7. StrandedIsListed'
  <2> SUFFICES ASSUME NEW j \in Jobs, j \in UnfinishedRows', tasks[j] = NoTask
               PROVE  \E q \in Processes :
                        \/ process'[q] = "down"
                        \/ call'[q].doing \in {"reconciling", "failing"} /\ j \in call'[q].left
                        \/ call'[q].doing = "failing" /\ j = call'[q].job
    BY <1>1 DEF StrandedIsListed, UnfinishedRows
  <2>1. j \in UnfinishedRows
    BY <1>2 DEF UnfinishedRows, Present
  <2>2. PICK q \in Processes :
           \/ process[q] = "down"
           \/ call[q].doing \in {"reconciling", "failing"} /\ j \in call[q].left
           \/ call[q].doing = "failing" /\ j = call[q].job
    BY <2>1 DEF IInv, StrandedIsListed
  <2>3. q # p
    BY <1>1, <2>2 DEF IInv, DeadIsIdle
  <2> QED
    BY <1>1, <2>2, <2>3 DEF IInv, TypeOK
<1> QED
  BY <1>3, <1>4, <1>5, <1>6, <1>7 DEF IInv

LEMMA SweepKeeps ==
    ASSUME IInv, NEW p \in Processes, Sweep(p)
    PROVE  IInv'
<1>1. UNCHANGED <<made, expired, tasks, process, call, hits, deaths>>
  BY DEF Sweep
<1>2. /\ rows' \in [Jobs -> Row \cup {NoRow}]
      /\ \A j \in Jobs : rows'[j] # NoRow => rows'[j] = rows[j]
  BY PurgedRows DEF Sweep, IInv
<1>3. TypeOK' /\ ReuseCounted'
  BY <1>1, <1>2 DEF IInv, TypeOK, ReuseCounted, Present
<1>4. NumbersLeft' /\ DeadIsIdle'
  BY <1>1 DEF IInv, NumbersLeft, Pending, DeadIsIdle
<1>5. \A j \in Jobs : j \in UnfinishedRows' => j \in UnfinishedRows
  BY <1>2 DEF UnfinishedRows, Present
<1>6. StrandedIsListed'
  BY <1>1, <1>5 DEF IInv, StrandedIsListed, UnfinishedRows
<1> QED
  BY <1>3, <1>4, <1>6 DEF IInv

\* Neither a job growing old nor a stutter touches what the invariant reads.
LEMMA RestKeeps ==
    ASSUME IInv, Expire \/ UNCHANGED vars
    PROVE  IInv'
<1>1. UNCHANGED <<made, rows, tasks, process, call, hits, deaths>> /\ expired' \in 0..made
  BY DEF Expire, vars, IInv, TypeOK
<1>2. UnfinishedRows' = UnfinishedRows /\ Pending' = Pending
  BY <1>1 DEF UnfinishedRows, Present, Pending
<1> QED
  BY <1>1, <1>2
     DEF IInv, TypeOK, NumbersLeft, DeadIsIdle, StrandedIsListed, ReuseCounted, Present

LEMMA SubmissionStep == IInv /\ [Next]_vars => IInv'
<1> SUFFICES ASSUME IInv, [Next]_vars PROVE IInv'
  OBVIOUS
<1>1. CASE \E p \in Processes : Look(p) \/ Die(p) \/ Sweep(p)
  BY <1>1, LookKeeps, DieKeeps, SweepKeeps
<1>2. CASE \E p \in Processes : LoopStep(p)
  BY <1>2, ReuseKeeps, CountKeeps, SaveKeeps, StartKeeps, ReadStrandedKeeps,
     FailStrandedKeeps, ServeKeeps DEF LoopStep
<1>3. CASE \E j \in Jobs : SolveStep(j)
  BY <1>3, SolveStepKeeps
<1>4. CASE Expire \/ UNCHANGED vars
  BY <1>4, RestKeeps
<1> QED
  BY <1>1, <1>2, <1>3, <1>4 DEF Next

LEMMA SubmissionInductive == Spec => []IInv
BY SubmissionInit, SubmissionStep, PTL DEF Spec

-----------------------------------------------------------------------------
(* Quota and cache, until a process is restarted or a job outlives its time:  *)
(* after that a coroutine's put may bring back a row that was failed or swept *)

Undisturbed == deaths = 0 /\ expired = 0

ActiveJobs(o) == {j \in UnfinishedRows : rows[j].owner = o}

\* Submissions of an owner that have passed the quota, and those of an address
\* that have missed the cache, and are not stored yet.
Through(o) == {p \in Processes : call[p].doing = "saving" /\ call[p].owner = o}
Asking(o, k) ==
    {p \in Processes : /\ call[p].doing \in {"counting", "saving"}
                       /\ call[p].owner = o /\ call[p].key = k}

\* A coroutine's row is there and unfinished, and the next job's is not.
RowsFollow ==
    /\ \A p \in Processes : process[p] = "serving" /\ call[p].doing \notin {"reconciling", "failing"}
    /\ \A j \in Jobs : tasks[j] # NoTask => Present(j) /\ rows[j].status \in Unfinished
    /\ \A j \in Jobs : j > made => ~Present(j)

QuotaRoom ==
    ConcurrentJobs # 0 =>
        \A o \in Owners :
            Active(o) + Cardinality(Through(o)) <= ConcurrentJobs + Cardinality(Processes) - 1

CacheRoom ==
    \A o \in Owners, k \in Keys :
        Cardinality(Cached(o, k)) + Cardinality(Asking(o, k)) <= Cardinality(Processes)

RoomLeft == Undisturbed => RowsFollow /\ QuotaRoom /\ CacheRoom

\* Everything counted here can be counted.
LEMMA Countable ==
    ASSUME NEW o, NEW k
    PROVE  /\ IsFiniteSet(ActiveJobs(o)) /\ IsFiniteSet(Cached(o, k))
           /\ IsFiniteSet(Through(o)) /\ IsFiniteSet(Asking(o, k))
           /\ Active(o) = Cardinality(ActiveJobs(o)) /\ Active(o) \in Nat
           /\ Cardinality(Cached(o, k)) \in Nat
           /\ Cardinality(Through(o)) \in 0..Cardinality(Processes)
           /\ Cardinality(Asking(o, k)) \in 0..Cardinality(Processes)
           /\ Cardinality(Processes) \in Nat
<1>1. IsFiniteSet(Jobs)
  BY FS_Interval DEF Jobs
<1>2. /\ ActiveJobs(o) \in SUBSET Jobs /\ Cached(o, k) \in SUBSET Jobs
      /\ Through(o) \in SUBSET Processes /\ Asking(o, k) \in SUBSET Processes
  BY DEF ActiveJobs, UnfinishedRows, Cached, Through, Asking
<1>3. Active(o) = Cardinality(ActiveJobs(o))
  BY DEF Active, ActiveJobs
<1>4. /\ IsFiniteSet(ActiveJobs(o)) /\ IsFiniteSet(Cached(o, k))
      /\ IsFiniteSet(Through(o)) /\ IsFiniteSet(Asking(o, k))
      /\ Cardinality(Through(o)) <= Cardinality(Processes)
      /\ Cardinality(Asking(o, k)) <= Cardinality(Processes)
  BY <1>1, <1>2, FS_Subset
<1> QED
  BY <1>3, <1>4, FS_CardinalityType

LEMMA OwnerCountable ==
    ASSUME NEW o
    PROVE  /\ IsFiniteSet(ActiveJobs(o)) /\ IsFiniteSet(Through(o))
           /\ Active(o) = Cardinality(ActiveJobs(o)) /\ Active(o) \in Nat
           /\ Cardinality(Through(o)) \in Nat /\ Cardinality(Processes) \in Nat
           /\ ConcurrentJobs \in Nat
<1> DEFINE k == NoKey
<1>1. /\ IsFiniteSet(ActiveJobs(o)) /\ IsFiniteSet(Through(o))
      /\ Active(o) = Cardinality(ActiveJobs(o)) /\ Active(o) \in Nat
      /\ Cardinality(Through(o)) \in 0..Cardinality(Processes) /\ Cardinality(Processes) \in Nat
  BY Countable, Cached(o, k) = Cached(o, k)
<1> QED
  BY <1>1, SubmissionAssumption

\* A part of a finite set counts no more than the set; one element more or less
\* counts one more or less.
LEMMA PartCounts ==
    ASSUME NEW S, NEW T, IsFiniteSet(S), T \subseteq S
    PROVE  /\ Cardinality(S) \in Nat /\ Cardinality(T) \in Nat
           /\ Cardinality(T) <= Cardinality(S)
<1>1. IsFiniteSet(T) /\ Cardinality(T) <= Cardinality(S)
  BY FS_Subset
<1> QED
  BY <1>1, FS_CardinalityType

LEMMA OneMore ==
    ASSUME NEW S, NEW T, NEW x, IsFiniteSet(S), x \notin S, T = S \cup {x}
    PROVE  /\ Cardinality(S) \in Nat
           /\ Cardinality(T) = Cardinality(S) + 1
<1>1. Cardinality(S \cup {x}) = Cardinality(S) + 1
  BY FS_AddElement
<1>2. Cardinality(S) \in Nat
  BY FS_CardinalityType
<1> QED
  BY <1>1, <1>2

LEMMA OneLess ==
    ASSUME NEW S, NEW T, NEW x, IsFiniteSet(S), x \in S, T = S \ {x}
    PROVE  /\ Cardinality(S) \in Nat
           /\ Cardinality(T) = Cardinality(S) - 1
<1>1. Cardinality(S \ {x}) = Cardinality(S) - 1
  BY FS_RemoveElement
<1>2. Cardinality(S) \in Nat
  BY FS_CardinalityType
<1> QED
  BY <1>1, <1>2

\* A job that leaves the table, or a submission that gives up, takes no room.
LEMMA RoomStays ==
    ASSUME QuotaRoom, CacheRoom,
           \A o \in Owners : ActiveJobs(o)' \subseteq ActiveJobs(o) /\ Through(o)' \subseteq Through(o),
           \A o \in Owners, k \in Keys : /\ Cached(o, k)' \subseteq Cached(o, k)
                                         /\ Asking(o, k)' \subseteq Asking(o, k)
    PROVE  QuotaRoom' /\ CacheRoom'
<1>1. ASSUME NEW o \in Owners
      PROVE  /\ Active(o)' \in Nat /\ Cardinality(Through(o)') \in Nat
             /\ Active(o)' <= Active(o) /\ Cardinality(Through(o)') <= Cardinality(Through(o))
  <2>1. /\ Cardinality(ActiveJobs(o)') <= Cardinality(ActiveJobs(o))
        /\ Cardinality(ActiveJobs(o)') \in Nat
    BY OwnerCountable, PartCounts
  <2>2. /\ Cardinality(Through(o)') <= Cardinality(Through(o))
        /\ Cardinality(Through(o)') \in Nat
    BY OwnerCountable, PartCounts
  <2>3. Active(o)' = Cardinality(ActiveJobs(o)') /\ Active(o) = Cardinality(ActiveJobs(o))
    BY DEF Active, ActiveJobs
  <2> QED
    BY <2>1, <2>2, <2>3
<1>2. ASSUME NEW o \in Owners, NEW k \in Keys
      PROVE  /\ Cardinality(Cached(o, k)') \in Nat /\ Cardinality(Asking(o, k)') \in Nat
             /\ Cardinality(Cached(o, k)') <= Cardinality(Cached(o, k))
             /\ Cardinality(Asking(o, k)') <= Cardinality(Asking(o, k))
  BY Countable, PartCounts
<1>3. QuotaRoom'
  <2> SUFFICES ASSUME ConcurrentJobs # 0, NEW o \in Owners
               PROVE  Active(o)' + Cardinality(Through(o)')
                        <= ConcurrentJobs + Cardinality(Processes) - 1
    BY DEF QuotaRoom
  <2>1. /\ Active(o) \in Nat /\ Cardinality(Through(o)) \in Nat
        /\ Cardinality(Processes) \in Nat /\ ConcurrentJobs \in Nat
    BY OwnerCountable
  <2> QED
    BY <1>1, <2>1 DEF QuotaRoom
<1>4. CacheRoom'
  <2> SUFFICES ASSUME NEW o \in Owners, NEW k \in Keys
               PROVE  Cardinality(Cached(o, k)') + Cardinality(Asking(o, k)')
                        <= Cardinality(Processes)
    BY DEF CacheRoom
  <2>1. /\ Cardinality(Cached(o, k)) \in Nat /\ Cardinality(Asking(o, k)) \in Nat
        /\ Cardinality(Processes) \in Nat
    BY Countable
  <2> QED
    BY <1>2, <2>1 DEF CacheRoom
<1> QED
  BY <1>3, <1>4

LEMMA RoomInit == Init => RoomLeft
<1> SUFFICES ASSUME Init PROVE RoomLeft
  OBVIOUS
<1>1. RowsFollow
  BY DEF Init, RowsFollow, Idle, Present
<1>2. \A o, k : /\ ActiveJobs(o) = {} /\ Cached(o, k) = {}
                /\ Through(o) = {} /\ Asking(o, k) = {}
  BY DEF Init, ActiveJobs, UnfinishedRows, Cached, Through, Asking, Idle, Present
<1>3. \A o, k : /\ Active(o) = 0 /\ Cardinality(Cached(o, k)) = 0
                /\ Cardinality(Through(o)) = 0 /\ Cardinality(Asking(o, k)) = 0
  BY <1>2, FS_EmptySet, Countable
<1>4. Cardinality(Processes) \in Nat
  BY FS_CardinalityType
<1> QED
  BY <1>1, <1>3, <1>4 DEF RoomLeft, QuotaRoom, CacheRoom

\* Only a process that finds an address nowhere starts to ask for it.
LEMMA LookLeavesRoom ==
    ASSUME IInv, Undisturbed, RoomLeft, NEW p \in Processes, Look(p)
    PROVE  RowsFollow' /\ QuotaRoom' /\ CacheRoom'
<1>1. UNCHANGED <<made, expired, rows, tasks, process, hits, deaths>> /\ call[p].doing = "idle"
  BY DEF Look, Free, Idle
<1>2. RowsFollow /\ QuotaRoom /\ CacheRoom
  BY DEF RoomLeft
<1>3. /\ \A o \in Owners : ActiveJobs(o)' = ActiveJobs(o)
      /\ \A o \in Owners, k \in Keys : Cached(o, k)' = Cached(o, k)
  BY <1>1 DEF ActiveJobs, UnfinishedRows, Present, Cached
<1>4. ASSUME NEW x \in Call, call' = [call EXCEPT ![p] = x],
             x.doing \in {"reusing", "counting"}
      PROVE  RowsFollow' /\ \A o \in Owners : Through(o)' \subseteq Through(o)
  BY <1>1, <1>2, <1>4 DEF RowsFollow, Through, Present, IInv, TypeOK
<1>5. CASE \E o \in Owners, k \in Keys \cup {NoKey} : \E j \in Cached(o, k) :
             call' = [call EXCEPT ![p] = [doing |-> "reusing", job |-> j,
                                          found |-> rows[j].reused]]
  <2>1. PICK j \in Jobs :
           /\ Present(j)
           /\ call' = [call EXCEPT ![p] = [doing |-> "reusing", job |-> j,
                                           found |-> rows[j].reused]]
    BY <1>5 DEF Cached
  <2> DEFINE x == [doing |-> "reusing", job |-> j, found |-> rows[j].reused]
  <2>2. rows[j].reused \in Nat
    BY <2>1 DEF Present, IInv, TypeOK, Row
  <2>3. x \in Call /\ x.doing = "reusing"
    BY <2>2 DEF Call
  <2>4. call' = [call EXCEPT ![p] = x]
    BY <2>1
  <2> HIDE DEF x
  <2>5. \A o \in Owners, k \in Keys : Asking(o, k)' \subseteq Asking(o, k)
    BY <2>3, <2>4 DEF Asking, IInv, TypeOK
  <2> QED
    BY <1>2, <1>3, <1>4, <2>3, <2>4, <2>5, RoomStays
<1>6. CASE \E o \in Owners, k \in Keys \cup {NoKey} :
             /\ k = NoKey \/ Cached(o, k) = {}
             /\ call' = [call EXCEPT ![p] = [doing |-> "counting", owner |-> o, key |-> k]]
  <2>1. PICK o \in Owners, k \in Keys \cup {NoKey} :
           /\ k = NoKey \/ Cached(o, k) = {}
           /\ call' = [call EXCEPT ![p] = [doing |-> "counting", owner |-> o, key |-> k]]
    BY <1>6
  <2> DEFINE x == [doing |-> "counting", owner |-> o, key |-> k]
  <2>2. x \in Call /\ x.doing = "counting" /\ x.owner = o /\ x.key = k
    BY DEF Call
  <2>3. call' = [call EXCEPT ![p] = x]
    BY <2>1
  <2> HIDE DEF x
  <2>4. RowsFollow' /\ \A u \in Owners : Through(u)' \subseteq Through(u)
    BY <1>4, <2>2, <2>3
  <2>5. \A u \in Owners, l \in Keys : ~(u = o /\ l = k) => Asking(u, l)' \subseteq Asking(u, l)
    BY <2>2, <2>3 DEF Asking, IInv, TypeOK
  <2>6. ASSUME NEW u \in Owners, NEW l \in Keys
        PROVE  Cardinality(Cached(u, l))' + Cardinality(Asking(u, l))' <= Cardinality(Processes)
    <3>1. /\ Asking(u, l)' \in SUBSET Processes
          /\ Cardinality(Asking(u, l)') \in Nat
          /\ Cardinality(Asking(u, l)') <= Cardinality(Processes)
      <4>1. Asking(u, l)' \in SUBSET Processes
        BY DEF Asking
      <4> QED
        BY <4>1, FS_Subset, FS_CardinalityType
    <3>2. CASE u = o /\ l = k
      <4>1. Cached(u, l)' = {}
        BY <1>3, <2>1, <3>2
      <4> QED
        BY <3>1, <4>1, FS_EmptySet, Countable
    <3>3. CASE ~(u = o /\ l = k)
      <4>1. Cardinality(Asking(u, l)') <= Cardinality(Asking(u, l))
        BY <2>5, <3>3, FS_Subset, Countable
      <4> QED
        BY <1>2, <1>3, <3>1, <4>1, Countable DEF CacheRoom
    <3> QED
      BY <3>2, <3>3
  <2>7. CacheRoom'
    BY <2>6 DEF CacheRoom
  <2>8. QuotaRoom'
    <3> SUFFICES ASSUME ConcurrentJobs # 0, NEW u \in Owners
                 PROVE  Active(u)' + Cardinality(Through(u))'
                          <= ConcurrentJobs + Cardinality(Processes) - 1
      BY DEF QuotaRoom
    <3>1. Active(u)' = Active(u)
      BY <1>3 DEF Active, ActiveJobs
    <3>2. /\ Cardinality(Through(u)') <= Cardinality(Through(u))
          /\ Cardinality(Through(u)') \in Nat
      BY <2>4, FS_Subset, FS_CardinalityType, Countable
    <3> QED
      BY <1>2, <3>1, <3>2, Countable DEF QuotaRoom
  <2> QED
    BY <2>4, <2>7, <2>8
<1> QED
  BY <1>5, <1>6 DEF Look

\* Whoever passes the quota saw room for one more, and so did everyone who passed
\* it without having stored a job yet.
LEMMA CountLeavesRoom ==
    ASSUME IInv, Undisturbed, RoomLeft, NEW p \in Processes, Count(p)
    PROVE  RowsFollow' /\ QuotaRoom' /\ CacheRoom'
<1> DEFINE x == IF ConcurrentJobs # 0 /\ Active(call[p].owner) >= ConcurrentJobs THEN Idle
                ELSE [call[p] EXCEPT !.doing = "saving"]
<1>1. /\ call[p].doing = "counting" /\ call' = [call EXCEPT ![p] = x]
      /\ UNCHANGED <<made, expired, rows, tasks, process, hits, deaths>>
  BY DEF Count
<1>2. RowsFollow /\ QuotaRoom /\ CacheRoom
  BY DEF RoomLeft
<1>3. /\ \A o \in Owners : ActiveJobs(o)' = ActiveJobs(o)
      /\ \A o \in Owners, k \in Keys : Cached(o, k)' = Cached(o, k)
  BY <1>1 DEF ActiveJobs, UnfinishedRows, Present, Cached
<1>4. CASE x = Idle
  <2>1. RowsFollow'
    BY <1>1, <1>2, <1>4 DEF RowsFollow, Present, Idle, IInv, TypeOK
  <2>2. \A o \in Owners : Through(o)' \subseteq Through(o)
    BY <1>1, <1>4 DEF Through, Idle, IInv, TypeOK
  <2>3. \A o \in Owners, k \in Keys : Asking(o, k)' \subseteq Asking(o, k)
    BY <1>1, <1>4 DEF Asking, Idle, IInv, TypeOK
  <2> QED
    BY <1>2, <1>3, <2>1, <2>2, <2>3, RoomStays
<1>5. CASE x = [call[p] EXCEPT !.doing = "saving"]
          /\ ~(ConcurrentJobs # 0 /\ Active(call[p].owner) >= ConcurrentJobs)
  <2>1. call[p].owner \in Owners
    BY <1>1, CallShape DEF IInv
  <2>2. x.doing = "saving" /\ x.owner = call[p].owner /\ x.key = call[p].key
    <3>1. call[p] \in [doing : {"counting", "saving"}, owner : Owners, key : Keys \cup {NoKey}]
      BY <1>1 DEF IInv, TypeOK, Call
    <3> QED
      BY <1>5, <3>1
  <2> HIDE DEF x
  <2>3. RowsFollow'
    BY <1>1, <1>2, <2>2 DEF RowsFollow, Present, IInv, TypeOK
  <2>4. \A o \in Owners, k \in Keys : Asking(o, k)' \subseteq Asking(o, k)
    BY <1>1, <2>2 DEF Asking, IInv, TypeOK
  <2>5. CacheRoom'
    <3> SUFFICES ASSUME NEW o \in Owners, NEW k \in Keys
                 PROVE  Cardinality(Cached(o, k))' + Cardinality(Asking(o, k))'
                          <= Cardinality(Processes)
      BY DEF CacheRoom
    <3>1. /\ Cardinality(Asking(o, k)') <= Cardinality(Asking(o, k))
          /\ Cardinality(Asking(o, k)') \in Nat
      BY <2>4, FS_Subset, FS_CardinalityType, Countable
    <3> QED
      BY <1>2, <1>3, <3>1, Countable DEF CacheRoom
  <2>6. ASSUME ConcurrentJobs # 0, NEW o \in Owners
        PROVE  Active(o)' + Cardinality(Through(o))'
                 <= ConcurrentJobs + Cardinality(Processes) - 1
    <3>1. Active(o)' = Active(o)
      BY <1>3 DEF Active, ActiveJobs
    <3>2. /\ Through(o)' \in SUBSET Processes
          /\ Cardinality(Through(o)') \in Nat
          /\ Cardinality(Through(o)') <= Cardinality(Processes)
      <4>1. Through(o)' \in SUBSET Processes
        BY DEF Through
      <4> QED
        BY <4>1, FS_Subset, FS_CardinalityType
    <3>3. CASE o = call[p].owner
      <4>1. Active(o) \in Nat /\ Cardinality(Processes) \in Nat /\ ConcurrentJobs \in Nat
        BY OwnerCountable
      <4>2. ~(Active(o) >= ConcurrentJobs)
        BY <1>5, <2>6, <3>3
      <4> QED
        BY <3>1, <3>2, <4>1, <4>2
    <3>4. CASE o # call[p].owner
      <4>1. Through(o)' \in SUBSET Through(o)
        BY <1>1, <2>2, <3>4 DEF Through, IInv, TypeOK
      <4>2. Cardinality(Through(o)') <= Cardinality(Through(o))
        BY <4>1, FS_Subset, Countable
      <4>3. Active(o) + Cardinality(Through(o)) <= ConcurrentJobs + Cardinality(Processes) - 1
        BY <1>2, <2>6 DEF QuotaRoom
      <4>4. /\ Active(o) \in Nat /\ Cardinality(Through(o)) \in Nat
            /\ Cardinality(Processes) \in Nat /\ ConcurrentJobs \in Nat
        BY OwnerCountable
      <4> QED
        BY <3>1, <3>2, <4>2, <4>3, <4>4
    <3> QED
      BY <3>3, <3>4
  <2>7. QuotaRoom'
    BY <2>6 DEF QuotaRoom
  <2> QED
    BY <2>3, <2>5, <2>7
<1> QED
  BY <1>4, <1>5

\* The submission that is stored gives up the place it held for it.
LEMMA SaveLeavesRoom ==
    ASSUME IInv, Undisturbed, RoomLeft, NEW p \in Processes, Save(p)
    PROVE  RowsFollow' /\ QuotaRoom' /\ CacheRoom'
<1> DEFINE j == made + 1
           o == call[p].owner
           k == call[p].key
           t == [process |-> p, owner |-> o, key |-> k, status |-> "queued"]
<1>1. /\ call[p].doing = "saving" /\ o \in Owners /\ k \in Keys \cup {NoKey}
      /\ made' = j /\ Put(j, o, k, "queued")
      /\ tasks' = [tasks EXCEPT ![j] = t]
      /\ call' = [call EXCEPT ![p] = Idle] /\ UNCHANGED <<expired, process, deaths>>
  BY CallShape DEF Save, IInv
<1>2. p \in Pending
  BY <1>1 DEF Pending
<1>3. Cardinality(Pending) # 0
  BY <1>2, PendingFinite, FS_EmptySet
<1>4. j \in Jobs /\ j > made /\ made \in Nat
  BY <1>3, PendingFinite DEF IInv, NumbersLeft, TypeOK, Jobs
<1>5. RowsFollow /\ QuotaRoom /\ CacheRoom
  BY DEF RoomLeft
<1>6. ~Present(j)
  BY <1>4, <1>5 DEF RowsFollow
<1>7. rows' = [rows EXCEPT ![j] = [owner |-> o, key |-> k, status |-> "queued", reused |-> 0]]
  BY <1>1, <1>6 DEF Put
<1>8. /\ rows'[j] # NoRow /\ \A i \in Jobs : i # j => rows'[i] = rows[i]
  BY <1>1, <1>4, PutTypes DEF IInv, Unfinished
<1>9. rows'[j].owner = o /\ rows'[j].key = k /\ rows'[j].status = "queued"
  BY <1>4, <1>7 DEF IInv, TypeOK
<1>10. /\ Idle.doing = "idle" /\ call'[p] = Idle
       /\ \A q \in Processes : q # p => call'[q] = call[q]
  BY <1>1 DEF Idle, IInv, TypeOK
<1>11. RowsFollow'
  <2>1. \A i \in Jobs : i > made' => ~Present(i)'
    BY <1>1, <1>4, <1>5, <1>8 DEF RowsFollow, Present, Jobs
  <2>2. \A i \in Jobs : tasks'[i] # NoTask => Present(i)' /\ rows'[i].status \in Unfinished
    <3> SUFFICES ASSUME NEW i \in Jobs, tasks'[i] # NoTask
                 PROVE  rows'[i] # NoRow /\ rows'[i].status \in Unfinished
      BY DEF Present
    <3>1. CASE i = j
      BY <1>8, <1>9, <3>1 DEF Unfinished
    <3>2. CASE i # j
      <4>1. tasks[i] # NoTask
        BY <1>1, <3>2 DEF IInv, TypeOK
      <4> QED
        BY <1>5, <1>8, <3>2, <4>1 DEF RowsFollow, Present
    <3> QED
      BY <3>1, <3>2
  <2>3. \A q \in Processes :
            process'[q] = "serving" /\ call'[q].doing \notin {"reconciling", "failing"}
    BY <1>1, <1>5, <1>10 DEF RowsFollow
  <2> QED
    BY <2>1, <2>2, <2>3 DEF RowsFollow
<1> HIDE DEF j, o, k, t
<1>12. ASSUME ConcurrentJobs # 0, NEW u \in Owners
       PROVE  Active(u)' + Cardinality(Through(u))'
                <= ConcurrentJobs + Cardinality(Processes) - 1
  <2>1. Active(u)' = Cardinality(ActiveJobs(u)')
    BY DEF Active, ActiveJobs
  <2>2. CASE u = o
    <3>1. ActiveJobs(u)' = ActiveJobs(u) \cup {j} /\ j \notin ActiveJobs(u)
      BY <1>4, <1>6, <1>8, <1>9, <2>2 DEF ActiveJobs, UnfinishedRows, Present, Unfinished
    <3>2. Through(u)' = Through(u) \ {p} /\ p \in Through(u)
      BY <1>1, <1>10, <2>2 DEF Through, o
    <3>3. Cardinality(ActiveJobs(u)') = Cardinality(ActiveJobs(u)) + 1
      BY <3>1, OwnerCountable, OneMore
    <3>4. Cardinality(Through(u)') = Cardinality(Through(u)) - 1
      BY <3>2, OwnerCountable, OneLess
    <3>5. Active(u) + Cardinality(Through(u)) <= ConcurrentJobs + Cardinality(Processes) - 1
      BY <1>5, <1>12 DEF QuotaRoom
    <3>6. /\ Active(u) \in Nat /\ Cardinality(Through(u)) \in Nat
          /\ Active(u) = Cardinality(ActiveJobs(u)) /\ Cardinality(Processes) \in Nat
          /\ ConcurrentJobs \in Nat
      BY OwnerCountable
    <3> QED
      BY <2>1, <3>3, <3>4, <3>5, <3>6
  <2>3. CASE u # o
    <3>1. ActiveJobs(u)' = ActiveJobs(u)
      BY <1>4, <1>6, <1>8, <1>9, <2>3 DEF ActiveJobs, UnfinishedRows, Present, Unfinished
    <3>2. Through(u)' = Through(u)
      BY <1>1, <1>10, <2>3 DEF Through, o
    <3> QED
      BY <1>5, <1>12, <2>1, <3>1, <3>2, Countable DEF QuotaRoom
  <2> QED
    BY <2>2, <2>3
<1>13. ASSUME NEW u \in Owners, NEW l \in Keys
       PROVE  Cardinality(Cached(u, l))' + Cardinality(Asking(u, l))' <= Cardinality(Processes)
  <2>1. CASE u = o /\ l = k
    <3>1. Cached(u, l)' = Cached(u, l) \cup {j} /\ j \notin Cached(u, l)
      BY <1>4, <1>6, <1>8, <1>9, <2>1 DEF Cached, Present, Unfinished
    <3>2. Asking(u, l)' = Asking(u, l) \ {p} /\ p \in Asking(u, l)
      BY <1>1, <1>10, <2>1 DEF Asking, o, k
    <3>3. Cardinality(Cached(u, l)') = Cardinality(Cached(u, l)) + 1
      BY <3>1, Countable, OneMore
    <3>4. Cardinality(Asking(u, l)') = Cardinality(Asking(u, l)) - 1
      BY <3>2, Countable, OneLess
    <3>5. Cardinality(Cached(u, l)) + Cardinality(Asking(u, l)) <= Cardinality(Processes)
      BY <1>5 DEF CacheRoom
    <3>6. Cardinality(Cached(u, l)) \in Nat /\ Cardinality(Asking(u, l)) \in Nat
      BY Countable
    <3> QED
      BY <3>3, <3>4, <3>5, <3>6
  <2>2. CASE ~(u = o /\ l = k)
    <3>1. Cached(u, l)' = Cached(u, l)
      BY <1>4, <1>6, <1>8, <1>9, <2>2 DEF Cached, Present, Unfinished
    <3>2. Asking(u, l)' = Asking(u, l)
      BY <1>1, <1>10, <2>2 DEF Asking, o, k
    <3> QED
      BY <1>5, <3>1, <3>2 DEF CacheRoom
  <2> QED
    BY <2>1, <2>2
<1> QED
  BY <1>11, <1>12, <1>13 DEF QuotaRoom, CacheRoom

\* A coroutine writes the row that is there: the job stays where it was counted or
\* is counted no more.
LEMMA SolveLeavesRoom ==
    ASSUME IInv, Undisturbed, RoomLeft, NEW j \in Jobs, SolveStep(j)
    PROVE  RowsFollow' /\ QuotaRoom' /\ CacheRoom'
<1>1. PICK s \in {"running"} \cup Terminal :
         /\ tasks[j] # NoTask /\ Put(j, tasks[j].owner, tasks[j].key, s)
         /\ UNCHANGED <<made, expired, process, call, deaths>>
         /\ \A i \in Jobs : tasks'[i] # NoTask => tasks[i] # NoTask
         /\ s \in Terminal => tasks'[j] = NoTask
  <2>1. CASE Begin(j)
    <3>1. /\ tasks[j] # NoTask /\ Put(j, tasks[j].owner, tasks[j].key, "running")
          /\ UNCHANGED <<made, expired, process, call, deaths>>
          /\ \A i \in Jobs : tasks'[i] # NoTask => tasks[i] # NoTask
      BY <2>1 DEF Begin, IInv, TypeOK
    <3> QED
      BY <3>1 DEF Terminal
  <2>2. CASE Conclude(j)
    <3>1. PICK s \in Terminal : Put(j, tasks[j].owner, tasks[j].key, s)
      BY <2>2 DEF Conclude
    <3>2. /\ tasks[j] # NoTask /\ tasks'[j] = NoTask
          /\ UNCHANGED <<made, expired, process, call, deaths>>
          /\ \A i \in Jobs : tasks'[i] # NoTask => tasks[i] # NoTask
      BY <2>2 DEF Conclude, IInv, TypeOK
    <3> QED
      BY <3>1, <3>2
  <2> QED
    BY <2>1, <2>2 DEF SolveStep
<1>2. RowsFollow /\ QuotaRoom /\ CacheRoom
  BY DEF RoomLeft
<1>3. Present(j) /\ rows[j].status \in Unfinished /\ rows[j] \in Row
  BY <1>1, <1>2 DEF RowsFollow, Present, IInv, TypeOK
<1>4. /\ rows'[j] # NoRow /\ rows'[j].status = s
      /\ rows'[j].owner = rows[j].owner /\ rows'[j].key = rows[j].key
      /\ \A i \in Jobs : i # j => rows'[i] = rows[i]
  <2>1. s \in Unfinished \cup Terminal /\ tasks[j].owner \in Owners
        /\ tasks[j].key \in Keys \cup {NoKey}
    BY <1>1 DEF Unfinished, IInv, TypeOK, Task
  <2>2. rows' = [rows EXCEPT ![j] = [rows[j] EXCEPT !.status = s]]
    BY <1>1, <1>3 DEF Put
  <2>3. /\ [rows[j] EXCEPT !.status = s].owner = rows[j].owner
        /\ [rows[j] EXCEPT !.status = s].key = rows[j].key
    BY <1>3 DEF Row
  <2>4. rows'[j] = [rows[j] EXCEPT !.status = s]
    BY <2>2 DEF IInv, TypeOK
  <2>5. /\ rows'[j] # NoRow /\ rows'[j].status = s
        /\ \A i \in Jobs : i # j => rows'[i] = rows[i]
    BY <1>1, <2>1, PutTypes DEF IInv
  <2> QED
    BY <2>3, <2>4, <2>5
<1>5. RowsFollow'
  <2>1. \A i \in Jobs : tasks'[i] # NoTask => Present(i)' /\ rows'[i].status \in Unfinished
    <3> SUFFICES ASSUME NEW i \in Jobs, tasks'[i] # NoTask
                 PROVE  rows'[i] # NoRow /\ rows'[i].status \in Unfinished
      BY DEF Present
    <3>1. CASE i = j
      BY <1>1, <1>4, <3>1 DEF Unfinished
    <3>2. CASE i # j
      BY <1>1, <1>2, <1>4, <3>2 DEF RowsFollow, Present
    <3> QED
      BY <3>1, <3>2
  <2>2. \A i \in Jobs : i > made' => ~Present(i)'
    BY <1>1, <1>2, <1>3, <1>4 DEF RowsFollow, Present
  <2> QED
    BY <1>1, <1>2, <2>1, <2>2 DEF RowsFollow
<1>6. /\ \A o \in Owners : ActiveJobs(o)' \subseteq ActiveJobs(o)
      /\ \A o \in Owners, k \in Keys : Cached(o, k)' \subseteq Cached(o, k)
  BY <1>3, <1>4 DEF ActiveJobs, UnfinishedRows, Cached, Present
<1>7. /\ \A o \in Owners : Through(o)' = Through(o)
      /\ \A o \in Owners, k \in Keys : Asking(o, k)' = Asking(o, k)
  BY <1>1 DEF Through, Asking
<1> QED
  BY <1>2, <1>5, <1>6, <1>7, RoomStays

\* What is left takes no place: an answer from the cache, and a sweep with nothing
\* past its time.
LEMMA RestLeavesRoom ==
    ASSUME IInv, Undisturbed, RoomLeft,
           (\E p \in Processes : Reuse(p) \/ Sweep(p)) \/ UNCHANGED vars
    PROVE  RowsFollow' /\ QuotaRoom' /\ CacheRoom'
<1>1. RowsFollow /\ QuotaRoom /\ CacheRoom
  BY DEF RoomLeft
<1>2. UNCHANGED <<made, tasks, process>>
  BY DEF Reuse, Sweep, vars
<1>3. \A i \in Jobs : /\ Present(i)' <=> Present(i)
                      /\ Present(i) => /\ rows'[i].owner = rows[i].owner
                                       /\ rows'[i].key = rows[i].key
                                       /\ rows'[i].status = rows[i].status
  <2>1. CASE \E p \in Processes : Reuse(p)
    <3>1. PICK p \in Processes : Reuse(p)
      BY <2>1
    <3>2. PICK j \in Jobs : call[p].job = j
      BY <3>1, CallShape DEF Reuse, IInv
    <3>3. CASE Present(j)
      <4> DEFINE r == [rows[j] EXCEPT !.reused = @ + 1]
      <4>1. rows' = [rows EXCEPT ![j] = r]
        BY <3>1, <3>2, <3>3 DEF Reuse
      <4>2. rows[j] \in Row
        BY <3>3 DEF Present, IInv, TypeOK
      <4>3. r \in Row /\ r.owner = rows[j].owner /\ r.key = rows[j].key /\ r.status = rows[j].status
        BY <4>2 DEF Row
      <4> HIDE DEF r
      <4>4. rows'[j] = r /\ \A i \in Jobs : i # j => rows'[i] = rows[i]
        BY <4>1 DEF IInv, TypeOK
      <4> QED
        BY <3>3, <4>3, <4>4 DEF Present
    <3>4. CASE ~Present(j)
      BY <3>1, <3>2, <3>4 DEF Reuse, Present
    <3> QED
      BY <3>3, <3>4
  <2>2. CASE \E p \in Processes : Sweep(p)
    <3>1. rows' = [i \in Jobs |-> IF i <= 0 THEN NoRow ELSE rows[i]]
      BY <2>2 DEF Sweep, Purged, Undisturbed
    <3> QED
      BY <3>1 DEF Present, Jobs
  <2>3. CASE UNCHANGED vars
    BY <2>3 DEF vars, Present
  <2> QED
    BY <2>1, <2>2, <2>3
<1>4. \A p \in Processes : call'[p] = call[p] \/ (call'[p] = Idle)
  BY DEF Reuse, Sweep, vars, IInv, TypeOK
<1>5. Idle.doing = "idle"
  BY DEF Idle
<1>6. RowsFollow'
  <2>1. \A i \in Jobs : tasks'[i] # NoTask => Present(i)' /\ rows'[i].status \in Unfinished
    BY <1>1, <1>2, <1>3 DEF RowsFollow
  <2>2. \A i \in Jobs : i > made' => ~Present(i)'
    BY <1>1, <1>2, <1>3 DEF RowsFollow
  <2>3. \A p \in Processes :
            process'[p] = "serving" /\ call'[p].doing \notin {"reconciling", "failing"}
    BY <1>1, <1>2, <1>4, <1>5 DEF RowsFollow
  <2> QED
    BY <2>1, <2>2, <2>3 DEF RowsFollow
<1>7. /\ \A o \in Owners : ActiveJobs(o)' \subseteq ActiveJobs(o)
      /\ \A o \in Owners, k \in Keys : Cached(o, k)' \subseteq Cached(o, k)
  BY <1>3 DEF ActiveJobs, UnfinishedRows, Cached
<1>8. /\ \A o \in Owners : Through(o)' \subseteq Through(o)
      /\ \A o \in Owners, k \in Keys : Asking(o, k)' \subseteq Asking(o, k)
  BY <1>4, <1>5 DEF Through, Asking
<1> QED
  BY <1>1, <1>6, <1>7, <1>8, RoomStays

LEMMA RoomStep == IInv /\ RoomLeft /\ [Next]_vars => RoomLeft'
<1> SUFFICES ASSUME IInv, RoomLeft, [Next]_vars, Undisturbed'
             PROVE  RowsFollow' /\ QuotaRoom' /\ CacheRoom'
  BY DEF RoomLeft
<1>1. Undisturbed /\ deaths' = deaths /\ expired' = expired
  <2>1. deaths' = deaths \/ deaths' = deaths + 1
    BY DEF Next, LoopStep, SolveStep, Look, Reuse, Count, Save, Start, ReadStranded, FailStranded,
           Serve, Die, Sweep, Begin, Conclude, Expire, vars
  <2>2. expired' = expired \/ expired' = expired + 1
    BY DEF Next, LoopStep, SolveStep, Look, Reuse, Count, Save, Start, ReadStranded, FailStranded,
           Serve, Die, Sweep, Begin, Conclude, Expire, vars
  <2>3. deaths \in Nat /\ expired \in Nat
    BY DEF IInv, TypeOK
  <2> QED
    BY <2>1, <2>2, <2>3 DEF Undisturbed
<1>2. \A p \in Processes :
          process[p] = "serving" /\ call[p].doing \notin {"reconciling", "failing"}
  BY <1>1 DEF RoomLeft, RowsFollow
<1>3. CASE \E p \in Processes : Look(p)
  BY <1>1, <1>3, LookLeavesRoom
<1>4. CASE \E p \in Processes : LoopStep(p)
  <2>1. PICK p \in Processes : LoopStep(p)
    BY <1>4
  <2>2. ~Start(p) /\ ~ReadStranded(p) /\ ~FailStranded(p) /\ ~Serve(p)
    BY <1>2 DEF Start, ReadStranded, FailStranded, Serve
  <2> QED
    BY <1>1, <2>1, <2>2, CountLeavesRoom, SaveLeavesRoom, RestLeavesRoom DEF LoopStep
<1>5. CASE \E p \in Processes : Die(p)
  BY <1>1, <1>5 DEF Die, IInv, TypeOK
<1>6. CASE Expire
  BY <1>1, <1>6 DEF Expire, IInv, TypeOK
<1>7. CASE \E j \in Jobs : SolveStep(j)
  BY <1>1, <1>7, SolveLeavesRoom
<1>8. CASE (\E p \in Processes : Sweep(p)) \/ UNCHANGED vars
  BY <1>1, <1>8, RestLeavesRoom
<1> QED
  BY <1>3, <1>4, <1>5, <1>6, <1>7, <1>8 DEF Next

LEMMA RoomInductive == Spec => [](IInv /\ RoomLeft)
BY SubmissionInductive, RoomInit, RoomStep, PTL DEF Spec

-----------------------------------------------------------------------------
(* The theorems *)

\* Whatever the processes do and whichever of them die, the table, the coroutines
\* and the calls keep their types (core/jobs.py: Job; core/store.py: SCHEMA).
THEOREM SubmissionTypeCorrect == Spec => []TypeOK
<1>1. IInv => TypeOK
  BY DEF IInv
<1> QED
  BY SubmissionInductive, <1>1, PTL

\* No death, no sweep and no reconciliation by another process leaves an unfinished
\* row that nobody solves and that no process is going to fail (jobs.py: reconcile).
THEOREM StrandedJobsAreListed == Spec => []StrandedIsListed
<1>1. IInv => StrandedIsListed
  BY DEF IInv
<1> QED
  BY SubmissionInductive, <1>1, PTL

\* The reuse count of every row is the number of submissions it answered, however
\* many processes count and put at once (store.py: mark_reused, put).
THEOREM ReusesAreCounted == Spec => []ReuseCounted
<1>1. IInv => ReuseCounted
  BY DEF IInv
<1> QED
  BY SubmissionInductive, <1>1, PTL

\* Callers that pass the quota at the same time exceed it by fewer jobs than there are
\* processes (core/service.py: check_quotas).  As long as no process was restarted and
\* no job outlived its time to live: a reconciliation or a sweep can take the row of a
\* job whose solve goes on out of the count, and its next put brings it back, so that
\* more were admitted meanwhile than that.
THEOREM QuotaOvershotByFew == Spec => [](Undisturbed => QuotaOvershoot)
<1>1. RoomLeft /\ Undisturbed => QuotaOvershoot
  <2> SUFFICES ASSUME QuotaRoom, ConcurrentJobs # 0, NEW o \in Owners
               PROVE  Active(o) <= ConcurrentJobs + Cardinality(Processes) - 1
    BY DEF RoomLeft, QuotaOvershoot
  <2> QED
    BY Countable DEF QuotaRoom
<1> QED
  BY RoomInductive, <1>1, PTL

\* The solves of one address are no more than the processes that may have looked before
\* any of them was stored (core/service.py: submit), as long as no process was restarted
\* and no job outlived its time to live: a row that was failed or swept under its solve
\* answers no lookup, and counts again when the solve puts it back.
THEOREM SolvesAreFew == Spec => [](Undisturbed => FewSolves)
<1>1. RoomLeft /\ Undisturbed => FewSolves
  <2> SUFFICES ASSUME CacheRoom, NEW o \in Owners, NEW k \in Keys
               PROVE  Cardinality(Cached(o, k)) <= Cardinality(Processes)
    BY DEF RoomLeft, FewSolves
  <2> QED
    BY Countable DEF CacheRoom
<1> QED
  BY RoomInductive, <1>1, PTL
=============================================================================
