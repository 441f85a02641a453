--------------------------- MODULE WorkspaceProofs ---------------------------
(***************************************************************************)
(* Theorems about the workspace's objects and about what is done with      *)
(* them.                                                                   *)
(*                                                                         *)
(* The objects (Objects), for any number of callers, owners, objects and   *)
(* revisions.  The inductive invariant says that the ids in use and the    *)
(* revisions of each object are dense, that everything below the head is   *)
(* whole, and that a call about to write revision r of an object holds     *)
(* what revision r - 1 becomes under a patch.  Immutability and the        *)
(* refinement of ObjectHistory follow from it.                             *)
(*                                                                         *)
(* Designs, optimizations and studies (DesignResolution, Search, Study,    *)
(* StudyTables, GoldenSection):                                            *)
(*                                                                         *)
(*   ResolutionTellsTheTruth  for every set of load cases, bodies and      *)
(*                      drafts and any number of patches made meanwhile,   *)
(*                      the revisions a job records give back what it was  *)
(*                      given, or refuse it again for the same reason;     *)
(*   OneSearchAtATime   for every number of searches and crashes, at most  *)
(*                      one driver works for a revision, and no stop of an *)
(*                      earlier one is remembered meanwhile;               *)
(*   SearchSound        for every tolerance, budget and metrics, the       *)
(*                      replay of a report gives the answers and the       *)
(*                      reason of the search that ended;                   *)
(*   MethodSound        for every unimodal objective with its least value  *)
(*                      in the bracket and every tolerance, the bracket    *)
(*                      holds that value, no point is asked for twice, and *)
(*                      the method stops in time;                          *)
(*   StudyTellsTheRun   for every number of variations, runs and patches,  *)
(*                      a report shows the jobs of the run before it, or   *)
(*                      where one failed another that failed too;          *)
(*   ReadoutSound       for every legal body, any number of axes and any   *)
(*                      answers so far, a ladder's report says where it    *)
(*                      settled, a grid has every combination once, and    *)
(*                      its curves draw every answer once.                 *)
(***************************************************************************)
EXTENDS Objects, DesignResolution, Search, Study, StudyTables, GoldenSection, FiniteSetTheorems,
        FunctionTheorems, SequenceTheorems, WellFoundedInduction, TLAPS

-----------------------------------------------------------------------------
(* Numbers: induction and recursion, for sets of numbers and functions on them *)

\* A set of numbers has a least one.
LEMMA LeastOf ==
    ASSUME NEW S, S \subseteq Nat, S # {}
    PROVE  Min(S) \in S /\ \A y \in S : Min(S) =< y
<1>1. PICK x \in S : \A y \in S : <<y, x>> \notin OpToRel(<, Nat)
  BY NatLessThanWellFounded, WFMin, Zenon
<1>2. \A y \in S : ~(y < x)
  BY <1>1, Zenon DEF OpToRel
<1>3. \A y \in S : x =< y
  BY <1>2
<1> QED
  BY <1>3 DEF Min

\* Induction, for a set of numbers.
LEMMA EveryNumber ==
    ASSUME NEW S, S \subseteq Nat, 0 \in S, \A n \in S : n + 1 \in S
    PROVE  S = Nat
<1> SUFFICES ASSUME Nat \ S # {} PROVE FALSE
  OBVIOUS
<1> DEFINE m == Min(Nat \ S)
<1>1. m \in Nat \ S /\ \A y \in Nat \ S : m =< y
  BY LeastOf
<1> HIDE DEF m
<1>2. m - 1 \in Nat /\ m - 1 \notin Nat \ S
  BY <1>1
<1> QED
  BY <1>1, <1>2

\* Sequence f starts with a0 and goes on by G.
Iterates(f, a0, G) == f[0] = a0 /\ \A n \in Nat : f[n + 1] = G[<<n, f[n]>>]

\* Recursion over the numbers, for a step that is a function.
LEMMA RecursionWorks ==
    ASSUME NEW A, NEW a0 \in A, NEW G \in [Nat \X A -> A]
    PROVE  \E f \in [Nat -> A] : Iterates(f, a0, G)
<1> DEFINE App(n) == {g \in [0..n -> A] :
                        g[0] = a0 /\ \A k \in 0..n : k # n => g[k + 1] = G[<<k, g[k]>>]}
           S == {n \in Nat : App(n) # {}}
<1>1. 0 \in S
  <2>1. [k \in 0..0 |-> a0] \in App(0)
    OBVIOUS
  <2> QED
    BY <2>1
<1>2. \A n \in S : n + 1 \in S
  <2> SUFFICES ASSUME NEW n \in Nat, NEW g \in App(n) PROVE App(n + 1) # {}
    OBVIOUS
  <2> DEFINE h == [k \in 0..(n + 1) |-> IF k = n + 1 THEN G[<<n, g[n]>>] ELSE g[k]]
  <2>1. \A k \in 0..n : g[k] \in A /\ h[k] = g[k]
    OBVIOUS
  <2>2. h[n + 1] = G[<<n, g[n]>>] /\ h[n + 1] \in A
    BY <2>1
  <2>3. h \in [0..(n + 1) -> A]
    BY <2>1
  <2>4. h[0] = a0
    BY <2>1
  <2>5. ASSUME NEW k \in 0..(n + 1), k # n + 1 PROVE h[k + 1] = G[<<k, h[k]>>]
    <3>1. CASE k = n
      BY <2>1, <2>2, <3>1
    <3>2. CASE k # n
      <4>1. k \in 0..n /\ k + 1 \in 0..n
        BY <2>5, <3>2
      <4> QED
        BY <2>1, <3>2, <4>1
    <3> QED
      BY <3>1, <3>2
  <2> HIDE DEF h
  <2>6. h \in App(n + 1)
    BY <2>3, <2>4, <2>5
  <2> QED
    BY <2>6
<1>3. \A n \in Nat : App(n) # {}
  <2>1. S \subseteq Nat
    OBVIOUS
  <2> HIDE DEF S, App
  <2>2. S = Nat
    BY <1>1, <1>2, <2>1, EveryNumber
  <2> QED
    BY <2>2 DEF S
<1>4. ASSUME NEW n \in Nat, NEW g \in App(n), NEW h \in App(n + 1)
      PROVE  \A k \in 0..n : g[k] = h[k]
  <2> DEFINE T == {k \in Nat : k \in 0..n => g[k] = h[k]}
  <2>1. 0 \in T
    OBVIOUS
  <2>2. \A k \in T : k + 1 \in T
    <3> SUFFICES ASSUME NEW k \in T, k + 1 \in 0..n PROVE g[k + 1] = h[k + 1]
      OBVIOUS
    <3>1. k \in 0..n /\ k # n /\ k \in 0..(n + 1) /\ k # n + 1
      OBVIOUS
    <3>2. g[k] = h[k]
      BY <3>1
    <3>3. g[k + 1] = G[<<k, g[k]>>] /\ h[k + 1] = G[<<k, h[k]>>]
      BY <3>1
    <3> QED
      BY <3>2, <3>3
  <2> HIDE DEF App
  <2>3. T = Nat
    BY <2>1, <2>2, EveryNumber
  <2> QED
    BY <2>3
<1> DEFINE pick(n) == CHOOSE g \in App(n) : TRUE
           f == [n \in Nat |-> pick(n)[n]]
<1>5. \A n \in Nat : pick(n) \in App(n)
  BY <1>3
<1> HIDE DEF pick
<1>6. \A n \in Nat : f[n] = pick(n)[n] /\ f[n] \in A
  BY <1>5
<1>7. f[0] = a0
  BY <1>5
<1>8. ASSUME NEW n \in Nat PROVE f[n + 1] = G[<<n, f[n]>>]
  <2>1. pick(n) \in App(n) /\ pick(n + 1) \in App(n + 1)
    BY <1>5
  <2>2. pick(n)[n] = pick(n + 1)[n]
    <3> HIDE DEF App
    <3> QED
      BY <1>4, <2>1
  <2>3. pick(n + 1)[n + 1] = G[<<n, pick(n + 1)[n]>>]
    BY <2>1
  <2> QED
    BY <1>6, <2>2, <2>3
<1>9. f \in [Nat -> A]
  BY <1>6
<1> HIDE DEF f
<1> QED
  BY <1>7, <1>8, <1>9 DEF Iterates

-----------------------------------------------------------------------------
(* The objects *)

USE ObjectsAssumption, FileAssumption

\* The first r - 1 revisions of n are whole, and v is a patch of the last of
\* them (or a first version).
Follows(n, r, v) ==
    /\ \A q \in 1..(r - 1) : files[n][q] # NoFile /\ files[n][q].whole
    /\ r > 1 => /\ v.owner = files[n][r - 1].version.owner
                /\ v.body \in PatchedFrom(files[n][r - 1].version.body)

CallOK(c) ==
    /\ call[c].doing = "reading" /\ call[c].revision # 0 =>
         files[call[c].number][call[c].revision] # NoFile
    /\ call[c].doing \in {"opening", "filling"} =>
         /\ call[c].number \in directories
         /\ Follows(call[c].number, call[c].revision, call[c].version)
    /\ call[c].doing = "filling" =>
         files[call[c].number][call[c].revision] =
            [version |-> call[c].version, whole |-> FALSE]

CallsOK == \A c \in Callers : CallOK(c)

\* A revision file is being filled by the one caller that created it.
FilledByOne ==
    \A c, d \in Callers :
        /\ call[c].doing = "filling" /\ call[d].doing = "filling"
        /\ call[c].number = call[d].number /\ call[c].revision = call[d].revision
        => c = d

DirectoriesDense ==
    \E d \in 0..MaxObjects :
        /\ directories = 1..d
        /\ d + Cardinality(Allocating) <= MaxObjects
        /\ \A c \in Allocating : call[c].number \in 1..(d + 1)

RevisionsDense == \A n \in Numbers : \E k \in 0..MaxRevisions : Written(n) = 1..k

IInv ==
    /\ TypeOK /\ OnlyTheHeadIsTorn /\ CallsOK /\ FilledByOne
    /\ DirectoriesDense /\ RevisionsDense

-----------------------------------------------------------------------------
(* The shape of calls, and what the scans find *)

\* What a call in each stage carries.
LEMMA CallShape ==
    ASSUME TypeOK, NEW c \in Callers
    PROVE  /\ call[c].doing \in {"idle", "allocating", "reading", "opening", "filling"}
           /\ call[c].doing = "allocating" =>
                call[c].number \in Numbers /\ call[c].version \in Version
           /\ call[c].doing = "reading" =>
                /\ call[c].number \in Numbers /\ call[c].revision \in Revisions \cup {0}
                /\ call[c].owner \in Owners
           /\ call[c].doing \in {"opening", "filling"} =>
                /\ call[c].number \in Numbers /\ call[c].revision \in Revisions
                /\ call[c].version \in Version
BY DEF TypeOK, Call

\* The scan of a dense directory finds its end.
LEMMA ScanFindsEnd ==
    ASSUME NEW d \in Nat, directories = 1..d
    PROVE  NextNumber = d + 1
<1>1. {0} \cup directories = 0..d
  OBVIOUS
<1>2. \A m \in 0..d : (\A y \in 0..d : m >= y) => m = d
  OBVIOUS
<1>3. \E m \in 0..d : \A y \in 0..d : m >= y
  OBVIOUS
<1>4. Max(0..d) = d
  BY <1>2, <1>3 DEF Max
<1> QED
  BY <1>1, <1>4 DEF NextNumber

\* The head of dense revisions is the last of them.
LEMMA HeadIsLast ==
    ASSUME NEW n, NEW k \in Nat, Written(n) = 1..k
    PROVE  HeadRevision(n) = k
<1>1. CASE k = 0
  BY <1>1 DEF HeadRevision
<1>2. CASE k > 0
  <2>1. \A m \in 1..k : (\A y \in 1..k : m >= y) => m = k
    BY <1>2
  <2>2. \E m \in 1..k : \A y \in 1..k : m >= y
    BY <1>2
  <2>3. Max(1..k) = k
    BY <2>1, <2>2 DEF Max
  <2> QED
    BY <1>2, <2>3 DEF HeadRevision
<1> QED
  BY <1>1, <1>2

LEMMA AllocatingFinite == IsFiniteSet(Allocating) /\ Cardinality(Allocating) \in Nat
BY FS_Subset, FS_CardinalityType DEF Allocating

\* A call that is no longer, or never was, in search of a number leaves room.
LEMMA RoomStays ==
    ASSUME TypeOK, DirectoriesDense, NEW c \in Callers, NEW x \in Call,
           x.doing # "allocating", call' = [call EXCEPT ![c] = x],
           UNCHANGED directories
    PROVE  DirectoriesDense'
<1>1. Allocating' = Allocating \ {c}
  BY DEF Allocating, TypeOK
<1>2. Cardinality(Allocating') \in Nat /\ Cardinality(Allocating') <= Cardinality(Allocating)
  <2>1. Allocating \ {c} \in SUBSET Allocating
    OBVIOUS
  <2> QED
    BY <1>1, <2>1, AllocatingFinite, FS_Subset, FS_CardinalityType
<1>3. PICK d \in 0..MaxObjects :
         /\ directories = 1..d
         /\ d + Cardinality(Allocating) <= MaxObjects
         /\ \A a \in Allocating : call[a].number \in 1..(d + 1)
  BY DEF DirectoriesDense
<1>4. d + Cardinality(Allocating') <= MaxObjects
  BY <1>2, <1>3, AllocatingFinite
<1>5. \A a \in Allocating' : call'[a].number \in 1..(d + 1)
  BY <1>1, <1>3 DEF Allocating, TypeOK
<1> QED
  BY <1>3, <1>4, <1>5 DEF DirectoriesDense

\* Nothing written, nobody's call but c's changed.
LEMMA FilesStay ==
    ASSUME IInv, NEW c \in Callers, NEW x \in Call,
           call' = [call EXCEPT ![c] = x], UNCHANGED files,
           directories \subseteq directories', directories' \subseteq Numbers,
           x.doing # "filling", CallOK(c)', DirectoriesDense'
    PROVE  IInv'
<1>1. TypeOK'
  BY DEF IInv, TypeOK
<1>2. OnlyTheHeadIsTorn'
  BY DEF IInv, OnlyTheHeadIsTorn, Written
<1>3. CallsOK'
  <2> SUFFICES ASSUME NEW b \in Callers, b # c PROVE CallOK(b)'
    BY DEF CallsOK
  <2>1. call'[b] = call[b]
    BY DEF IInv, TypeOK
  <2>2. CallOK(b)
    BY DEF IInv, CallsOK
  <2>3. ASSUME NEW n, NEW r, NEW v PROVE Follows(n, r, v)' <=> Follows(n, r, v)
    BY DEF Follows
  <2> QED
    BY <2>1, <2>2, <2>3 DEF CallOK
<1>4. FilledByOne'
  BY DEF IInv, FilledByOne, TypeOK
<1>5. RevisionsDense'
  BY DEF IInv, RevisionsDense, Written
<1> QED
  BY <1>1, <1>2, <1>3, <1>4, <1>5 DEF IInv

-----------------------------------------------------------------------------
(* The invariant holds initially, and every step keeps it *)

LEMMA ObjectsInit == Init => IInv
<1> SUFFICES ASSUME Init PROVE IInv
  OBVIOUS
<1>1. TypeOK
  BY DEF Init, TypeOK, Call, Idle
<1>2. OnlyTheHeadIsTorn /\ RevisionsDense
  <2>1. \A n \in Numbers : Written(n) = {}
    BY DEF Init, Written
  <2>2. {} = 1..0 /\ 0 \in 0..MaxRevisions
    OBVIOUS
  <2>3. RevisionsDense
    BY <2>1, <2>2 DEF RevisionsDense
  <2> QED
    BY <2>1, <2>3 DEF OnlyTheHeadIsTorn
<1>3. CallsOK /\ FilledByOne
  BY DEF Init, CallsOK, CallOK, FilledByOne, Idle
<1>4. DirectoriesDense
  <2>1. Allocating = {}
    BY DEF Init, Allocating, Idle
  <2>2. Cardinality(Allocating) = 0
    BY <2>1, FS_EmptySet
  <2>3. directories = 1..0
    BY DEF Init
  <2>4. 0 \in 0..MaxObjects /\ 0 + Cardinality(Allocating) <= MaxObjects
    BY <2>2, ObjectsAssumption
  <2> QED
    BY <2>1, <2>3, <2>4, Zenon DEF DirectoriesDense
<1> QED
  BY <1>1, <1>2, <1>3, <1>4 DEF IInv

LEMMA GiveUpKeeps ==
    ASSUME IInv, NEW c \in Callers, GiveUp(c)
    PROVE  IInv'
<1>1. Idle \in Call /\ Idle.doing = "idle"
  BY DEF Idle, Call
<1>2. call' = [call EXCEPT ![c] = Idle] /\ UNCHANGED <<directories, files>>
  BY DEF GiveUp
<1>3. DirectoriesDense'
  BY <1>1, <1>2, RoomStays DEF IInv
<1>4. CallOK(c)'
  BY <1>1, <1>2 DEF CallOK, IInv, TypeOK
<1> QED
  BY <1>1, <1>2, <1>3, <1>4, FilesStay DEF IInv, TypeOK

LEMMA StartPatchKeeps ==
    ASSUME IInv, NEW c \in Callers, NEW n \in Numbers, StartPatch(c, n)
    PROVE  IInv'
<1>1. PICK k \in 0..MaxRevisions : Written(n) = 1..k
  BY DEF IInv, RevisionsDense
<1>2. HeadRevision(n) = k
  BY <1>1, HeadIsLast
<1>3. PICK w \in Owners :
         call' = [call EXCEPT ![c] = [doing |-> "reading", number |-> n,
                                      revision |-> HeadRevision(n), owner |-> w]]
  BY DEF StartPatch
<1> DEFINE x == [doing |-> "reading", number |-> n, revision |-> k, owner |-> w]
<1>4. k \in Revisions \cup {0}
  BY DEF Revisions
<1>5. x \in Call /\ x.doing = "reading" /\ x.number = n /\ x.revision = k
  BY <1>4 DEF Call
<1>6. call' = [call EXCEPT ![c] = x] /\ UNCHANGED <<directories, files>>
  BY <1>2, <1>3 DEF StartPatch
<1>7. k # 0 => files[n][k] # NoFile
  BY <1>1 DEF Written
<1> HIDE DEF x
<1>8. DirectoriesDense'
  BY <1>5, <1>6, RoomStays DEF IInv
<1>9. call'[c] = x
  BY <1>6 DEF IInv, TypeOK
<1>10. CallOK(c)'
  BY <1>5, <1>6, <1>7, <1>9 DEF CallOK
<1> QED
  BY <1>5, <1>6, <1>8, <1>10, FilesStay DEF IInv, TypeOK

\* A patch of a whole revision follows it.
LEMMA FollowsNext ==
    ASSUME NEW n, NEW r \in Nat, NEW v,
           \A q \in 1..r : files[n][q] # NoFile /\ files[n][q].whole,
           v.owner = files[n][r].version.owner,
           v.body \in PatchedFrom(files[n][r].version.body)
    PROVE  Follows(n, r + 1, v)
<1>1. r + 1 - 1 = r
  OBVIOUS
<1> QED
  BY <1>1 DEF Follows

\* A call that is about to open a revision that follows the one before.
LEMMA OpeningIsSound ==
    ASSUME NEW c \in Callers, NEW n \in directories, NEW r, NEW v, Follows(n, r, v),
           call'[c].doing = "opening", call'[c].number = n,
           call'[c].revision = r, call'[c].version = v,
           UNCHANGED <<directories, files>>
    PROVE  CallOK(c)'
<1>1. Follows(n, r, v)'
  BY DEF Follows
<1> QED
  BY <1>1 DEF CallOK

LEMMA ApplyPatchKeeps ==
    ASSUME IInv, NEW c \in Callers, ApplyPatch(c)
    PROVE  IInv'
<1> DEFINE n == call[c].number
           r == call[c].revision
           f == files[n][r]
<1>1. n \in Numbers /\ r \in 1..(MaxRevisions - 1) /\ r \in Revisions /\ r + 1 \in Revisions
      /\ call[c].owner \in Owners /\ f # NoFile
  <2>1. call[c].doing = "reading" /\ r \in 1..(MaxRevisions - 1)
    BY DEF ApplyPatch
  <2>2. n \in Numbers /\ call[c].owner \in Owners
    BY <2>1, CallShape DEF IInv
  <2>3. r # 0 /\ r \in Revisions /\ r + 1 \in Revisions
    BY <2>1 DEF Revisions
  <2>4. f # NoFile
    BY <2>1, <2>3 DEF IInv, CallsOK, CallOK
  <2> QED
    BY <2>1, <2>2, <2>3, <2>4
<1>2. f \in File
  BY <1>1 DEF IInv, TypeOK
<1>3. PICK b \in PatchedFrom(f.version.body) :
         call' = [call EXCEPT ![c] = [doing |-> "opening", number |-> n, revision |-> r + 1,
                                      version |-> [owner |-> call[c].owner, body |-> b]]]
  BY DEF ApplyPatch
<1>4. b \in Bodies
  BY <1>2 DEF PatchedFrom, Applied, Applies, Bodies, Edits, File, Version
<1> DEFINE v == [owner |-> call[c].owner, body |-> b]
           x == [doing |-> "opening", number |-> n, revision |-> r + 1, version |-> v]
<1>5. v \in Version /\ v.owner = call[c].owner /\ v.body = b
  BY <1>1, <1>4 DEF Version
<1>6. x \in Call /\ x.doing = "opening" /\ x.number = n /\ x.revision = r + 1 /\ x.version = v
  BY <1>1, <1>5 DEF Call
<1>7. call' = [call EXCEPT ![c] = x] /\ UNCHANGED <<directories, files>>
  BY <1>3 DEF ApplyPatch
<1>8. n \in directories /\ Follows(n, r + 1, v)
  <2>1. f.whole /\ f.version.owner = call[c].owner
    BY DEF ApplyPatch
  <2>2. r \in Written(n)
    BY <1>1 DEF Written
  <2>3. n \in directories /\ \A q \in 1..(r - 1) : files[n][q] # NoFile /\ files[n][q].whole
    BY <1>1, <2>2 DEF IInv, OnlyTheHeadIsTorn
  <2>4. r + 1 - 1 = r /\ \A q \in 1..r : q = r \/ q \in 1..(r - 1)
    BY <1>1
  <2>5. \A q \in 1..r : files[n][q] # NoFile /\ files[n][q].whole
    BY <1>1, <2>1, <2>3, <2>4
  <2>6. v.owner = f.version.owner /\ v.body \in PatchedFrom(f.version.body)
    BY <1>3, <1>5, <2>1
  <2> HIDE DEF v, n, r
  <2>7. Follows(n, r + 1, v)
    BY <1>1, <2>5, <2>6, FollowsNext
  <2> QED
    BY <2>3, <2>7
<1> HIDE DEF x, v
<1>9. DirectoriesDense'
  BY <1>6, <1>7, RoomStays DEF IInv
<1>10. call'[c] = x
  BY <1>7 DEF IInv, TypeOK
<1>11. CallOK(c)'
  BY <1>6, <1>7, <1>8, <1>10, OpeningIsSound
<1> QED
  BY <1>6, <1>7, <1>9, <1>11, FilesStay DEF IInv, TypeOK

\* A creator scans and looks for a number no higher than the next.
LEMMA StartCreateKeeps ==
    ASSUME IInv, NEW c \in Callers, StartCreate(c)
    PROVE  IInv'
<1>1. PICK d \in 0..MaxObjects :
         /\ directories = 1..d
         /\ d + Cardinality(Allocating) <= MaxObjects
         /\ \A a \in Allocating : call[a].number \in 1..(d + 1)
  BY DEF IInv, DirectoriesDense
<1>2. NextNumber = d + 1
  BY <1>1, ScanFindsEnd
<1>3. d + 1 + Cardinality(Allocating) <= MaxObjects /\ call[c] = Idle
  BY <1>2 DEF StartCreate
<1>4. PICK v \in Version :
         call' = [call EXCEPT ![c] = [doing |-> "allocating", number |-> NextNumber,
                                      version |-> v]]
  BY DEF StartCreate
<1> DEFINE x == [doing |-> "allocating", number |-> d + 1, version |-> v]
<1>5. d + 1 \in Numbers
  BY <1>3, AllocatingFinite DEF Numbers
<1>6. x \in Call /\ x.doing = "allocating" /\ x.number = d + 1
  BY <1>5 DEF Call
<1>7. call' = [call EXCEPT ![c] = x] /\ UNCHANGED <<directories, files>>
  BY <1>2, <1>4 DEF StartCreate
<1> HIDE DEF x
<1>8. call'[c] = x /\ \A b \in Callers : b # c => call'[b] = call[b]
  BY <1>7 DEF IInv, TypeOK
<1>9. DirectoriesDense'
  <2>1. Allocating' = Allocating \cup {c} /\ c \notin Allocating
    BY <1>3, <1>6, <1>8 DEF Allocating, Idle
  <2>2. Cardinality(Allocating') = Cardinality(Allocating) + 1
    BY <2>1, AllocatingFinite, FS_AddElement
  <2>3. d + Cardinality(Allocating') <= MaxObjects
    BY <1>3, <2>2, AllocatingFinite
  <2>4. \A a \in Allocating' : call'[a].number \in 1..(d + 1)
    BY <1>1, <1>6, <1>8, <2>1 DEF Allocating
  <2>5. directories' = 1..d
    BY <1>1, <1>7
  <2> QED
    BY <2>3, <2>4, <2>5 DEF DirectoriesDense
<1>10. CallOK(c)'
  BY <1>6, <1>8 DEF CallOK
<1> QED
  BY <1>6, <1>7, <1>9, <1>10, FilesStay DEF IInv, TypeOK

\* mkdir: a number that is taken is below the next one, a free one is the next.
LEMMA MakeDirectoryKeeps ==
    ASSUME IInv, NEW c \in Callers, MakeDirectory(c)
    PROVE  IInv'
<1>1. PICK d \in 0..MaxObjects :
         /\ directories = 1..d
         /\ d + Cardinality(Allocating) <= MaxObjects
         /\ \A a \in Allocating : call[a].number \in 1..(d + 1)
  BY DEF IInv, DirectoriesDense
<1> DEFINE m == call[c].number
<1>2. c \in Allocating /\ call[c].doing = "allocating" /\ m \in Numbers /\ m \in 1..(d + 1)
      /\ call[c].version \in Version
  BY <1>1, CallShape DEF MakeDirectory, Allocating, IInv
<1>3. Cardinality(Allocating) \in Nat /\ Cardinality(Allocating) # 0
  BY <1>2, AllocatingFinite, FS_EmptySet
<1>4. d + 1 <= MaxObjects
  BY <1>1, <1>3
<1>5. CASE m \in directories
  <2> DEFINE x == [call[c] EXCEPT !.number = @ + 1]
  <2>1. m + 1 \in Numbers /\ m + 1 \in 1..(d + 1)
    BY <1>1, <1>4, <1>5 DEF Numbers
  <2>2. call[c] \in [doing : {"allocating"}, number : Numbers, version : Version]
    BY <1>2 DEF IInv, TypeOK, Call
  <2>3. x \in Call /\ x.doing = "allocating" /\ x.number = m + 1
    BY <2>1, <2>2 DEF Call
  <2>4. call' = [call EXCEPT ![c] = x] /\ UNCHANGED <<directories, files>>
    BY <1>5 DEF MakeDirectory
  <2> HIDE DEF x
  <2>5. call'[c] = x /\ \A b \in Callers : b # c => call'[b] = call[b]
    BY <2>4 DEF IInv, TypeOK
  <2>6. Allocating' = Allocating
    BY <1>2, <2>3, <2>5 DEF Allocating
  <2>7. DirectoriesDense'
    <3>1. \A a \in Allocating' : call'[a].number \in 1..(d + 1)
      BY <1>1, <2>1, <2>3, <2>5, <2>6 DEF Allocating
    <3>2. directories' = 1..d /\ d + Cardinality(Allocating') <= MaxObjects
      BY <1>1, <2>4, <2>6
    <3> QED
      BY <3>1, <3>2 DEF DirectoriesDense
  <2>8. CallOK(c)'
    BY <2>3, <2>5 DEF CallOK
  <2> QED
    BY <2>3, <2>4, <2>7, <2>8, FilesStay DEF IInv, TypeOK
<1>6. CASE m \notin directories
  <2> DEFINE x == [doing |-> "opening", number |-> m, revision |-> 1,
                   version |-> call[c].version]
  <2>1. m = d + 1
    BY <1>1, <1>2, <1>6
  <2>2. 1 \in Revisions
    BY DEF Revisions
  <2>3. x \in Call /\ x.doing = "opening" /\ x.number = m /\ x.revision = 1
    BY <1>2, <2>2 DEF Call
  <2>4. call' = [call EXCEPT ![c] = x] /\ UNCHANGED files /\ directories' = directories \cup {m}
    BY <1>6 DEF MakeDirectory
  <2> HIDE DEF x
  <2>5. call'[c] = x /\ \A b \in Callers : b # c => call'[b] = call[b]
    BY <2>4 DEF IInv, TypeOK
  <2>6. Allocating' = Allocating \ {c}
    BY <2>3, <2>5 DEF Allocating
  <2>7. DirectoriesDense'
    <3>1. directories' = 1..(d + 1) /\ d + 1 \in 0..MaxObjects
      BY <1>1, <1>4, <2>1, <2>4
    <3>2. Cardinality(Allocating') = Cardinality(Allocating) - 1
      BY <1>2, <2>6, AllocatingFinite, FS_RemoveElement
    <3>3. d + 1 + Cardinality(Allocating') <= MaxObjects
      BY <1>1, <1>3, <3>2
    <3>4. \A a \in Allocating' : call'[a].number \in 1..(d + 1 + 1)
      BY <1>1, <2>5, <2>6 DEF Allocating
    <3> QED
      BY <3>1, <3>3, <3>4 DEF DirectoriesDense
  <2>8. CallOK(c)'
    BY <2>3, <2>4, <2>5 DEF CallOK, Follows
  <2>9. directories' \subseteq Numbers /\ directories \subseteq directories'
    BY <1>2, <2>4 DEF IInv, TypeOK
  <2> QED
    BY <2>3, <2>4, <2>7, <2>8, <2>9, FilesStay
<1> QED
  BY <1>5, <1>6

\* Revisions read back stay, and nothing that was written goes away.
FilesGrow ==
    \A n \in Numbers, r \in Revisions :
        files[n][r] # NoFile =>
            /\ files'[n][r] # NoFile
            /\ files[n][r].whole => files'[n][r] = files[n][r]

\* What others write does not disturb a call.
LEMMA CallUndisturbed ==
    ASSUME TypeOK, NEW b \in Callers, CallOK(b), FilesGrow, call'[b] = call[b],
           UNCHANGED directories,
           call[b].doing = "filling" =>
             files'[call[b].number][call[b].revision] = files[call[b].number][call[b].revision]
    PROVE  CallOK(b)'
<1>1. CASE call[b].doing = "reading"
  <2>1. call[b].revision # 0 => files'[call[b].number][call[b].revision] # NoFile
    BY <1>1, CallShape DEF CallOK, FilesGrow
  <2> QED
    BY <1>1, <2>1 DEF CallOK
<1>2. CASE call[b].doing \in {"opening", "filling"}
  <2> DEFINE n == call[b].number
             r == call[b].revision
  <2>1. n \in Numbers /\ r \in Revisions /\ Follows(n, r, call[b].version)
        /\ n \in directories
    BY <1>2, CallShape DEF CallOK
  <2>2. \A q \in 1..(r - 1) : q \in Revisions
    BY <2>1 DEF Revisions
  <2>3. \A q \in 1..(r - 1) : files'[n][q] = files[n][q]
    BY <2>1, <2>2 DEF Follows, FilesGrow
  <2>4. r > 1 => r - 1 \in 1..(r - 1)
    BY <2>1 DEF Revisions
  <2>5. Follows(n, r, call[b].version)'
    BY <2>1, <2>3, <2>4 DEF Follows
  <2> QED
    BY <1>2, <2>1, <2>5 DEF CallOK
<1>3. CASE call[b].doing \notin {"reading", "opening", "filling"}
  BY <1>3 DEF CallOK
<1> QED
  BY <1>1, <1>2, <1>3

LEMMA FileFacts ==
    ASSUME NEW v \in Version, NEW w \in BOOLEAN
    PROVE  LET f == [version |-> v, whole |-> w]
           IN  f \in File /\ f # NoFile /\ f.version = v /\ f.whole = w
<1>1. [version |-> v, whole |-> w] \in File
  BY DEF File
<1>2. [version |-> v, whole |-> w] # NoFile
  BY <1>1
<1> QED
  BY <1>1, <1>2

\* Exclusive create: the file is new, and it is the one after the head.
LEMMA OpenRevisionKeeps ==
    ASSUME IInv, NEW c \in Callers, OpenRevision(c)
    PROVE  IInv' /\ FilesGrow
<1>1. PICK n \in Numbers, r \in Revisions, v \in Version :
         /\ call[c].doing = "opening"
         /\ call[c].number = n /\ call[c].revision = r /\ call[c].version = v
         /\ n \in directories /\ Follows(n, r, v)
  BY CallShape DEF OpenRevision, IInv, CallsOK, CallOK
<1>2. CASE files[n][r] # NoFile
  <2>1. Idle \in Call /\ Idle.doing = "idle"
    BY DEF Idle, Call
  <2>2. call' = [call EXCEPT ![c] = Idle] /\ UNCHANGED <<directories, files>>
    BY <1>1, <1>2 DEF OpenRevision
  <2>3. DirectoriesDense'
    BY <2>1, <2>2, RoomStays DEF IInv
  <2>4. CallOK(c)'
    BY <2>1, <2>2 DEF CallOK, IInv, TypeOK
  <2>5. IInv'
    BY <2>1, <2>2, <2>3, <2>4, FilesStay DEF IInv, TypeOK
  <2> QED
    BY <2>2, <2>5 DEF FilesGrow
<1>3. CASE files[n][r] = NoFile
  <2> DEFINE f == [version |-> v, whole |-> FALSE]
             x == [doing |-> "filling", number |-> n, revision |-> r, version |-> v]
  <2>1. f \in File /\ f # NoFile /\ f.whole = FALSE
    BY FileFacts
  <2>2. x \in Call /\ x.doing = "filling" /\ x.number = n /\ x.revision = r /\ x.version = v
    BY <1>1 DEF Call
  <2>3. [call[c] EXCEPT !.doing = "filling"] = x
    <3>1. call[c] \in [doing : {"opening", "filling"}, number : Numbers,
                       revision : Revisions, version : Version]
      BY <1>1 DEF IInv, TypeOK, Call
    <3> QED
      BY <1>1, <3>1
  <2>4. /\ files' = [files EXCEPT ![n][r] = f]
        /\ call' = [call EXCEPT ![c] = x]
        /\ UNCHANGED directories
    BY <1>1, <1>3, <2>3 DEF OpenRevision
  <2> HIDE DEF x
  <2>5. call'[c] = x /\ \A b \in Callers : b # c => call'[b] = call[b]
    BY <2>4 DEF IInv, TypeOK
  <2>6. \A m \in Numbers, q \in Revisions :
          files'[m][q] = IF m = n /\ q = r THEN f ELSE files[m][q]
    BY <1>1, <2>4 DEF IInv, TypeOK
  <2>7. FilesGrow
    BY <1>3, <2>1, <2>6 DEF FilesGrow
  <2>8. TypeOK'
    BY <1>1, <2>1, <2>2, <2>4 DEF IInv, TypeOK
  <2>9. \A m \in Numbers : Written(m)' = IF m = n THEN Written(m) \cup {r} ELSE Written(m)
    BY <1>1, <2>1, <2>6 DEF Written
  <2>10. PICK k \in 0..MaxRevisions : Written(n) = 1..k
    BY <1>1 DEF IInv, RevisionsDense
  <2>11. r = k + 1
    <3>1. r \notin 1..k
      BY <1>3, <2>10 DEF Written
    <3>2. r > 1 => r - 1 \in Written(n)
      BY <1>1 DEF Follows, Written, Revisions
    <3> QED
      BY <1>1, <2>10, <3>1, <3>2 DEF Revisions
  <2>12. RevisionsDense'
    <3>1. Written(n)' = 1..(k + 1) /\ k + 1 \in 0..MaxRevisions
      <4>1. Written(n)' = (1..k) \cup {k + 1}
        BY <2>9, <2>10, <2>11
      <4>2. k + 1 \in 0..MaxRevisions
        BY <2>11 DEF Revisions
      <4>3. (1..k) \cup {k + 1} = 1..(k + 1)
        OBVIOUS
      <4> QED
        BY <4>1, <4>2, <4>3
    <3> QED
      BY <1>1, <2>9, <3>1 DEF IInv, RevisionsDense
  <2>13. OnlyTheHeadIsTorn'
    <3> SUFFICES ASSUME NEW m \in Numbers, NEW q \in Written(m)'
                 PROVE  /\ m \in directories
                        /\ \A p \in 1..(q - 1) : files'[m][p] # NoFile /\ files'[m][p].whole
      BY <2>4 DEF OnlyTheHeadIsTorn
    <3>1. CASE m = n /\ q = r
      BY <1>1, <2>6, <3>1 DEF Follows, Revisions
    <3>2. CASE ~(m = n /\ q = r)
      <4>1. q \in Written(m) /\ q \in Revisions
        BY <2>9, <3>2 DEF Written
      <4>2. m \in directories /\ \A p \in 1..(q - 1) : files[m][p] # NoFile /\ files[m][p].whole
        BY <4>1 DEF IInv, OnlyTheHeadIsTorn
      <4>3. \A p \in 1..(q - 1) : p \in Revisions
        BY <4>1 DEF Revisions
      <4> QED
        BY <1>3, <2>6, <4>2, <4>3
    <3> QED
      BY <3>1, <3>2
  <2>14. FilledByOne'
    <3>1. \A b \in Callers : b # c /\ call[b].doing = "filling" =>
             ~(call[b].number = n /\ call[b].revision = r)
      <4> SUFFICES ASSUME NEW b \in Callers, call[b].doing = "filling",
                          call[b].number = n, call[b].revision = r
                   PROVE  FALSE
        OBVIOUS
      <4>1. files[n][r] = [version |-> call[b].version, whole |-> FALSE]
        BY DEF IInv, CallsOK, CallOK
      <4>2. call[b].version \in Version
        BY CallShape DEF IInv
      <4>3. [version |-> call[b].version, whole |-> FALSE] \in File
        BY <4>2 DEF File
      <4> QED
        BY <1>3, <4>1, <4>3
    <3> QED
      BY <2>2, <2>5, <3>1 DEF IInv, FilledByOne
  <2>15. CallsOK'
    <3> SUFFICES ASSUME NEW b \in Callers PROVE CallOK(b)'
      BY DEF CallsOK
    <3>1. CASE b = c
      <4>1. \A q \in 1..(r - 1) : files'[n][q] = files[n][q]
        BY <1>1, <2>6 DEF Revisions
      <4>2. \A q \in 1..(r - 1) : files'[n][q] # NoFile /\ files'[n][q].whole
        BY <1>1, <4>1 DEF Follows
      <4>3. r > 1 => /\ v.owner = files'[n][r - 1].version.owner
                     /\ v.body \in PatchedFrom(files'[n][r - 1].version.body)
        <5>1. r > 1 => r - 1 \in 1..(r - 1)
          BY <1>1 DEF Revisions
        <5> QED
          BY <1>1, <4>1, <5>1 DEF Follows
      <4>4. files'[n][r] = f
        BY <1>1, <2>6
      <4>5. call'[c].number = n /\ call'[c].revision = r /\ call'[c].version = v
            /\ call'[c].doing = "filling"
        BY <2>2, <2>5
      <4>6. Follows(n, r, v)'
        BY <4>2, <4>3 DEF Follows
      <4>7. n \in directories'
        BY <1>1, <2>4
      <4> QED
        BY <3>1, <4>4, <4>5, <4>6, <4>7 DEF CallOK
    <3>2. CASE b # c
      <4>1. call[b].doing = "filling" =>
              files'[call[b].number][call[b].revision] = files[call[b].number][call[b].revision]
        BY <2>5, <2>6, <2>14, <2>2, <3>2, CallShape DEF IInv, FilledByOne
      <4> QED
        BY <2>4, <2>5, <2>7, <3>2, <4>1, CallUndisturbed DEF IInv, CallsOK
    <3> QED
      BY <3>1, <3>2
  <2>16. DirectoriesDense'
    BY <2>2, <2>4, RoomStays DEF IInv
  <2> QED
    BY <2>7, <2>8, <2>12, <2>13, <2>14, <2>15, <2>16 DEF IInv
<1> QED
  BY <1>2, <1>3

\* The write ends: the file was the caller's own.
LEMMA FillRevisionKeeps ==
    ASSUME IInv, NEW c \in Callers, FillRevision(c)
    PROVE  IInv' /\ FilesGrow
<1>1. PICK n \in Numbers, r \in Revisions, v \in Version :
         /\ call[c].doing = "filling"
         /\ call[c].number = n /\ call[c].revision = r /\ call[c].version = v
         /\ n \in directories /\ Follows(n, r, v)
         /\ files[n][r] = [version |-> v, whole |-> FALSE]
  BY CallShape DEF FillRevision, IInv, CallsOK, CallOK
<1> DEFINE f == [version |-> v, whole |-> TRUE]
<1>2. /\ files' = [files EXCEPT ![n][r] = f]
      /\ call' = [call EXCEPT ![c] = Idle]
      /\ UNCHANGED directories
  BY <1>1 DEF FillRevision
<1>3. Idle \in Call /\ Idle.doing = "idle"
  BY DEF Idle, Call
<1>4. /\ f \in File /\ f # NoFile /\ f.whole = TRUE /\ f.version = v
      /\ files[n][r] # NoFile /\ files[n][r].whole = FALSE /\ files[n][r].version = v
  <2>1. f \in File /\ f # NoFile /\ f.whole = TRUE /\ f.version = v
    BY FileFacts
  <2> QED
    BY <1>1, <2>1, FileFacts
<1>5. call'[c] = Idle /\ \A b \in Callers : b # c => call'[b] = call[b]
  BY <1>2 DEF IInv, TypeOK
<1>6. \A m \in Numbers, q \in Revisions :
        files'[m][q] = IF m = n /\ q = r THEN f ELSE files[m][q]
  BY <1>1, <1>2 DEF IInv, TypeOK
<1>7. FilesGrow
  BY <1>4, <1>6 DEF FilesGrow
<1>8. TypeOK'
  BY <1>1, <1>2, <1>3, <1>4 DEF IInv, TypeOK
<1>9. \A m \in Numbers : Written(m)' = Written(m)
  BY <1>4, <1>6 DEF Written
<1>10. RevisionsDense'
  BY <1>9 DEF IInv, RevisionsDense
<1>11. OnlyTheHeadIsTorn'
  <2> SUFFICES ASSUME NEW m \in Numbers, NEW q \in Written(m)
               PROVE  /\ m \in directories
                      /\ \A p \in 1..(q - 1) : files'[m][p] # NoFile /\ files'[m][p].whole
    BY <1>2, <1>9 DEF OnlyTheHeadIsTorn
  <2>1. q \in Revisions
    BY DEF Written
  <2>2. m \in directories /\ \A p \in 1..(q - 1) : files[m][p] # NoFile /\ files[m][p].whole
    BY DEF IInv, OnlyTheHeadIsTorn
  <2>3. \A p \in 1..(q - 1) : p \in Revisions
    BY <2>1 DEF Revisions
  <2> QED
    BY <1>4, <1>6, <2>2, <2>3
<1>12. FilledByOne'
  BY <1>3, <1>5 DEF IInv, FilledByOne
<1>13. CallsOK'
  <2> SUFFICES ASSUME NEW b \in Callers PROVE CallOK(b)'
    BY DEF CallsOK
  <2>1. CASE b = c
    BY <1>3, <1>5, <2>1 DEF CallOK
  <2>2. CASE b # c
    <3>1. call[b].doing = "filling" =>
            files'[call[b].number][call[b].revision] = files[call[b].number][call[b].revision]
      BY <1>1, <1>6, <2>2, CallShape DEF IInv, FilledByOne
    <3> QED
      BY <1>2, <1>5, <1>7, <2>2, <3>1, CallUndisturbed DEF IInv, CallsOK
  <2> QED
    BY <2>1, <2>2
<1>14. DirectoriesDense'
  BY <1>2, <1>3, RoomStays DEF IInv
<1> QED
  BY <1>7, <1>8, <1>10, <1>11, <1>12, <1>13, <1>14 DEF IInv

LEMMA ObjectsStep ==
    ASSUME IInv, [Next]_vars
    PROVE  IInv' /\ FilesGrow
<1>1. ASSUME UNCHANGED <<directories, files>> PROVE FilesGrow
  BY <1>1 DEF FilesGrow
<1>2. CASE UNCHANGED vars
  <2>1. IInv'
    BY <1>2, ZenonT(40) DEF vars, IInv, TypeOK, OnlyTheHeadIsTorn, CallsOK, CallOK, Follows, FilledByOne,
       DirectoriesDense, RevisionsDense, Written, Allocating
  <2> QED
    BY <1>1, <1>2, <2>1 DEF vars
<1>3. ASSUME NEW c \in Callers, StartCreate(c) PROVE IInv' /\ FilesGrow
  BY <1>1, <1>3, StartCreateKeeps DEF StartCreate
<1>4. ASSUME NEW c \in Callers, MakeDirectory(c) PROVE IInv' /\ FilesGrow
  BY <1>4, MakeDirectoryKeeps DEF MakeDirectory, FilesGrow
<1>5. ASSUME NEW c \in Callers, OpenRevision(c) PROVE IInv' /\ FilesGrow
  BY <1>5, OpenRevisionKeeps
<1>6. ASSUME NEW c \in Callers, FillRevision(c) PROVE IInv' /\ FilesGrow
  BY <1>6, FillRevisionKeeps
<1>7. ASSUME NEW c \in Callers, ApplyPatch(c) PROVE IInv' /\ FilesGrow
  BY <1>1, <1>7, ApplyPatchKeeps DEF ApplyPatch
<1>8. ASSUME NEW c \in Callers, GiveUp(c) PROVE IInv' /\ FilesGrow
  BY <1>1, <1>8, GiveUpKeeps DEF GiveUp
<1>9. ASSUME NEW c \in Callers, NEW n \in Numbers, StartPatch(c, n) PROVE IInv' /\ FilesGrow
  BY <1>1, <1>9, StartPatchKeeps DEF StartPatch
<1> QED
  BY <1>2, <1>3, <1>4, <1>5, <1>6, <1>7, <1>8, <1>9 DEF Next, WriteStep

LEMMA ObjectsInductive == Spec => []IInv
<1>1. IInv /\ [Next]_vars => IInv'
  BY ObjectsStep
<1> QED
  BY <1>1, ObjectsInit, PTL DEF Spec

\* Every variable keeps its type; in particular no creator is ever given a
\* number beyond those the bound leaves room for.
THEOREM ObjectsTypeCorrect == Spec => []TypeOK
<1>1. IInv => TypeOK
  BY DEF IInv
<1> QED
  BY <1>1, ObjectsInductive, PTL

\* Whatever dies when, everything below the head of an object reads back.
THEOREM TornOnlyAtHead == Spec => []OnlyTheHeadIsTorn
<1>1. IInv => OnlyTheHeadIsTorn
  BY DEF IInv
<1> QED
  BY <1>1, ObjectsInductive, PTL

\* No step of anyone changes a revision that was written (O_EXCL).
THEOREM RevisionsAreFrozen == Spec => RevisionIsFrozen
<1>1. IInv /\ [Next]_vars =>
        [\A n \in Numbers, r \in Revisions :
           files[n][r] # NoFile /\ files[n][r].whole => files'[n][r] = files[n][r]]_vars
  BY ObjectsStep DEF FilesGrow
<1> QED
  BY <1>1, ObjectsInductive, PTL DEF Spec, RevisionIsFrozen

-----------------------------------------------------------------------------
(* The files implement an object's history *)

LEMMA SameBodies ==
    /\ History!Version = Version
    /\ \A b : History!PatchedFrom(b) = PatchedFrom(b)
BY DEF History!Version, History!Bodies, History!PatchedFrom, History!Edits, History!Applies,
       History!Applied, Version, Bodies, PatchedFrom, Edits, Applies, Applied

LEMMA InitImplements == Init => History!Init
<1> SUFFICES ASSUME Init PROVE Kept = [n \in Numbers |-> <<>>]
  BY DEF History!Init
<1>1. \A n \in Numbers : Whole(n) = {}
  <2> SUFFICES ASSUME NEW n \in Numbers, NEW r \in Whole(n) PROVE FALSE
    OBVIOUS
  <2>1. r \in Revisions /\ r \in 1..r /\ files[n][r] # NoFile
    BY DEF Whole, Revisions
  <2> QED
    BY <2>1 DEF Init
<1>2. \A n \in Numbers : [r \in Whole(n) |-> files[n][r].version] = <<>>
  BY <1>1
<1> QED
  BY <1>2 DEF Kept

\* A step that leaves the whole files whole and makes no other whole is not seen.
LEMMA HistoryStays ==
    ASSUME \A n \in Numbers, r \in Revisions :
              \/ files'[n][r] = files[n][r]
              \/ files[n][r] = NoFile /\ ~files'[n][r].whole
    PROVE  Kept' = Kept
<1>1. \A n \in Numbers : Whole(n)' = Whole(n)
  <2> SUFFICES ASSUME NEW n \in Numbers, NEW r \in Revisions
               PROVE  (\A q \in 1..r : files'[n][q] # NoFile /\ files'[n][q].whole)
                      <=> (\A q \in 1..r : files[n][q] # NoFile /\ files[n][q].whole)
    BY DEF Whole
  <2>1. \A q \in 1..r : q \in Revisions
    BY DEF Revisions
  <2> QED
    BY <2>1
<1>2. \A n \in Numbers : \A r \in Whole(n) : files'[n][r].version = files[n][r].version
  BY DEF Whole, Revisions
<1> QED
  BY <1>1, <1>2 DEF Kept

\* The end of a write is a creation or a patch of the abstract history.
LEMMA FillImplements ==
    ASSUME IInv, NEW c \in Callers, FillRevision(c)
    PROVE  History!Next
<1>1. PICK n \in Numbers, r \in Revisions, v \in Version :
         /\ call[c].doing = "filling"
         /\ call[c].number = n /\ call[c].revision = r /\ call[c].version = v
         /\ Follows(n, r, v)
         /\ files[n][r] = [version |-> v, whole |-> FALSE]
  BY CallShape DEF FillRevision, IInv, CallsOK, CallOK
<1> DEFINE f == [version |-> v, whole |-> TRUE]
<1>2. f \in File /\ f # NoFile /\ f.whole = TRUE /\ f.version = v
  BY FileFacts
<1>3. files[n][r] # NoFile /\ files[n][r].whole = FALSE
  <2> DEFINE torn == [version |-> v, whole |-> FALSE]
  <2>1. torn # NoFile /\ torn.whole = FALSE
    BY FileFacts
  <2> HIDE DEF torn
  <2>2. files[n][r] = torn
    BY <1>1 DEF torn
  <2> QED
    BY <2>1, <2>2
<1>4. files' = [files EXCEPT ![n][r] = f]
  BY <1>1 DEF FillRevision
<1>5. \A m \in Numbers, q \in Revisions :
        files'[m][q] = IF m = n /\ q = r THEN f ELSE files[m][q]
  BY <1>1, <1>4 DEF IInv, TypeOK
<1> HIDE DEF f
<1>6. \A m \in Numbers : m # n => Kept'[m] = Kept[m]
  <2> SUFFICES ASSUME NEW m \in Numbers, m # n PROVE Kept'[m] = Kept[m]
    OBVIOUS
  <2>1. \A q \in Revisions : files'[m][q] = files[m][q]
    BY <1>5
  <2>2. Whole(m)' = Whole(m)
    BY <2>1 DEF Whole, Revisions
  <2>3. \A q \in Whole(m) : files'[m][q] = files[m][q]
    BY <2>1 DEF Whole
  <2> QED
    BY <2>2, <2>3 DEF Kept
<1>7. Whole(n) = 1..(r - 1)
  <2>1. \A s \in Whole(n) : ~(r \in 1..s)
    BY <1>3 DEF Whole
  <2>2. \A s \in 1..(r - 1) : s \in Revisions /\ \A q \in 1..s : q \in 1..(r - 1)
    BY DEF Revisions
  <2>3. \A s \in 1..(r - 1) : s \in Whole(n)
    BY <1>1, <2>2 DEF Whole, Follows
  <2> QED
    BY <2>1, <2>3 DEF Whole, Revisions
<1>8. Whole(n)' = 1..r
  <2>1. \A s \in Revisions : s > r => s \notin Written(n)
    BY <1>1, <1>3 DEF IInv, OnlyTheHeadIsTorn, Revisions
  <2>2. \A s \in Whole(n)' : s \in Revisions /\ s <= r
    <3> SUFFICES ASSUME NEW s \in Whole(n)', s > r PROVE FALSE
      BY DEF Whole, Revisions
    <3>1. s \in Revisions /\ s \in 1..s /\ files'[n][s] # NoFile
      BY DEF Whole, Revisions
    <3> QED
      BY <1>5, <2>1, <3>1 DEF Written, Revisions
  <2>3. \A s \in 1..r : s \in Whole(n)'
    <3> SUFFICES ASSUME NEW s \in 1..r, NEW q \in 1..s
                 PROVE  s \in Revisions /\ files'[n][q] # NoFile /\ files'[n][q].whole
      BY DEF Whole
    <3>1. s \in Revisions /\ q \in Revisions /\ (q = r \/ q \in 1..(r - 1))
      BY DEF Revisions
    <3> QED
      BY <1>1, <1>2, <1>5, <3>1 DEF Follows
  <2> DEFINE W == Whole(n)'
  <2>4. \A s \in W : s \in 1..r
    BY <2>2 DEF Revisions
  <2>5. \A s \in 1..r : s \in W
    BY <2>3
  <2> HIDE DEF W
  <2>6. W = 1..r
    BY <2>4, <2>5
  <2> QED
    BY <2>6 DEF W
<1>9. \A q \in 1..(r - 1) : files'[n][q].version = files[n][q].version
  BY <1>5 DEF Revisions
<1>10. files'[n][r].version = v
  BY <1>2, <1>5
<1>11. Kept[n] = [q \in 1..(r - 1) |-> files[n][q].version] /\ Kept[n] \in Seq(Version)
       /\ Len(Kept[n]) = r - 1
  <2>1. Kept[n] = [q \in 1..(r - 1) |-> files[n][q].version]
    BY <1>7 DEF Kept
  <2>2. \A q \in 1..(r - 1) : files[n][q].version \in Version
    <3> SUFFICES ASSUME NEW q \in 1..(r - 1) PROVE files[n][q].version \in Version
      OBVIOUS
    <3>1. q \in Revisions /\ files[n][q] # NoFile
      BY <1>1 DEF Follows, Revisions
    <3>2. files[n][q] \in File
      BY <3>1 DEF IInv, TypeOK
    <3> QED
      BY <3>2 DEF File
  <2>3. r - 1 \in Nat
    BY DEF Revisions
  <2> QED
    BY <2>1, <2>2, <2>3
<1>12. Kept'[n] = Append(Kept[n], v)
  <2>1. Kept'[n] = [q \in 1..r |-> files'[n][q].version]
    BY <1>8 DEF Kept
  <2>2. r \in Nat /\ r - 1 + 1 = r
    BY DEF Revisions
  <2>3. Append(Kept[n], v) = [q \in 1..r |-> IF q = r THEN v ELSE files[n][q].version]
    <3> DEFINE k == Kept[n]
    <3>1. k \in Seq(Version) /\ Len(k) = r - 1 /\ k = [q \in 1..(r - 1) |-> files[n][q].version]
      BY <1>11
    <3> HIDE DEF k
    <3>2. Append(k, v) \in Seq(Version) /\ Len(Append(k, v)) = r
      <4>1. k \in Seq(Version) /\ Len(k) + 1 = r
        BY <2>2, <3>1
      <4>2. Append(k, v) \in Seq(Version) /\ Len(Append(k, v)) = Len(k) + 1
        BY <4>1, AppendProperties, Zenon
      <4> QED
        BY <4>1, <4>2
    <3>3. DOMAIN Append(k, v) = 1..r
      BY <3>2, LenProperties
    <3>4. \A q \in 1..r : Append(k, v)[q] = IF q = r THEN v ELSE k[q]
      BY <2>2, <3>1
    <3>5. \A q \in 1..r : q # r => q \in 1..(r - 1)
      BY <2>2
    <3>6. \A q \in 1..r : Append(k, v)[q] = IF q = r THEN v ELSE files[n][q].version
      BY <3>1, <3>4, <3>5
    <3>7. Append(k, v) = [q \in 1..r |-> Append(k, v)[q]]
      BY <3>2, <3>3, LenProperties
    <3>8. Append(k, v) = [q \in 1..r |-> IF q = r THEN v ELSE files[n][q].version]
      BY <3>6, <3>7
    <3> QED
      BY <3>8 DEF k
  <2> QED
    BY <1>9, <1>10, <2>1, <2>2, <2>3
<1>13. Kept' = [Kept EXCEPT ![n] = Append(Kept[n], v)]
  BY <1>6, <1>12 DEF Kept
<1>14. CASE r = 1
  <2>1. Kept[n] = <<>>
    BY <1>11, <1>14
  <2>2. Append(Kept[n], v) = <<v>>
    BY <2>1
  <2>3. History!Create(n)
    BY <1>13, <2>1, <2>2, SameBodies DEF History!Create
  <2> QED
    BY <2>3 DEF History!Next
<1>15. CASE r > 1
  <2> DEFINE last == files[n][r - 1].version
  <2>1. Kept[n] # <<>> /\ Kept[n][Len(Kept[n])] = last
    <3> DEFINE k == Kept[n]
    <3>1. k \in Seq(Version) /\ Len(k) = r - 1 /\ k = [q \in 1..(r - 1) |-> files[n][q].version]
      BY <1>11
    <3>2. r - 1 \in 1..(r - 1)
      BY <1>15 DEF Revisions
    <3> HIDE DEF k, last
    <3>3. k[r - 1] = last
      BY <3>1, <3>2 DEF last
    <3>4. k # <<>>
      BY <3>1, <3>2
    <3>5. k[Len(k)] = last
      BY <3>1, <3>3
    <3> QED
      BY <3>4, <3>5 DEF k
  <2>2. last \in Version
    <3>1. r - 1 \in 1..(r - 1)
      BY <1>15 DEF Revisions
    <3> QED
      BY <1>11, <3>1
  <2>3. v.owner = last.owner /\ v.body \in PatchedFrom(last.body)
    BY <1>1, <1>15 DEF Follows
  <2>4. v = [last EXCEPT !.body = v.body]
    BY <2>2, <2>3 DEF Version
  <2> HIDE DEF last
  <2>5. History!Patch(n)
    BY <1>13, <2>1, <2>3, <2>4, SameBodies DEF History!Patch
  <2> QED
    BY <2>5 DEF History!Next
<1> QED
  BY <1>14, <1>15 DEF Revisions

\* The files of the workspace implement ObjectHistory: each revision is the one
\* before with a patch applied by its owner, and no edit is lost.
THEOREM ObjectsImplementHistory == Spec => HistorySpec
<1>1. IInv /\ [Next]_vars => [History!Next]_Kept
  <2> SUFFICES ASSUME IInv, [Next]_vars PROVE History!Next \/ Kept' = Kept
    OBVIOUS
  <2>1. ASSUME UNCHANGED files PROVE Kept' = Kept
    BY <2>1, HistoryStays
  <2>2. ASSUME NEW c \in Callers, OpenRevision(c) PROVE Kept' = Kept
    <3>1. \A n \in Numbers, r \in Revisions :
              \/ files'[n][r] = files[n][r]
              \/ files[n][r] = NoFile /\ ~files'[n][r].whole
      <4>1. PICK n \in Numbers, r \in Revisions, v \in Version :
               call[c].number = n /\ call[c].revision = r /\ call[c].version = v
        BY <2>2, CallShape DEF OpenRevision, IInv
      <4>2. [version |-> v, whole |-> FALSE].whole = FALSE
        OBVIOUS
      <4>3. CASE files[n][r] = NoFile
        <5>1. files' = [files EXCEPT ![n][r] = [version |-> v, whole |-> FALSE]]
          BY <2>2, <4>1, <4>3 DEF OpenRevision
        <5> QED
          BY <4>1, <4>2, <4>3, <5>1 DEF IInv, TypeOK
      <4>4. CASE files[n][r] # NoFile
        BY <2>2, <4>1, <4>4 DEF OpenRevision
      <4> QED
        BY <4>3, <4>4
    <3> QED
      BY <3>1, HistoryStays
  <2> QED
    BY <2>1, <2>2, FillImplements DEF Next, WriteStep, StartCreate, StartPatch, ApplyPatch,
       MakeDirectory, GiveUp, vars
<1> QED
  BY <1>1, InitImplements, ObjectsInductive, PTL DEF Spec, HistorySpec, History!Spec

-----------------------------------------------------------------------------
(* Designs and optimizations *)

USE ResolutionAssumption, SearchAssumption

Reference == [of : LoadCases \cup {Stranger}, revision : Nat]
Pin == [of : LoadCases, revision : Nat]

\* Every object has a first revision.
Histories ==
    /\ designs \in Seq(Drafts) /\ Len(designs) > 0
    /\ shapes \in Seq(Shapes) /\ Len(shapes) > 0
    /\ cases \in [LoadCases -> Seq(CaseBodies)] /\ \A c \in LoadCases : Len(cases[c]) > 0

Fields ==
    /\ DOMAIN resolving = {"at", "plan", "design", "geometry", "shape", "pins", "bodies",
                           "conditions", "begun", "verdict"}
    /\ resolving.at \in {"idle", "geometry", "cases", "checking", "answered"}
    /\ resolving.pins \in Seq(Pin) /\ resolving.bodies \in Seq(CaseBodies)
    /\ Len(resolving.bodies) = Len(resolving.pins)
    /\ resolving.at # "answered" => resolving.verdict = "none"
    /\ resolving.at = "idle" => resolving.pins = <<>>

\* The design was read, at a revision that is still what it was.
Planned ==
    resolving.at # "idle" =>
        /\ resolving.design \in 1..Len(designs) /\ resolving.plan = designs[resolving.design]
        /\ resolving.begun \in [LoadCases -> Nat]
        /\ \A c \in LoadCases : resolving.begun[c] <= Len(cases[c])

\* What was read of the references that were followed.
Followed ==
    \A i \in 1..Len(resolving.pins) :
        LET taken == resolving.pins[i]
            named == resolving.plan.cases[i] IN
        /\ taken.revision \in 1..Len(cases[taken.of])
        /\ resolving.bodies[i] = cases[taken.of][taken.revision]
        /\ taken.of = named.of
        /\ named.revision # 0 => taken.revision = named.revision
        /\ named.revision = 0 => taken.revision >= resolving.begun[named.of]

Judged == {"conflict", "unknown boundary", "unknown key", "accepted"}

Shaped ==
    resolving.at \in {"cases", "checking"} \/ resolving.verdict \in Judged =>
        resolving.geometry \in 1..Len(shapes) /\ resolving.shape = shapes[resolving.geometry]

\* The conditions are those of the load cases that were read.
Merged ==
    /\ resolving.at = "checking" \/ resolving.verdict \in Judged \ {"conflict"} =>
         ~Conflicting(resolving.bodies) /\ resolving.conditions = MergeOf(resolving.bodies)
    /\ resolving.verdict = "conflict" => Conflicting(resolving.bodies)

Answered ==
    /\ resolving.verdict = "accepted" =>
         \A s \in DOMAIN resolving.conditions :
             s.boundary \in resolving.shape /\ s.key \in AcceptedKeys
    /\ resolving.verdict = "unknown boundary" =>
         \E s \in DOMAIN resolving.conditions : s.boundary \notin resolving.shape

WorkSoFar == Planned /\ Followed /\ Shaped /\ Merged /\ Answered
ResolutionInv == Histories /\ Fields /\ WorkSoFar

-----------------------------------------------------------------------------
LEMMA AppendKeeps ==
    ASSUME NEW S, NEW s \in Seq(S), NEW x \in S
    PROVE  /\ Append(s, x) \in Seq(S) /\ Len(Append(s, x)) = Len(s) + 1 /\ Len(s) \in Nat
           /\ Append(s, x)[Len(s) + 1] = x
           /\ \A i \in 1..Len(s) : Append(s, x)[i] = s[i]
OBVIOUS

\* A history that is left alone or patched.
LEMMA Grows ==
    ASSUME NEW S, NEW s \in Seq(S), Len(s) > 0, NEW t, t = s \/ \E x \in S : t = Append(s, x)
    PROVE  /\ t \in Seq(S) /\ Len(t) \in Nat /\ Len(s) \in Nat \ {0} /\ Len(t) >= Len(s)
           /\ \A i \in 1..Len(s) : t[i] = s[i]
<1>1. CASE t = s
  BY <1>1
<1>2. CASE \E x \in S : t = Append(s, x)
  <2>1. PICK x \in S : t = Append(s, x)
    BY <1>2
  <2>2. /\ t \in Seq(S) /\ Len(t) = Len(s) + 1 /\ Len(s) \in Nat
        /\ \A i \in 1..Len(s) : t[i] = s[i]
    BY <2>1, AppendKeeps
  <2> QED
    BY <2>2
<1> QED
  BY <1>1, <1>2

\* merge_load_cases keeps every condition: where no two load cases set the same
\* key of a boundary, each of them is found again under its boundary and key.
LEMMA MergeKeepsAll ==
    ASSUME NEW bodies, ~Conflicting(bodies), DOMAIN bodies \subseteq Nat
    PROVE  /\ DOMAIN MergeOf(bodies) = SetBy(bodies)
           /\ \A i \in DOMAIN bodies : \A s \in DOMAIN bodies[i] : MergeOf(bodies)[s] = bodies[i][s]
<1>1. DOMAIN MergeOf(bodies) = SetBy(bodies)
  BY DEF MergeOf
<1> SUFFICES ASSUME NEW i \in DOMAIN bodies, NEW s \in DOMAIN bodies[i]
             PROVE  MergeOf(bodies)[s] = bodies[i][s]
  BY <1>1
<1> DEFINE c == CHOOSE k \in DOMAIN bodies : s \in DOMAIN bodies[k]
<1>2. c \in DOMAIN bodies /\ s \in DOMAIN bodies[c]
  OBVIOUS
<1>3. MergeOf(bodies)[s] = bodies[c][s]
  <2>1. s \in SetBy(bodies)
    BY DEF SetBy
  <2> QED
    BY <2>1 DEF MergeOf
<1> HIDE DEF c
<1>4. c \in Nat /\ i \in Nat /\ ~(i < c) /\ ~(c < i)
  <2>1. s \in DOMAIN bodies[i] \cap DOMAIN bodies[c]
    BY <1>2
  <2>2. DOMAIN bodies[i] \cap DOMAIN bodies[c] # {} /\ DOMAIN bodies[c] \cap DOMAIN bodies[i] # {}
    BY <2>1
  <2> QED
    BY <1>2, <2>2 DEF Conflicting
<1> QED
  BY <1>3, <1>4

\* A revision a reference means is one the object has.
LEMMA RevisionIsThere ==
    ASSUME NEW S, NEW history \in Seq(S), Len(history) > 0, NEW n \in Nat
    PROVE  /\ RevisionOf(history, n) \in 0..Len(history)
           /\ RevisionOf(history, n) # 0 => (n # 0 => RevisionOf(history, n) = n)
           /\ n = 0 => RevisionOf(history, n) = Len(history)
<1>1. Len(history) \in Nat /\ DOMAIN history = 1..Len(history)
  OBVIOUS
<1> QED
  BY <1>1 DEF RevisionOf

-----------------------------------------------------------------------------
(* Other callers *)

LEMMA PatchKeeps ==
    ASSUME ResolutionInv, PatchObject
    PROVE  ResolutionInv'
<1> USE DEF ResolutionInv
<1>1. UNCHANGED resolving
  BY DEF PatchObject
<1>2. /\ designs' \in Seq(Drafts) /\ Len(designs') >= Len(designs) /\ Len(designs) \in Nat \ {0}
      /\ Len(designs') \in Nat
      /\ \A i \in 1..Len(designs) : designs'[i] = designs[i]
  <2>1. designs' = designs \/ \E d \in Drafts : designs' = Append(designs, d)
    BY DEF PatchObject
  <2> QED
    BY <2>1, Grows DEF Histories
<1>3. /\ shapes' \in Seq(Shapes) /\ Len(shapes') >= Len(shapes) /\ Len(shapes) \in Nat \ {0}
      /\ Len(shapes') \in Nat
      /\ \A i \in 1..Len(shapes) : shapes'[i] = shapes[i]
  <2>1. shapes' = shapes \/ \E s \in Shapes : shapes' = Append(shapes, s)
    BY DEF PatchObject
  <2> QED
    BY <2>1, Grows DEF Histories
<1>4. /\ cases' \in [LoadCases -> Seq(CaseBodies)]
      /\ \A c \in LoadCases : /\ Len(cases'[c]) >= Len(cases[c]) /\ Len(cases[c]) \in Nat \ {0}
                              /\ Len(cases'[c]) \in Nat
                              /\ \A i \in 1..Len(cases[c]) : cases'[c][i] = cases[c][i]
  <2>1. CASE UNCHANGED cases
    BY <2>1 DEF Histories
  <2>2. CASE \E c \in LoadCases, b \in CaseBodies : cases' = [cases EXCEPT ![c] = Append(cases[c], b)]
    <3>1. PICK c \in LoadCases, b \in CaseBodies : cases' = [cases EXCEPT ![c] = Append(cases[c], b)]
      BY <2>2
    <3>2. /\ cases[c] \in Seq(CaseBodies) /\ Len(cases[c]) \in Nat \ {0}
          /\ Append(cases[c], b) \in Seq(CaseBodies)
          /\ Len(Append(cases[c], b)) = Len(cases[c]) + 1
          /\ \A i \in 1..Len(cases[c]) : Append(cases[c], b)[i] = cases[c][i]
      <4>1. cases[c] \in Seq(CaseBodies) /\ Len(cases[c]) > 0
        BY DEF Histories
      <4> QED
        BY <4>1, AppendKeeps
    <3> QED
      BY <3>1, <3>2 DEF Histories
  <2>3. UNCHANGED cases
        \/ \E c \in LoadCases, b \in CaseBodies : cases' = [cases EXCEPT ![c] = Append(cases[c], b)]
    BY DEF PatchObject
  <2> QED
    BY <2>1, <2>2, <2>3
<1>5. Histories' /\ Fields'
  BY <1>1, <1>2, <1>3, <1>4 DEF Histories, Fields
<1>6. Planned'
  <2> SUFFICES ASSUME resolving.at # "idle" PROVE Planned'
    BY <1>1 DEF Planned
  <2>1. /\ resolving.design \in 1..Len(designs) /\ resolving.plan = designs[resolving.design]
        /\ resolving.begun \in [LoadCases -> Nat]
        /\ \A c \in LoadCases : resolving.begun[c] <= Len(cases[c])
    BY DEF WorkSoFar, Planned
  <2>2. resolving.design \in 1..Len(designs') /\ resolving.plan = designs'[resolving.design]
    BY <1>2, <2>1
  <2>3. ASSUME NEW c \in LoadCases PROVE resolving.begun[c] <= Len(cases'[c])
    <3>1. resolving.begun[c] \in Nat /\ resolving.begun[c] <= Len(cases[c])
      BY <2>1
    <3> QED
      BY <1>4, <3>1
  <2> QED
    BY <1>1, <2>1, <2>2, <2>3 DEF Planned
<1>7. Followed'
  <2> SUFFICES ASSUME NEW i \in 1..Len(resolving.pins)
               PROVE  /\ resolving.pins[i].revision \in 1..Len(cases'[resolving.pins[i].of])
                      /\ cases'[resolving.pins[i].of][resolving.pins[i].revision]
                           = cases[resolving.pins[i].of][resolving.pins[i].revision]
    BY <1>1 DEF WorkSoFar, Followed
  <2>1. resolving.pins[i] \in Pin
    BY DEF Fields
  <2>2. resolving.pins[i].of \in LoadCases
    BY <2>1 DEF Pin
  <2>3. resolving.pins[i].revision \in 1..Len(cases[resolving.pins[i].of])
    BY DEF WorkSoFar, Followed
  <2> QED
    BY <1>4, <2>2, <2>3
<1>8. Shaped'
  BY <1>1, <1>3 DEF WorkSoFar, Shaped
<1>9. Merged' /\ Answered'
  BY <1>1 DEF WorkSoFar, Merged, Answered
<1> QED
  BY <1>5, <1>6, <1>7, <1>8, <1>9 DEF WorkSoFar

-----------------------------------------------------------------------------
(* The steps of resolve_design *)

\* A refusal, or the acceptance, changes the place and the verdict only.
LEMMA RefusalKeeps ==
    ASSUME ResolutionInv, NEW why, Refuse(why), UNCHANGED <<designs, shapes, cases>>,
           resolving.at # "idle"
    PROVE  /\ Histories' /\ Fields' /\ Planned' /\ Followed'
           /\ resolving'.at = "answered" /\ resolving'.verdict = why
           /\ resolving'.geometry = resolving.geometry /\ resolving'.shape = resolving.shape
           /\ resolving'.bodies = resolving.bodies /\ resolving'.conditions = resolving.conditions
<1>1. /\ DOMAIN resolving' = DOMAIN resolving
      /\ resolving'.at = "answered" /\ resolving'.verdict = why
      /\ resolving'.plan = resolving.plan /\ resolving'.design = resolving.design
      /\ resolving'.geometry = resolving.geometry /\ resolving'.shape = resolving.shape
      /\ resolving'.pins = resolving.pins /\ resolving'.bodies = resolving.bodies
      /\ resolving'.conditions = resolving.conditions /\ resolving'.begun = resolving.begun
  BY DEF Refuse, ResolutionInv, Fields
<1>2. Histories' /\ Fields'
  BY <1>1 DEF ResolutionInv, Histories, Fields
<1>3. Planned' /\ Followed'
  BY <1>1 DEF ResolutionInv, WorkSoFar, Planned, Followed
<1> QED
  BY <1>1, <1>2, <1>3

LEMMA ReadDesignKeeps ==
    ASSUME ResolutionInv, ReadDesign
    PROVE  ResolutionInv'
<1>1. /\ DOMAIN resolving' = DOMAIN resolving /\ resolving.at = "idle"
      /\ resolving'.at = "geometry" /\ resolving'.verdict = "none"
      /\ resolving'.plan = designs[Len(designs)] /\ resolving'.design = Len(designs)
      /\ resolving'.pins = <<>> /\ resolving'.bodies = resolving.bodies
      /\ resolving'.begun = [c \in LoadCases |-> Len(cases[c])]
      /\ UNCHANGED <<designs, shapes, cases>>
  BY DEF ReadDesign, ResolutionInv, Fields
<1>2. Histories' /\ Fields'
  BY <1>1 DEF ResolutionInv, Histories, Fields
<1>3. Planned'
  <2>1. \A c \in LoadCases : Len(cases[c]) \in Nat
    BY DEF ResolutionInv, Histories
  <2>2. Len(designs) \in 1..Len(designs)
    BY DEF ResolutionInv, Histories
  <2> QED
    BY <1>1, <2>1, <2>2 DEF Planned
<1>4. Followed' /\ Shaped' /\ Merged' /\ Answered'
  BY <1>1 DEF Followed, Shaped, Merged, Answered, Judged
<1> QED
  BY <1>2, <1>3, <1>4 DEF ResolutionInv, WorkSoFar

LEMMA ReadGeometryKeeps ==
    ASSUME ResolutionInv, ReadGeometry
    PROVE  ResolutionInv'
<1> DEFINE r == RevisionOf(shapes, resolving.plan.geometry)
<1>0. resolving.at = "geometry" /\ UNCHANGED <<designs, shapes, cases>>
  BY DEF ReadGeometry
<1>1. r \in 0..Len(shapes) /\ Len(shapes) \in Nat
  <2>1. resolving.plan \in Drafts
    BY <1>0 DEF ResolutionInv, WorkSoFar, Planned, Histories
  <2>2. resolving.plan.geometry \in Nat
    BY <2>1
  <2>3. shapes \in Seq(Shapes) /\ Len(shapes) > 0 /\ Len(shapes) \in Nat
    BY DEF ResolutionInv, Histories
  <2> QED
    BY <2>2, <2>3, RevisionIsThere
<1>2. CASE r = 0
  <2>1. Refuse("not found")
    BY <1>2 DEF ReadGeometry
  <2>2. /\ Histories' /\ Fields' /\ Planned' /\ Followed'
        /\ resolving'.at = "answered" /\ resolving'.verdict = "not found"
    BY <1>0, <2>1, RefusalKeeps
  <2> QED
    BY <2>2 DEF ResolutionInv, WorkSoFar, Shaped, Merged, Answered, Judged
<1>3. CASE r # 0
  <2>1. /\ DOMAIN resolving' = DOMAIN resolving
        /\ resolving'.at = "cases" /\ resolving'.verdict = "none"
        /\ resolving'.geometry = r /\ resolving'.shape = shapes[r]
        /\ resolving'.plan = resolving.plan /\ resolving'.design = resolving.design
        /\ resolving'.pins = resolving.pins /\ resolving'.bodies = resolving.bodies
        /\ resolving'.begun = resolving.begun
    BY <1>0, <1>3 DEF ReadGeometry, ResolutionInv, Fields
  <2> HIDE DEF r
  <2>2. Histories' /\ Fields' /\ Planned' /\ Followed'
    BY <1>0, <2>1 DEF ResolutionInv, Histories, Fields, WorkSoFar, Planned, Followed
  <2>3. Shaped' /\ Merged' /\ Answered'
    BY <1>0, <1>1, <1>3, <2>1 DEF Shaped, Merged, Answered, Judged
  <2> QED
    BY <2>2, <2>3 DEF ResolutionInv, WorkSoFar
<1> QED
  BY <1>2, <1>3

LEMMA ReadCaseKeeps ==
    ASSUME ResolutionInv, ReadCase
    PROVE  ResolutionInv'
<1> DEFINE n == Len(resolving.pins) + 1
           named == resolving.plan.cases[n]
           r == RevisionOf(cases[named.of], named.revision)
           pin == [of |-> named.of, revision |-> r]
           read == cases[named.of][r]
<1>0. resolving.at = "cases" /\ UNCHANGED <<designs, shapes, cases>>
  BY DEF ReadCase
<1>1. n \in 1..Len(resolving.plan.cases) /\ named \in Reference
  <2>1. resolving.plan \in Drafts
    BY <1>0 DEF ResolutionInv, WorkSoFar, Planned, Histories
  <2>2. resolving.plan.cases \in Seq(Reference)
    BY <2>1 DEF Reference
  <2>3. n \in 1..Len(resolving.plan.cases)
    <3>1. Len(resolving.pins) \in Nat
      BY DEF ResolutionInv, Fields
    <3>2. Len(resolving.plan.cases) \in Nat
      BY <2>2
    <3>3. Len(resolving.pins) < Len(resolving.plan.cases)
      BY DEF ReadCase
    <3> QED
      BY <3>1, <3>2, <3>3
  <2> QED
    BY <2>2, <2>3
<1>2. named.of \in LoadCases \cup {Stranger} /\ named.revision \in Nat
  BY <1>1 DEF Reference
<1> HIDE DEF n, named
<1>3. CASE named.of = Stranger \/ r = 0
  <2>1. Refuse("not found")
    BY <1>3 DEF ReadCase, n, named
  <2>2. /\ Histories' /\ Fields' /\ Planned' /\ Followed'
        /\ resolving'.at = "answered" /\ resolving'.verdict = "not found"
    BY <1>0, <2>1, RefusalKeeps
  <2> QED
    BY <2>2 DEF ResolutionInv, WorkSoFar, Shaped, Merged, Answered, Judged
<1>4. CASE named.of # Stranger /\ r # 0
  <2>1. /\ DOMAIN resolving' = DOMAIN resolving
        /\ resolving'.at = "cases" /\ resolving'.verdict = "none"
        /\ resolving'.geometry = resolving.geometry /\ resolving'.shape = resolving.shape
        /\ resolving'.plan = resolving.plan /\ resolving'.design = resolving.design
        /\ resolving'.pins = Append(resolving.pins, pin)
        /\ resolving'.bodies = Append(resolving.bodies, read)
        /\ resolving'.begun = resolving.begun
    BY <1>0, <1>4, ZenonT(40) DEF ReadCase, ResolutionInv, Fields, n, named
  <2>2. /\ named.of \in LoadCases /\ cases[named.of] \in Seq(CaseBodies)
        /\ Len(cases[named.of]) > 0
    BY <1>2, <1>4 DEF ResolutionInv, Histories
  <2>3. /\ r \in 1..Len(cases[named.of]) /\ Len(cases[named.of]) \in Nat
        /\ (named.revision # 0 => r = named.revision)
        /\ (named.revision = 0 => r = Len(cases[named.of]))
    <3>1. /\ r \in 0..Len(cases[named.of])
          /\ (r # 0 => (named.revision # 0 => r = named.revision))
          /\ (named.revision = 0 => r = Len(cases[named.of]))
      BY <1>2, <2>2, RevisionIsThere
    <3>2. Len(cases[named.of]) \in Nat
      BY <2>2
    <3> QED
      BY <1>4, <3>1, <3>2
  <2> HIDE DEF r
  <2>4. pin \in Pin /\ read \in CaseBodies
    BY <2>2, <2>3 DEF Pin
  <2>5. pin.of = named.of /\ pin.revision = r
    OBVIOUS
  <2> HIDE DEF pin
  <2>6. read = cases[pin.of][pin.revision]
    BY <2>5
  <2> HIDE DEF read
  <2>7. resolving.pins \in Seq(Pin) /\ resolving.bodies \in Seq(CaseBodies)
        /\ Len(resolving.bodies) = Len(resolving.pins)
    BY DEF ResolutionInv, Fields
  <2>8. /\ resolving'.pins \in Seq(Pin) /\ Len(resolving'.pins) = n
        /\ Len(resolving.pins) \in Nat /\ n = Len(resolving.pins) + 1
        /\ resolving'.pins[n] = pin
        /\ \A i \in 1..Len(resolving.pins) : resolving'.pins[i] = resolving.pins[i]
    BY <2>1, <2>4, <2>7, AppendKeeps DEF n
  <2>9. /\ resolving'.bodies \in Seq(CaseBodies) /\ Len(resolving'.bodies) = n
        /\ resolving'.bodies[n] = read
        /\ \A i \in 1..Len(resolving.pins) : resolving'.bodies[i] = resolving.bodies[i]
    BY <2>1, <2>4, <2>7, AppendKeeps DEF n
  <2>10. Histories' /\ Fields' /\ Planned'
    BY <1>0, <2>1, <2>8, <2>9 DEF ResolutionInv, Histories, Fields, WorkSoFar, Planned
  <2>11. Followed'
    <3> SUFFICES ASSUME NEW i \in 1..n
                 PROVE  LET taken == resolving'.pins[i]
                            ref == resolving.plan.cases[i] IN
                        /\ taken.revision \in 1..Len(cases[taken.of])
                        /\ resolving'.bodies[i] = cases[taken.of][taken.revision]
                        /\ taken.of = ref.of
                        /\ ref.revision # 0 => taken.revision = ref.revision
                        /\ ref.revision = 0 => taken.revision >= resolving.begun[ref.of]
      BY <1>0, <2>1, <2>8, ZenonT(40) DEF Followed
    <3>1. CASE i \in 1..Len(resolving.pins)
      BY <2>8, <2>9, <3>1 DEF ResolutionInv, WorkSoFar, Followed
    <3>2. CASE i = n
      <4>1. resolving.begun[named.of] <= Len(cases[named.of])
        BY <1>0, <2>2 DEF ResolutionInv, WorkSoFar, Planned
      <4> QED
        BY <2>2, <2>3, <2>5, <2>6, <2>8, <2>9, <3>2, <4>1 DEF named
    <3> QED
      BY <2>8, <3>1, <3>2
  <2>12. Shaped' /\ Merged' /\ Answered'
    BY <1>0, <2>1 DEF ResolutionInv, WorkSoFar, Shaped, Merged, Answered, Judged
  <2> QED
    BY <2>10, <2>11, <2>12 DEF ResolutionInv, WorkSoFar
<1> QED
  BY <1>3, <1>4

LEMMA MergeKeeps ==
    ASSUME ResolutionInv, MergeCases
    PROVE  ResolutionInv'
<1>0. resolving.at = "cases" /\ UNCHANGED <<designs, shapes, cases>>
  BY DEF MergeCases
<1>1. CASE Conflicting(resolving.bodies)
  <2>1. Refuse("conflict")
    BY <1>1 DEF MergeCases
  <2>2. /\ Histories' /\ Fields' /\ Planned' /\ Followed'
        /\ resolving'.at = "answered" /\ resolving'.verdict = "conflict"
        /\ resolving'.geometry = resolving.geometry /\ resolving'.shape = resolving.shape
        /\ resolving'.bodies = resolving.bodies
    BY <1>0, <2>1, RefusalKeeps
  <2> QED
    BY <1>0, <1>1, <2>2 DEF ResolutionInv, WorkSoFar, Shaped, Merged, Answered, Judged
<1>2. CASE ~Conflicting(resolving.bodies)
  <2>1. /\ DOMAIN resolving' = DOMAIN resolving
        /\ resolving'.at = "checking" /\ resolving'.verdict = "none"
        /\ resolving'.geometry = resolving.geometry /\ resolving'.shape = resolving.shape
        /\ resolving'.plan = resolving.plan /\ resolving'.design = resolving.design
        /\ resolving'.pins = resolving.pins /\ resolving'.bodies = resolving.bodies
        /\ resolving'.begun = resolving.begun
        /\ resolving'.conditions = MergeOf(resolving.bodies)
    BY <1>0, <1>2 DEF MergeCases, ResolutionInv, Fields
  <2>2. Histories' /\ Fields' /\ Planned' /\ Followed'
    BY <1>0, <2>1 DEF ResolutionInv, Histories, Fields, WorkSoFar, Planned, Followed
  <2>3. Shaped' /\ Merged' /\ Answered'
    BY <1>0, <1>2, <2>1 DEF ResolutionInv, WorkSoFar, Shaped, Merged, Answered, Judged
  <2> QED
    BY <2>2, <2>3 DEF ResolutionInv, WorkSoFar
<1> QED
  BY <1>1, <1>2

LEMMA CheckKeeps ==
    ASSUME ResolutionInv, CheckConditions
    PROVE  ResolutionInv'
<1> DEFINE inForce == DOMAIN resolving.conditions
           why == IF \E s \in inForce : s.boundary \notin resolving.shape THEN "unknown boundary"
                  ELSE IF \E s \in inForce : s.key \notin AcceptedKeys THEN "unknown key"
                  ELSE "accepted"
<1>0. resolving.at = "checking" /\ UNCHANGED <<designs, shapes, cases>> /\ Refuse(why)
  BY DEF CheckConditions
<1>1. /\ why \in Judged \ {"conflict"}
      /\ why = "accepted" =>
           \A s \in inForce : s.boundary \in resolving.shape /\ s.key \in AcceptedKeys
      /\ why = "unknown boundary" => \E s \in inForce : s.boundary \notin resolving.shape
  BY DEF Judged
<1> HIDE DEF why
<1>2. /\ Histories' /\ Fields' /\ Planned' /\ Followed'
      /\ resolving'.at = "answered" /\ resolving'.verdict = why
      /\ resolving'.geometry = resolving.geometry /\ resolving'.shape = resolving.shape
      /\ resolving'.bodies = resolving.bodies /\ resolving'.conditions = resolving.conditions
  BY <1>0, RefusalKeeps
<1>3. Shaped' /\ Merged' /\ Answered'
  BY <1>0, <1>1, <1>2 DEF ResolutionInv, WorkSoFar, Shaped, Merged, Answered, Judged
<1> QED
  BY <1>2, <1>3 DEF ResolutionInv, WorkSoFar

LEMMA ResolutionInductive == ResolutionSpec => []ResolutionInv
<1>1. ResolutionInit => ResolutionInv
  <2> SUFFICES ASSUME ResolutionInit PROVE ResolutionInv
    OBVIOUS
  <2>1. PICK d \in Drafts, s \in Shapes, b \in CaseBodies :
          designs = <<d>> /\ shapes = <<s>> /\ cases = [c \in LoadCases |-> <<b>>]
    BY DEF ResolutionInit
  <2>2. Histories
    BY <2>1 DEF Histories
  <2>3. Fields /\ resolving.at = "idle" /\ resolving.verdict = "none" /\ resolving.pins = <<>>
    BY DEF ResolutionInit, NotResolving, Fields
  <2>4. WorkSoFar
    BY <2>3 DEF WorkSoFar, Planned, Followed, Shaped, Merged, Answered, Judged
  <2> QED
    BY <2>2, <2>3, <2>4 DEF ResolutionInv
<1>2. ResolutionInv /\ [ResolutionNext]_resolutionVars => ResolutionInv'
  <2> SUFFICES ASSUME ResolutionInv, [ResolutionNext]_resolutionVars PROVE ResolutionInv'
    OBVIOUS
  <2>1. CASE UNCHANGED resolutionVars
    BY <2>1 DEF resolutionVars, ResolutionInv, Histories, Fields, WorkSoFar, Planned, Followed,
                Shaped, Merged, Answered
  <2> QED
    BY <2>1, PatchKeeps, ReadDesignKeeps, ReadGeometryKeeps, ReadCaseKeeps, MergeKeeps, CheckKeeps
       DEF ResolutionNext
<1> QED
  BY <1>1, <1>2, PTL DEF ResolutionSpec

-----------------------------------------------------------------------------
\* The pins of a resolution, read back at any time, give what was read.
LEMMA PinsReadBack ==
    ASSUME ResolutionInv
    PROVE  PinnedBodies = resolving.bodies
<1>1. /\ resolving.pins \in Seq(Pin) /\ resolving.bodies \in Seq(CaseBodies)
      /\ Len(resolving.bodies) = Len(resolving.pins)
  BY DEF ResolutionInv, Fields
<1>2. DOMAIN PinnedBodies = 1..Len(resolving.pins)
  BY <1>1 DEF PinnedBodies
<1>3. \A i \in 1..Len(resolving.pins) : PinnedBodies[i] = resolving.bodies[i]
  BY <1>1 DEF PinnedBodies, ResolutionInv, WorkSoFar, Followed
<1>4. PinnedBodies = [i \in 1..Len(resolving.pins) |-> PinnedBodies[i]]
  BY <1>1 DEF PinnedBodies
<1>5. resolving.bodies = [i \in 1..Len(resolving.pins) |-> resolving.bodies[i]]
  BY <1>1
<1> QED
  BY <1>3, <1>4, <1>5

\* What a job records is what it runs with, and a design's pins are obeyed
\* (Workspace.resolve_design, merge_load_cases, check_conditions).
THEOREM ResolutionTellsTheTruth == ResolutionSpec => []ResolutionIsSound
<1>1. ResolutionInv => ProvenanceReproduces
  <2> SUFFICES ASSUME ResolutionInv PROVE ProvenanceReproduces
    OBVIOUS
  <2>1. PinnedBodies = resolving.bodies /\ DOMAIN resolving.bodies \subseteq Nat
    BY PinsReadBack DEF ResolutionInv, Fields
  <2>2. CASE resolving.verdict = "accepted"
    <3>1. ~Conflicting(resolving.bodies) /\ resolving.conditions = MergeOf(resolving.bodies)
      BY <2>2 DEF ResolutionInv, WorkSoFar, Merged, Judged
    <3>2. resolving.shape = shapes[resolving.geometry]
      BY <2>2 DEF ResolutionInv, WorkSoFar, Shaped, Judged
    <3>3. \A s \in DOMAIN resolving.conditions :
            s.boundary \in shapes[resolving.geometry] /\ s.key \in AcceptedKeys
      BY <2>2, <3>2 DEF ResolutionInv, WorkSoFar, Answered
    <3>4. /\ DOMAIN resolving.conditions = SetBy(resolving.bodies)
          /\ \A i \in DOMAIN resolving.bodies : \A s \in DOMAIN resolving.bodies[i] :
               resolving.conditions[s] = resolving.bodies[i][s]
      BY <2>1, <3>1, MergeKeepsAll
    <3>5. \A i \in DOMAIN resolving.bodies : \A s \in DOMAIN resolving.bodies[i] :
            s \in SetBy(resolving.bodies)
      BY DEF SetBy
    <3> QED
      BY <2>1, <2>2, <3>2, <3>3, <3>4, <3>5 DEF ProvenanceReproduces
  <2>3. CASE resolving.verdict = "conflict"
    BY <2>1, <2>3 DEF ProvenanceReproduces, ResolutionInv, WorkSoFar, Merged
  <2>4. CASE resolving.verdict = "unknown boundary"
    <3>1. ~Conflicting(resolving.bodies) /\ resolving.conditions = MergeOf(resolving.bodies)
      BY <2>4 DEF ResolutionInv, WorkSoFar, Merged, Judged
    <3>2. DOMAIN resolving.conditions = SetBy(resolving.bodies)
      BY <2>1, <3>1, MergeKeepsAll
    <3>3. /\ resolving.shape = shapes[resolving.geometry]
          /\ \E s \in DOMAIN resolving.conditions : s.boundary \notin resolving.shape
      BY <2>4 DEF ResolutionInv, WorkSoFar, Shaped, Answered, Judged
    <3> QED
      BY <2>1, <2>4, <3>2, <3>3 DEF ProvenanceReproduces
  <2> QED
    BY <2>2, <2>3, <2>4 DEF ProvenanceReproduces
<1>2. ResolutionInv => PinsAreObeyed
  <2> SUFFICES ASSUME ResolutionInv, NEW i \in DOMAIN resolving.pins
               PROVE  LET named == designs[resolving.design].cases[i]
                          taken == resolving.pins[i] IN
                      /\ taken.of = named.of
                      /\ IF named.revision # 0 THEN taken.revision = named.revision
                         ELSE taken.revision >= resolving.begun[named.of]
    BY DEF PinsAreObeyed
  <2>1. i \in 1..Len(resolving.pins) /\ resolving.at # "idle"
    BY DEF ResolutionInv, Fields
  <2> QED
    BY <2>1 DEF ResolutionInv, WorkSoFar, Planned, Followed
<1> QED
  BY <1>1, <1>2, ResolutionInductive, PTL DEF ResolutionIsSound

-----------------------------------------------------------------------------
(* Search *)

Engaged(t) == tasks[t].at \in {"asking", "polling", "ended"}

\* The task in flight is the one _searches names, until its callback has run.
SearchInv ==
    /\ DOMAIN tasks = Tasks /\ \A t \in Tasks : DOMAIN tasks[t] = {"at", "answered", "job"}
    /\ \A t \in Tasks : Engaged(t) => searches = t
    /\ StopIsCurrent

\* A step that moves one task, the one in flight or one that becomes it.
LEMMA OneTask ==
    ASSUME SearchInv, NEW t \in Tasks, NEW x, DOMAIN x = {"at", "answered", "job"},
           tasks' = [tasks EXCEPT ![t] = x],
           \A u \in Tasks \ {t} : ~Engaged(u),
           x.at \in {"asking", "polling", "ended"} => searches' = t,
           x.at \in {"asking", "polling"} => stops' = NoStop
    PROVE  SearchInv'
<1>1. /\ DOMAIN tasks' = Tasks /\ tasks'[t] = x
      /\ \A u \in Tasks \ {t} : tasks'[u] = tasks[u]
  BY DEF SearchInv
<1>2. \A u \in Tasks : DOMAIN tasks'[u] = {"at", "answered", "job"}
  BY <1>1 DEF SearchInv
<1>3. \A u \in Tasks : Engaged(u)' => searches' = u
  BY <1>1 DEF Engaged
<1>4. StopIsCurrent'
  <2> SUFFICES ASSUME AtWork' # {} PROVE stops' = NoStop
    BY DEF StopIsCurrent
  <2>1. PICK u \in Tasks : tasks'[u].at \in {"asking", "polling"}
    BY DEF AtWork
  <2>2. u = t
    BY <1>1, <2>1 DEF Engaged
  <2> QED
    BY <1>1, <2>1, <2>2
<1> QED
  BY <1>1, <1>2, <1>3, <1>4 DEF SearchInv

\* Whoever is engaged is alone, and remembers no stop unless it has ended.
LEMMA Alone ==
    ASSUME SearchInv, NEW t \in Tasks, Engaged(t)
    PROVE  /\ searches = t /\ \A u \in Tasks \ {t} : ~Engaged(u)
           /\ tasks[t].at \in {"asking", "polling"} => stops = NoStop
<1>1. searches = t /\ \A u \in Tasks \ {t} : ~Engaged(u)
  BY DEF SearchInv
<1>2. tasks[t].at \in {"asking", "polling"} => stops = NoStop
  BY DEF SearchInv, StopIsCurrent, AtWork
<1> QED
  BY <1>1, <1>2

LEMMA FreshAt ==
    ASSUME NEW place
    PROVE  DOMAIN Fresh(place) = {"at", "answered", "job"} /\ Fresh(place).at = place
BY DEF Fresh

LEMMA SearchKeeps ==
    ASSUME SearchInv, [SearchNext]_searchVars
    PROVE  SearchInv'
<1>1. ASSUME NEW t \in Tasks, Start(t) PROVE SearchInv'
  <2> DEFINE x == [tasks[t] EXCEPT !.at = "asking"]
  <2>1. /\ tasks' = [tasks EXCEPT ![t] = x] /\ DOMAIN x = {"at", "answered", "job"}
        /\ searches = NoTask /\ searches' = t /\ stops' = NoStop
    BY <1>1 DEF Start, SearchInv
  <2>2. \A u \in Tasks : ~Engaged(u)
    BY <2>1 DEF SearchInv
  <2> HIDE DEF x
  <2> QED
    BY <2>1, <2>2, OneTask
<1>2. ASSUME NEW t \in Tasks, tasks[t].at \in {"asking", "polling"},
             tasks' = [tasks EXCEPT ![t] = Fresh("ended")], searches' = searches
      PROVE  SearchInv'
  <2>1. searches = t /\ \A u \in Tasks \ {t} : ~Engaged(u)
    BY <1>2, Alone DEF Engaged
  <2>2. DOMAIN Fresh("ended") = {"at", "answered", "job"} /\ Fresh("ended").at = "ended"
    BY FreshAt
  <2> QED
    BY <1>2, <2>1, <2>2, OneTask
<1>3. ASSUME NEW t \in Tasks, tasks[t].at \in {"asking", "polling"}, NEW x,
             DOMAIN x = {"at", "answered", "job"}, x.at \in {"asking", "polling"},
             tasks' = [tasks EXCEPT ![t] = x], searches' = searches, stops' = stops
      PROVE  SearchInv'
  <2>1. searches = t /\ stops = NoStop /\ \A u \in Tasks \ {t} : ~Engaged(u)
    BY <1>3, Alone DEF Engaged
  <2> QED
    BY <1>3, <2>1, OneTask
<1>4. ASSUME NEW t \in Tasks, Ask(t) PROVE SearchInv'
  <2>1. tasks[t].at = "asking" /\ searches' = searches
    BY <1>4 DEF Ask
  <2>2. CASE \E reason, refused, last : Conclude(t, reason, refused, last)
    BY <1>2, <2>1, <2>2 DEF Conclude
  <2>3. CASE \E j : tasks' = [tasks EXCEPT ![t].at = "polling", ![t].job = j] /\ stops' = stops
    <3>1. PICK j : tasks' = [tasks EXCEPT ![t].at = "polling", ![t].job = j] /\ stops' = stops
      BY <2>3
    <3> DEFINE x == [tasks[t] EXCEPT !.at = "polling", !.job = j]
    <3>2. DOMAIN x = {"at", "answered", "job"} /\ x.at = "polling"
      BY DEF SearchInv
    <3>3. tasks' = [tasks EXCEPT ![t] = x]
      BY <3>1 DEF SearchInv
    <3> HIDE DEF x
    <3> QED
      BY <1>3, <2>1, <3>1, <3>2, <3>3
  <2> QED
    BY <1>4, <2>2, <2>3 DEF Ask
<1>5. ASSUME NEW t \in Tasks, Observe(t) PROVE SearchInv'
  <2>1. tasks[t].at = "polling" /\ searches' = searches
    BY <1>5 DEF Observe
  <2>2. CASE \E reason, refused, last : Conclude(t, reason, refused, last)
    BY <1>2, <2>1, <2>2 DEF Conclude
  <2>3. CASE \E a : tasks' = [tasks EXCEPT ![t] = [at |-> "asking", job |-> 0, answered |-> a]]
                    /\ stops' = stops
    <3>1. PICK a : tasks' = [tasks EXCEPT ![t] = [at |-> "asking", job |-> 0, answered |-> a]]
                   /\ stops' = stops
      BY <2>3
    <3> DEFINE x == [at |-> "asking", job |-> 0, answered |-> a]
    <3>2. DOMAIN x = {"at", "answered", "job"} /\ x.at = "asking"
          /\ tasks' = [tasks EXCEPT ![t] = x]
      BY <3>1
    <3> HIDE DEF x
    <3> QED
      BY <1>3, <2>1, <3>1, <3>2
  <2> QED
    BY <1>5, <2>2, <2>3 DEF Observe
<1>6. ASSUME NEW t \in Tasks, ObservePurged(t) PROVE SearchInv'
  BY <1>2, <1>6 DEF ObservePurged
<1>7. ASSUME NEW t \in Tasks, SearchFinished(t) PROVE SearchInv'
  <2>1. \A u \in Tasks \ {t} : ~Engaged(u)
    BY <1>7, Alone DEF SearchFinished, Engaged
  <2>2. DOMAIN Fresh("gone") = {"at", "answered", "job"} /\ Fresh("gone").at = "gone"
    BY FreshAt
  <2> QED
    BY <1>7, <2>1, <2>2, OneTask DEF SearchFinished
<1>8. CASE UNCHANGED <<searches, stops, tasks>>
  BY <1>8 DEF SearchInv, Engaged, StopIsCurrent, AtWork
<1>9. CASE SearchCrash
  <2>1. /\ DOMAIN tasks' = Tasks /\ stops' = NoStop
        /\ \A t \in Tasks : tasks'[t] = (IF tasks[t].at = "unborn" THEN tasks[t] ELSE Fresh("gone"))
    BY <1>9 DEF SearchCrash
  <2>2. \A t \in Tasks : DOMAIN tasks'[t] = {"at", "answered", "job"} /\ ~Engaged(t)'
    BY <2>1, FreshAt DEF SearchInv, Engaged
  <2> QED
    BY <2>1, <2>2 DEF SearchInv, StopIsCurrent
<1> QED
  BY <1>1, <1>4, <1>5, <1>6, <1>7, <1>8, <1>9
     DEF SearchNext, SearchStep, OfTheJobs, SubmitElsewhere, searchVars

LEMMA OneAtATime == ASSUME SearchInv PROVE OneSearchPerKey /\ StopIsCurrent
<1> SUFFICES ASSUME NEW t \in AtWork PROVE searches = t /\ AtWork = {t}
  BY DEF SearchInv, OneSearchPerKey
<1>1. t \in Tasks /\ Engaged(t)
  BY DEF AtWork, Engaged
<1>2. searches = t /\ \A u \in Tasks \ {t} : ~Engaged(u)
  BY <1>1, Alone
<1> QED
  BY <1>2 DEF AtWork, Engaged

\* At most one driver works for a revision, it is the one _searches names, and
\* what an earlier one left is forgotten while it works: the entry is set and
\* popped by key, the pop from a callback that comes some time after the task
\* ended (core/service.py: run_optimization, _search_finished).
THEOREM OneSearchAtATime == SearchSpec => [](OneSearchPerKey /\ StopIsCurrent)
<1>1. SearchInit => SearchInv
  BY FreshAt DEF SearchInit, SearchInv, Engaged, StopIsCurrent, AtWork
<1>2. SearchInv /\ [SearchNext]_searchVars => SearchInv'
  BY SearchKeeps
<1> QED
  BY <1>1, <1>2, OneAtATime, PTL DEF SearchSpec

-----------------------------------------------------------------------------
(* What a search leaves behind *)

HIDE ObjectsAssumption
HIDE FileAssumption
HIDE ResolutionAssumption
USE VariationsAssumption

\* The jobs of one optimization: a point is the answers that led to it.
SearchJob == [point : Seq(Metrics), design : {1}, rank : Nat \cup {NoRank},
              status : Finished \cup {"running", "broken", "purged"},
              metric : Metrics \cup {NoMetric}]

JobShapes == jobs \in Seq(SearchJob) /\ cacheable \in BOOLEAN

\* Each answer of p is the metric of a job at the point that p had reached.
Traced(p) ==
    \A k \in 1..Len(p) : \E j \in DOMAIN jobs :
        jobs[j].point = SubSeq(p, 1, k - 1) /\ jobs[j].metric = p[k]

Metered ==
    \A i \in DOMAIN jobs : jobs[i].metric # NoMetric => jobs[i].status \in {"done", "purged"}

\* Of the jobs at one point, all but the newest came to nothing.
NewestCounts ==
    cacheable => \A k, l \in DOMAIN jobs :
        k < l /\ jobs[k].point = jobs[l].point => jobs[k].status \in {"failed", "purged"}

SameAnswer ==
    cacheable => \A k, l \in DOMAIN jobs :
        /\ jobs[k].point = jobs[l].point
        /\ jobs[k].metric # NoMetric /\ jobs[l].metric # NoMetric
        => jobs[k].metric = jobs[l].metric

RanksAreLengths ==
    \A i \in DOMAIN jobs : jobs[i].rank \in Nat =>
        jobs[i].rank = Len(jobs[i].point) /\ Traced(jobs[i].point)

JobsInv == JobShapes /\ Metered /\ NewestCounts /\ SameAnswer /\ RanksAreLengths

\* What the jobs keep, whatever happens to them.
JobsCarry ==
    /\ jobs' \in Seq(SearchJob) /\ cacheable' = cacheable /\ Len(jobs) <= Len(jobs')
    /\ \A k \in DOMAIN jobs :
         /\ jobs'[k].point = jobs[k].point /\ jobs'[k].rank = jobs[k].rank
         /\ jobs[k].metric # NoMetric => jobs'[k].metric = jobs[k].metric
         /\ jobs[k].status \in {"failed", "purged"} => jobs'[k].status \in {"failed", "purged"}

LEMMA JobFields ==
    ASSUME JobShapes
    PROVE  /\ Len(jobs) \in Nat /\ DOMAIN jobs = 1..Len(jobs)
           /\ \A i \in DOMAIN jobs :
                /\ jobs[i] \in SearchJob
                /\ jobs[i].point \in Seq(Metrics) /\ jobs[i].design = 1
                /\ jobs[i].rank \in Nat \cup {NoRank}
                /\ jobs[i].status \in {"done", "failed", "running", "broken", "purged"}
                /\ jobs[i].metric \in Metrics \cup {NoMetric}
<1>1. \A i \in DOMAIN jobs : jobs[i] \in SearchJob
  BY DEF JobShapes
<1> QED
  BY <1>1 DEF JobShapes, SearchJob, Finished

LEMMA CachedFacts ==
    ASSUME JobShapes, NewestCounts, NEW p, NEW c, c = Cached(p, 1)
    PROVE  \/ /\ c = 0
              /\ cacheable => \A k \in DOMAIN jobs :
                   jobs[k].point = p => jobs[k].status \in {"failed", "purged"}
           \/ /\ cacheable /\ c \in DOMAIN jobs /\ jobs[c].point = p
              /\ \A k \in DOMAIN jobs :
                   jobs[k].point = p /\ jobs[k].status \notin {"failed", "purged"} => k = c
<1> DEFINE T == {k \in DOMAIN jobs :
                   /\ jobs[k].point = p /\ jobs[k].design = 1
                   /\ jobs[k].status \in Reusable \cup {"broken"}}
<1>1. \A k \in DOMAIN jobs :
        /\ k \in Nat /\ k > 0
        /\ k \in T <=> jobs[k].point = p /\ jobs[k].status \notin {"failed", "purged"}
  BY JobFields DEF Reusable
<1>2. CASE ~cacheable
  BY <1>2 DEF Cached
<1>3. CASE cacheable /\ T = {}
  <2>1. c = Max({0} \cup T)
    BY <1>3 DEF Cached
  <2>2. Max({0}) = 0
    BY DEF Max
  <2>3. {0} \cup T = {0}
    BY <1>3
  <2>4. c = 0
    BY <2>1, <2>2, <2>3, Zenon
  <2> QED
    BY <1>1, <1>3, <2>4
<1>4. CASE cacheable /\ T # {}
  <2>1. c = Max({0} \cup T)
    BY <1>4 DEF Cached
  <2>2. PICK j \in T : TRUE
    BY <1>4
  <2>3. j \in DOMAIN jobs /\ j \in Nat /\ j > 0 /\ jobs[j].point = p
    BY <1>1, <2>2
  <2> HIDE DEF T
  <2>4. \A k \in DOMAIN jobs : k \in T => k = j
    BY <1>1, <1>4, <2>2, <2>3 DEF NewestCounts
  <2>5. {0} \cup T = {0, j}
    BY <2>2, <2>4 DEF T
  <2>6. Max({0, j}) = j
    BY <2>3 DEF Max
  <2>7. c = j
    BY <2>1, <2>5, <2>6, Zenon
  <2> QED
    BY <1>1, <1>4, <2>3, <2>4, <2>7
<1> QED
  BY <1>2, <1>3, <1>4

LEMMA ByInputFacts ==
    ASSUME JobShapes, NEW r, NEW b, b = ByInput(r)
    PROVE  \/ /\ b = 0
              /\ \A k \in DOMAIN jobs : jobs[k].rank = r => jobs[k].status = "purged"
           \/ b \in DOMAIN jobs /\ jobs[b].rank = r /\ jobs[b].status # "purged"
<1> DEFINE S == {i \in DOMAIN jobs : jobs[i].rank = r /\ jobs[i].status # "purged"}
<1>1. S \subseteq Nat /\ b = IF S = {} THEN 0 ELSE Min(S)
  BY JobFields DEF ByInput
<1>2. CASE S = {}
  BY <1>1, <1>2
<1>3. CASE S # {}
  <2>1. b \in S
    BY <1>1, <1>3, LeastOf
  <2> QED
    BY <2>1
<1> QED
  BY <1>2, <1>3

LEMMA AnswerIsKnown ==
    ASSUME JobShapes, NewestCounts, NEW p, NEW r
    PROVE  Answer(JobOf(p, 1, r)) \in Metrics \cup {NoMetric}
<1>1. JobOf(p, 1, r) = 0 \/ JobOf(p, 1, r) \in DOMAIN jobs
  BY CachedFacts, ByInputFacts DEF JobOf
<1> QED
  BY <1>1, JobFields DEF Answer

\* Two histories of the same length are one, where a point has one answer.
LEMMA TracedIsOne ==
    ASSUME JobShapes, SameAnswer, cacheable, NEW p \in Seq(Metrics), NEW q \in Seq(Metrics),
           Len(p) = Len(q), Traced(p), Traced(q)
    PROVE  p = q
<1> DEFINE T == {n \in Nat : n <= Len(p) => \A k \in 1..n : p[k] = q[k]}
<1>1. 0 \in T
  OBVIOUS
<1>2. \A n \in T : n + 1 \in T
  <2> SUFFICES ASSUME NEW n \in Nat, n + 1 <= Len(p), \A k \in 1..n : p[k] = q[k]
               PROVE  p[n + 1] = q[n + 1]
    OBVIOUS
  <2>1. SubSeq(p, 1, n) = SubSeq(q, 1, n)
    OBVIOUS
  <2>2. n + 1 \in 1..Len(p) /\ n + 1 \in 1..Len(q) /\ (n + 1) - 1 = n
    OBVIOUS
  <2>3. PICK j \in DOMAIN jobs : jobs[j].point = SubSeq(p, 1, n) /\ jobs[j].metric = p[n + 1]
    BY <2>2 DEF Traced
  <2>4. PICK k \in DOMAIN jobs : jobs[k].point = SubSeq(q, 1, n) /\ jobs[k].metric = q[n + 1]
    BY <2>2 DEF Traced
  <2>5. p[n + 1] \in Metrics /\ q[n + 1] \in Metrics
    BY <2>2
  <2> QED
    BY <2>1, <2>3, <2>4, <2>5 DEF SameAnswer
<1>3. T = Nat
  <2>1. T \subseteq Nat
    OBVIOUS
  <2> HIDE DEF T
  <2> QED
    BY <1>1, <1>2, <2>1, EveryNumber
<1>4. Len(p) \in T
  BY <1>3
<1> QED
  BY <1>4, SeqEqual

-----------------------------------------------------------------------------
(* The replay *)

\* One step of ReplayedUpTo.
OneMore(n, a) ==
    LET m == Answer(JobOf(a, 1, Len(a))) IN
    IF Len(a) = n - 1 /\ Len(a) < Enough /\ m # NoMetric THEN Append(a, m) ELSE a

LEMMA ReplayUnfolds ==
    ASSUME JobShapes, NewestCounts
    PROVE  /\ ReplayedUpTo[0] = <<>>
           /\ \A n \in Nat : /\ ReplayedUpTo[n] \in Seq(Metrics)
                             /\ ReplayedUpTo[n + 1] = OneMore(n + 1, ReplayedUpTo[n])
<1> DEFINE A == Seq(Metrics)
           G == [x \in Nat \X A |-> OneMore(x[1] + 1, x[2])]
<1>1. \A n \in Nat, a \in A : OneMore(n + 1, a) \in A
  <2> SUFFICES ASSUME NEW n \in Nat, NEW a \in A PROVE OneMore(n + 1, a) \in A
    OBVIOUS
  <2>1. Answer(JobOf(a, 1, Len(a))) \in Metrics \cup {NoMetric}
    BY AnswerIsKnown
  <2> QED
    BY <2>1 DEF OneMore
<1>2. PICK H \in [Nat \X A -> A] : \A n \in Nat, a \in A : H[<<n, a>>] = OneMore(n + 1, a)
  <2>1. G \in [Nat \X A -> A]
    BY <1>1
  <2>2. \A n \in Nat, a \in A : G[<<n, a>>] = OneMore(n + 1, a)
    OBVIOUS
  <2> QED
    BY <2>1, <2>2, Zenon
<1>3. <<>> \in A
  OBVIOUS
<1> HIDE DEF A
<1>4. PICK f \in [Nat -> A] : f[0] = <<>> /\ \A n \in Nat : f[n + 1] = H[<<n, f[n]>>]
  <2>1. \E f \in [Nat -> A] : Iterates(f, <<>>, H)
    BY <1>3, RecursionWorks, Zenon
  <2> QED
    BY <2>1 DEF Iterates
<1>5. \A n \in Nat : f[n] \in A
  OBVIOUS
<1>6. \A n \in Nat : f[n] \in A /\ f[n + 1] = OneMore(n + 1, f[n])
  BY <1>2, <1>4, <1>5
<1>7. f = [n \in Nat |-> IF n = 0 THEN <<>> ELSE OneMore(n, f[n - 1])]
  <2>1. \A n \in Nat : f[n] = IF n = 0 THEN <<>> ELSE OneMore(n, f[n - 1])
    <3> SUFFICES ASSUME NEW n \in Nat, n # 0 PROVE f[n] = OneMore(n, f[n - 1])
      BY <1>4
    <3>1. n - 1 \in Nat /\ (n - 1) + 1 = n
      OBVIOUS
    <3> QED
      BY <1>6, <3>1
  <2> QED
    BY <1>4, <2>1
<1>8. ReplayedUpTo = CHOOSE g : g = [n \in Nat |-> IF n = 0 THEN <<>> ELSE OneMore(n, g[n - 1])]
  BY DEF ReplayedUpTo, OneMore
<1>9. ReplayedUpTo = [n \in Nat |-> IF n = 0 THEN <<>> ELSE OneMore(n, ReplayedUpTo[n - 1])]
  BY <1>7, <1>8, Zenon
<1>10. ReplayedUpTo[0] = <<>> /\ \A n \in Nat : ReplayedUpTo[n + 1] = OneMore(n + 1, ReplayedUpTo[n])
  BY <1>9
<1>11. \A n \in Nat : ReplayedUpTo[n] \in A
  <2> DEFINE T == {n \in Nat : ReplayedUpTo[n] \in A}
  <2>1. 0 \in T
    BY <1>3, <1>10
  <2>2. \A n \in T : n + 1 \in T
    BY <1>1, <1>10
  <2>3. T \subseteq Nat
    OBVIOUS
  <2> HIDE DEF T
  <2>4. T = Nat
    BY <2>1, <2>2, <2>3, EveryNumber
  <2> QED
    BY <2>4 DEF T
<1> QED
  BY <1>10, <1>11 DEF A


\* The replay gives back the answers a, when each was found at its point and
\* there is none at the last, or no leave to ask for one.
LEMMA ReplayIs ==
    ASSUME JobShapes, NewestCounts, budget \in Nat, NEW a \in Seq(Metrics),
           Len(a) <= budget, Len(a) <= Enough,
           \A k \in 0..Len(a) : k # Len(a) =>
             Answer(JobOf(SubSeq(a, 1, k), 1, k)) = a[k + 1],
           Len(a) < budget /\ Len(a) < Enough => Answer(JobOf(a, 1, Len(a))) = NoMetric
    PROVE  Replayed = a
<1> DEFINE n == Len(a)
           T == {k \in Nat : k <= n => ReplayedUpTo[k] = SubSeq(a, 1, k)}
           U == {k \in Nat : n + k <= budget => ReplayedUpTo[n + k] = a}
<1>1. n \in Nat /\ Enough \in Nat /\ T \subseteq Nat /\ U \subseteq Nat
  OBVIOUS
<1>2. 0 \in T
  <2>1. SubSeq(a, 1, 0) = <<>>
    OBVIOUS
  <2> QED
    BY <2>1, ReplayUnfolds
<1>3. ASSUME NEW k \in Nat, k + 1 <= n, ReplayedUpTo[k] = SubSeq(a, 1, k)
      PROVE  ReplayedUpTo[k + 1] = SubSeq(a, 1, k + 1)
  <2> DEFINE b == SubSeq(a, 1, k)
             m == Answer(JobOf(b, 1, Len(b)))
  <2>1. Len(b) = k /\ k \in 0..n /\ k # n
    BY <1>1, <1>3
  <2>2. m = a[k + 1] /\ a[k + 1] \in Metrics /\ a[k + 1] # NoMetric
    BY <1>1, <1>3, <2>1
  <2>3. ReplayedUpTo[k + 1] = OneMore(k + 1, b)
    BY <1>3, ReplayUnfolds
  <2>4. OneMore(k + 1, b) = Append(b, m)
    <3>1. Len(b) = (k + 1) - 1 /\ Len(b) < Enough /\ m # NoMetric
      BY <1>1, <1>3, <2>1, <2>2
    <3> HIDE DEF b
    <3> QED
      BY <3>1 DEF OneMore
  <2>5. Append(b, a[k + 1]) = SubSeq(a, 1, k + 1)
    BY <1>1, <1>3, <2>1
  <2> HIDE DEF m, b
  <2> QED
    BY <2>2, <2>3, <2>4, <2>5
<1>4. \A k \in T : k + 1 \in T
  BY <1>1, <1>3
<1>5. T = Nat
  <2> HIDE DEF T
  <2> QED
    BY <1>1, <1>2, <1>4, EveryNumber
<1>6. ReplayedUpTo[n] = a
  <2>1. \A k \in Nat : k <= n => ReplayedUpTo[k] = SubSeq(a, 1, k)
    BY <1>5
  <2>2. SubSeq(a, 1, n) = a
    OBVIOUS
  <2>3. n <= n
    BY <1>1
  <2> HIDE DEF n
  <2> QED
    BY <1>1, <2>1, <2>2, <2>3
<1>7. 0 \in U
  BY <1>1, <1>6
<1>8. ASSUME NEW k \in Nat, n + (k + 1) <= budget, ReplayedUpTo[n + k] = a
      PROVE  ReplayedUpTo[n + (k + 1)] = a
  <2>1. ReplayedUpTo[(n + k) + 1] = OneMore((n + k) + 1, a)
    <3>1. PICK q \in Nat : q = n + k
      BY <1>1
    <3>2. ReplayedUpTo[q] = a /\ ReplayedUpTo[q + 1] = OneMore(q + 1, ReplayedUpTo[q])
      BY <1>8, <3>1, ReplayUnfolds
    <3> QED
      BY <3>1, <3>2
  <2>2. (n + k) + 1 = n + (k + 1) /\ n + k \in Nat
    BY <1>1
  <2>3. \/ n # ((n + k) + 1) - 1 \/ ~(n < Enough) \/ Answer(JobOf(a, 1, n)) = NoMetric
    BY <1>1, <1>8
  <2>4. OneMore((n + k) + 1, a) = a
    BY <2>3 DEF OneMore
  <2> QED
    BY <2>1, <2>2, <2>4
<1>9. \A k \in U : k + 1 \in U
  BY <1>1, <1>8
<1>10. U = Nat
  <2> HIDE DEF U
  <2> QED
    BY <1>1, <1>7, <1>9, EveryNumber
<1>11. budget - n \in Nat /\ n + (budget - n) = budget
  BY <1>1
<1>12. budget - n \in U
  BY <1>10, <1>11, Zenon
<1> QED
  BY <1>11, <1>12 DEF Replayed

-----------------------------------------------------------------------------
(* What happens to the jobs *)

LEMMA TracedStays == ASSUME JobShapes, JobsCarry, NEW p \in Seq(Metrics), Traced(p) PROVE Traced(p)'
<1> SUFFICES ASSUME NEW k \in 1..Len(p)
             PROVE  \E j \in DOMAIN jobs' :
                      jobs'[j].point = SubSeq(p, 1, k - 1) /\ jobs'[j].metric = p[k]
  BY DEF Traced
<1>1. PICK j \in DOMAIN jobs : jobs[j].point = SubSeq(p, 1, k - 1) /\ jobs[j].metric = p[k]
  BY DEF Traced
<1>2. j \in DOMAIN jobs'
  BY <1>1, JobFields DEF JobsCarry
<1>3. p[k] # NoMetric
  <2>1. p[k] \in Metrics
    OBVIOUS
  <2> QED
    BY <2>1
<1> QED
  BY <1>1, <1>2, <1>3 DEF JobsCarry

LEMMA TracedGrows ==
    ASSUME NEW p \in Seq(Metrics), Traced(p), NEW j \in DOMAIN jobs, NEW m \in Metrics,
           jobs[j].point = p, jobs[j].metric = m
    PROVE  Traced(Append(p, m))
<1> SUFFICES ASSUME NEW k \in 1..(Len(p) + 1)
             PROVE  \E i \in DOMAIN jobs :
                      /\ jobs[i].point = SubSeq(Append(p, m), 1, k - 1)
                      /\ jobs[i].metric = Append(p, m)[k]
  BY DEF Traced
<1>1. CASE k = Len(p) + 1
  <2>1. SubSeq(Append(p, m), 1, k - 1) = p /\ Append(p, m)[k] = m
    BY <1>1
  <2> QED
    BY <2>1
<1>2. CASE k # Len(p) + 1
  <2>1. SubSeq(Append(p, m), 1, k - 1) = SubSeq(p, 1, k - 1) /\ Append(p, m)[k] = p[k]
    BY <1>2
  <2>2. k \in 1..Len(p)
    BY <1>2
  <2> QED
    BY <2>1, <2>2 DEF Traced
<1> QED
  BY <1>1, <1>2

\* The point of a job, one step later, may be written either way.
LEMMA TracedSame ==
    ASSUME NEW k, NEW p, jobs'[k].point = p, Traced(p)'
    PROVE  Traced(jobs[k].point)'
<1>1. \A n \in 1..Len(p) : \E j \in DOMAIN jobs' :
        jobs'[j].point = SubSeq(p, 1, n - 1) /\ jobs'[j].metric = p[n]
  BY DEF Traced
<1>2. \A n \in 1..Len(jobs'[k].point) : \E j \in DOMAIN jobs' :
        /\ jobs'[j].point = SubSeq(jobs'[k].point, 1, n - 1)
        /\ jobs'[j].metric = jobs'[k].point[n]
  <2> SUFFICES ASSUME NEW n \in 1..Len(jobs'[k].point)
               PROVE  \E j \in DOMAIN jobs' :
                        /\ jobs'[j].point = SubSeq(jobs'[k].point, 1, n - 1)
                        /\ jobs'[j].metric = jobs'[k].point[n]
    OBVIOUS
  <2>1. n \in 1..Len(p)
    OBVIOUS
  <2>2. PICK j \in DOMAIN jobs' :
          jobs'[j].point = SubSeq(p, 1, n - 1) /\ jobs'[j].metric = p[n]
    BY <1>1, <2>1
  <2> QED
    BY <2>2
<1> QED
  BY <1>2 DEF Traced

\* A rank stays what it says.
LEMMA RanksStay ==
    ASSUME JobsInv, JobsCarry,
           \A k \in DOMAIN jobs' \ DOMAIN jobs : jobs'[k].rank \in Nat =>
             jobs'[k].rank = Len(jobs'[k].point) /\ Traced(jobs[k].point)'
    PROVE  RanksAreLengths'
<1> SUFFICES ASSUME NEW k \in DOMAIN jobs, jobs'[k].rank \in Nat
             PROVE  jobs'[k].rank = Len(jobs'[k].point) /\ Traced(jobs[k].point)'
  BY DEF RanksAreLengths
<1>0. JobShapes
  BY DEF JobsInv
<1>1. PICK p : p = jobs[k].point
  OBVIOUS
<1>2. jobs'[k].point = p /\ jobs'[k].rank = jobs[k].rank /\ p \in Seq(Metrics)
  BY <1>0, <1>1, JobFields DEF JobsCarry
<1>3. jobs[k].rank = Len(p) /\ Traced(p)
  BY <1>1, <1>2 DEF JobsInv, RanksAreLengths
<1>4. Traced(p)'
  BY <1>0, <1>2, <1>3, TracedStays
<1>5. Traced(jobs[k].point)'
  BY <1>2, <1>4, TracedSame
<1> QED
  BY <1>2, <1>3, <1>5

\* One job changes its status and perhaps gets its metric.
LEMMA JobChanges ==
    ASSUME JobsInv, NEW i \in DOMAIN jobs, NEW s, NEW m,
           jobs' = [jobs EXCEPT ![i] = [@ EXCEPT !.status = s, !.metric = m]],
           cacheable' = cacheable,
           s \in {"done", "failed", "running", "broken", "purged"},
           m \in Metrics \cup {NoMetric},
           jobs[i].metric # NoMetric => m = jobs[i].metric,
           jobs[i].status \in {"failed", "purged"} => s \in {"failed", "purged"},
           m # NoMetric => s \in {"done", "purged"},
           cacheable /\ m # NoMetric => \A k \in DOMAIN jobs :
             jobs[k].point = jobs[i].point /\ jobs[k].metric # NoMetric => jobs[k].metric = m
    PROVE  JobsCarry /\ Len(jobs') = Len(jobs) /\ JobsInv'
<1> DEFINE x == [jobs[i] EXCEPT !.status = s, !.metric = m]
<1>1. JobShapes
  BY DEF JobsInv
<1>2. /\ x \in SearchJob /\ x.point = jobs[i].point /\ x.rank = jobs[i].rank
      /\ x.status = s /\ x.metric = m
  BY <1>1, JobFields DEF SearchJob, Finished
<1>3. jobs \in Seq(SearchJob) /\ jobs' = [jobs EXCEPT ![i] = x]
  BY <1>1 DEF JobShapes
<1> HIDE DEF x
<1>4. /\ jobs' \in Seq(SearchJob) /\ Len(jobs') = Len(jobs) /\ DOMAIN jobs' = DOMAIN jobs
      /\ jobs'[i] = x /\ \A k \in DOMAIN jobs : k # i => jobs'[k] = jobs[k]
  BY <1>2, <1>3
<1>5. JobsCarry
  BY <1>2, <1>3, <1>4 DEF JobsCarry
<1>6. JobShapes' /\ Metered'
  BY <1>1, <1>2, <1>4 DEF JobShapes, Metered, JobsInv
<1>7. NewestCounts'
  BY <1>2, <1>4, <1>5 DEF NewestCounts, JobsInv, JobsCarry
<1>8. SameAnswer'
  BY <1>2, <1>4 DEF SameAnswer, JobsInv
<1>9. RanksAreLengths'
  BY <1>4, <1>5, RanksStay
<1> QED
  BY <1>4, <1>5, <1>6, <1>7, <1>8, <1>9 DEF JobsInv

LEMMA JobsEvents ==
    ASSUME JobsInv, NEW i \in DOMAIN jobs, JobEnds(i) \/ JobBreaks(i) \/ PurgeJob(i)
    PROVE  JobsCarry /\ Len(jobs') = Len(jobs) /\ JobsInv'
<1>1. /\ jobs[i] \in SearchJob /\ JobShapes /\ i \in 1..Len(jobs) /\ jobs \in Seq(SearchJob)
      /\ jobs[i].status \in {"done", "failed", "running", "broken", "purged"}
      /\ jobs[i].metric \in Metrics \cup {NoMetric}
  BY JobFields DEF JobsInv, JobShapes
<1>2. jobs[i].metric # NoMetric => jobs[i].status \in {"done", "purged"}
  BY DEF JobsInv, Metered
<1>3. CASE JobEnds(i)
  <2>1. PICK s \in Finished, m \in Metrics \cup {NoMetric} :
          /\ s # "done" => m = NoMetric
          /\ \A k \in DOMAIN jobs :
               /\ cacheable /\ s = "done" /\ jobs[k].point = jobs[i].point
               /\ jobs[k].design = jobs[i].design /\ jobs[k].metric # NoMetric
               => jobs[k].metric = m
          /\ jobs' = [jobs EXCEPT ![i].status = s, ![i].metric = m]
    BY <1>3 DEF JobEnds
  <2>2. jobs' = [jobs EXCEPT ![i] = [@ EXCEPT !.status = s, !.metric = m]]
    BY <1>1, <2>1
  <2>3. jobs[i].status = "running" /\ cacheable' = cacheable
    BY <1>3 DEF JobEnds
  <2>4. \A k \in DOMAIN jobs : jobs[k].design = jobs[i].design
    BY <1>1, JobFields
  <2>5. s \in {"done", "failed"} /\ jobs[i].metric = NoMetric
    BY <1>2, <2>3 DEF Finished
  <2>6. m # NoMetric => s = "done"
    BY <2>1, <2>5
  <2>7. cacheable /\ m # NoMetric => \A k \in DOMAIN jobs :
          jobs[k].point = jobs[i].point /\ jobs[k].metric # NoMetric => jobs[k].metric = m
    BY <2>1, <2>4, <2>6
  <2> QED
    BY <2>2, <2>3, <2>5, <2>6, <2>7, JobChanges
<1>4. CASE JobBreaks(i)
  <2>1. /\ jobs[i].status = "running" /\ cacheable' = cacheable
        /\ jobs' = [jobs EXCEPT ![i].status = "broken"]
    BY <1>4 DEF JobBreaks
  <2>2. jobs' = [jobs EXCEPT ![i] = [@ EXCEPT !.status = "broken", !.metric = jobs[i].metric]]
    BY <1>1, <2>1 DEF SearchJob
  <2> QED
    BY <1>1, <1>2, <2>1, <2>2, JobChanges DEF JobsInv, SameAnswer
<1>5. CASE PurgeJob(i)
  <2>1. cacheable' = cacheable /\ jobs' = [jobs EXCEPT ![i].status = "purged"]
    BY <1>5 DEF PurgeJob
  <2>2. jobs' = [jobs EXCEPT ![i] = [@ EXCEPT !.status = "purged", !.metric = jobs[i].metric]]
    BY <1>1, <2>1 DEF SearchJob
  <2> QED
    <3>1. cacheable /\ jobs[i].metric # NoMetric => \A k \in DOMAIN jobs :
            jobs[k].point = jobs[i].point /\ jobs[k].metric # NoMetric
            => jobs[k].metric = jobs[i].metric
      BY DEF JobsInv, SameAnswer
    <3> QED
      BY <1>1, <2>1, <2>2, <3>1, JobChanges
<1> QED
  BY <1>3, <1>4, <1>5

LEMMA ReconciledJobs ==
    ASSUME JobsInv, JobsReconciled, cacheable' = cacheable
    PROVE  JobsCarry /\ Len(jobs') = Len(jobs) /\ JobsInv'
<1>1. /\ jobs \in Seq(SearchJob) /\ Len(jobs) \in Nat /\ DOMAIN jobs = 1..Len(jobs)
      /\ \A i \in DOMAIN jobs : jobs[i] \in SearchJob
  BY JobFields DEF JobsInv, JobShapes
<1>2. ASSUME NEW i \in DOMAIN jobs
      PROVE  /\ jobs'[i] \in SearchJob
             /\ jobs'[i].point = jobs[i].point /\ jobs'[i].rank = jobs[i].rank
             /\ jobs'[i].metric = jobs[i].metric
             /\ jobs'[i].status \in {jobs[i].status, "failed"}
             /\ jobs'[i].status # jobs[i].status => jobs[i].status \in {"running", "broken"}
  <2>1. jobs'[i] = IF jobs[i].status \in {"running", "broken"}
                   THEN [jobs[i] EXCEPT !.status = "failed"] ELSE jobs[i]
    BY DEF JobsReconciled
  <2>2. jobs[i] \in SearchJob
    BY <1>1
  <2> QED
    BY <2>1, <2>2 DEF SearchJob, Finished
<1>3. jobs' \in Seq(SearchJob) /\ Len(jobs') = Len(jobs) /\ DOMAIN jobs' = DOMAIN jobs
  <2>1. jobs' \in [1..Len(jobs) -> SearchJob]
    BY <1>1, <1>2 DEF JobsReconciled
  <2> QED
    BY <1>1, <2>1
<1>4. JobsCarry
  BY <1>2, <1>3 DEF JobsCarry
<1>5. JobShapes' /\ Metered'
  BY <1>2, <1>3 DEF JobsInv, JobShapes, Metered
<1>6. NewestCounts'
  BY <1>2, <1>3, <1>4 DEF NewestCounts, JobsInv, JobsCarry
<1>7. SameAnswer'
  BY <1>2, <1>3 DEF SameAnswer, JobsInv
<1>8. RanksAreLengths'
  BY <1>3, <1>4, RanksStay
<1> QED
  BY <1>3, <1>4, <1>5, <1>6, <1>7, <1>8 DEF JobsInv

LEMMA NewJobKeeps ==
    ASSUME JobsInv, NEW p \in Seq(Metrics), NEW r \in Nat \cup {NoRank},
           Cached(p, 1) = 0, jobs' = Append(jobs, NewJob(p, 1, r)), cacheable' = cacheable,
           r \in Nat => r = Len(p) /\ Traced(p)
    PROVE  /\ JobsCarry /\ JobsInv' /\ Len(jobs') = Len(jobs) + 1
           /\ \A k \in DOMAIN jobs : jobs'[k] = jobs[k]
           /\ jobs'[Len(jobs) + 1].point = p /\ jobs'[Len(jobs) + 1].rank = r
<1> DEFINE x == NewJob(p, 1, r)
           l == Len(jobs) + 1
<1>1. JobShapes /\ NewestCounts /\ jobs \in Seq(SearchJob) /\ DOMAIN jobs = 1..Len(jobs)
  BY JobFields DEF JobsInv, JobShapes
<1>2. /\ x \in SearchJob /\ x.point = p /\ x.rank = r /\ x.metric = NoMetric
      /\ x.status = "running"
  BY DEF NewJob, SearchJob
<1> HIDE DEF x
<1>3. /\ jobs' \in Seq(SearchJob) /\ Len(jobs') = l /\ jobs'[l] = x
      /\ \A k \in DOMAIN jobs : jobs'[k] = jobs[k] /\ k \in DOMAIN jobs' /\ k < l
      /\ \A k \in DOMAIN jobs' : k \in DOMAIN jobs \/ k = l
      /\ l \in DOMAIN jobs'
  <2>1. jobs' = Append(jobs, x)
    BY DEF x
  <2> QED
    BY <1>1, <1>2, <2>1
<1>4. JobsCarry
  BY <1>1, <1>3 DEF JobsCarry
<1>5. JobShapes' /\ Metered'
  BY <1>1, <1>2, <1>3 DEF JobsInv, JobShapes, Metered
<1>6. NewestCounts'
  <2> SUFFICES ASSUME cacheable, NEW k \in DOMAIN jobs', NEW n \in DOMAIN jobs',
                      k < n, jobs'[k].point = jobs'[n].point
               PROVE  jobs'[k].status \in {"failed", "purged"}
    BY <1>1 DEF NewestCounts
  <2>1. CASE n \in DOMAIN jobs
    <3>1. k \in DOMAIN jobs
      BY <1>1, <1>3, <2>1
    <3> QED
      BY <1>1, <1>3, <2>1, <3>1 DEF NewestCounts
  <2>2. CASE n = l
    <3>1. k \in DOMAIN jobs /\ jobs[k].point = p
      BY <1>1, <1>2, <1>3, <2>2
    <3>2. jobs[k].status \in {"failed", "purged"}
      BY <1>1, <3>1, CachedFacts, JobFields
    <3> QED
      BY <1>3, <3>1, <3>2
  <2> QED
    BY <1>3, <2>1, <2>2
<1>7. SameAnswer'
  BY <1>2, <1>3 DEF SameAnswer, JobsInv
<1>8. RanksAreLengths'
  <2> SUFFICES ASSUME NEW k \in DOMAIN jobs' \ DOMAIN jobs, jobs'[k].rank \in Nat
               PROVE  jobs'[k].rank = Len(jobs'[k].point) /\ Traced(jobs[k].point)'
    BY <1>4, RanksStay
  <2>1. jobs'[k].point = p /\ jobs'[k].rank = r
    BY <1>2, <1>3
  <2>2. Traced(p)' /\ r = Len(p)
    BY <1>1, <1>4, <2>1, TracedStays
  <2> QED
    BY <2>1, <2>2, TracedSame
<1> QED
  BY <1>2, <1>3, <1>4, <1>5, <1>6, <1>7, <1>8 DEF JobsInv

-----------------------------------------------------------------------------
(* What the tasks do *)

Task == [at : {"unborn", "asking", "polling", "ended", "gone"},
         answered : Seq(Metrics), job : Nat]

TasksOK ==
    /\ tasks \in [Tasks -> Task]
    /\ \A t \in Tasks :
         /\ Len(tasks[t].answered) <= budget /\ Len(tasks[t].answered) <= Enough
         /\ tasks[t].job <= Len(jobs)
         /\ Traced(tasks[t].answered)
         /\ tasks[t].at = "unborn" => tasks[t].answered = <<>>
         /\ tasks[t].at = "polling" =>
              /\ Len(tasks[t].answered) < budget /\ Len(tasks[t].answered) < Enough
              /\ tasks[t].job \in DOMAIN jobs
              /\ jobs[tasks[t].job].point = tasks[t].answered

\* Every job was made by the search that got the answers a, in their order.
Dense(a) ==
    /\ Len(a) <= Len(jobs)
    /\ \A i \in DOMAIN jobs : jobs[i].rank = i - 1
    /\ \A i \in 1..Len(a) : jobs[i].metric = a[i]

\* The first search, where every submission makes a job.
FirstSearch == ~cacheable /\ \A t \in Tasks : t > 1 => tasks[t].at = "unborn"

FirstIsDense ==
    FirstSearch /\ 1 \in Tasks =>
        /\ tasks[1].at = "unborn" => jobs = <<>>
        /\ tasks[1].at = "asking" =>
             Dense(tasks[1].answered) /\ Len(jobs) = Len(tasks[1].answered)
        /\ tasks[1].at = "polling" =>
             /\ Dense(tasks[1].answered) /\ Len(jobs) = Len(tasks[1].answered) + 1
             /\ tasks[1].job = Len(jobs)

\* No job at this point is to be had again.
CameToNothing(p) ==
    cacheable => \A k \in DOMAIN jobs :
        jobs[k].point = p => jobs[k].status \in {"failed", "purged"}

Run == [answered : Seq(Metrics), reason : Reasons, job : Nat]

\* Why the search ended after the answers it got: nothing has happened since.
Verdict ==
    ran # NoRun =>
        /\ AtWork = {} /\ ran \in Run
        /\ Traced(ran.answered)
        /\ Len(ran.answered) <= Enough /\ Len(ran.answered) <= budget
        /\ stops \in Stop /\ stops.answered = Len(ran.answered) /\ stops.reason = ran.reason
        /\ \/ ran.reason = "converged" /\ Len(ran.answered) >= Enough
           \/ /\ ran.reason = "budget"
              /\ Len(ran.answered) >= budget /\ Len(ran.answered) < Enough
           \/ /\ ran.reason = "stalled"
              /\ Len(ran.answered) < Enough /\ Len(ran.answered) < budget
              /\ \/ ran.job \in DOMAIN jobs /\ jobs[ran.job].metric = NoMetric
                 \/ ran.job = 0 /\ stops.refused /\ CameToNothing(ran.answered)
        /\ FirstSearch => /\ Dense(ran.answered)
                          /\ ran.job = 0 => Len(jobs) = Len(ran.answered)

SearchTrace ==
    /\ JobsInv /\ TasksOK /\ FirstIsDense /\ Verdict
    /\ budget \in Budgets /\ searches \in Tasks \cup {NoTask} /\ stops \in Stop \cup {NoStop}

LEMMA FreshTask ==
    ASSUME NEW place \in {"unborn", "asking", "polling", "ended", "gone"}
    PROVE  /\ Fresh(place) \in Task /\ Fresh(place).at = place
           /\ Fresh(place).answered = <<>> /\ Fresh(place).job = 0
BY DEF Fresh, Task

LEMMA TracedEmpty == Traced(<<>>)
BY DEF Traced

\* The answers of a task, one step later, may be written either way.
LEMMA TracedTask ==
    ASSUME NEW u, NEW p, tasks'[u].answered = p, Traced(p)'
    PROVE  Traced(tasks[u].answered)'
<1>1. \A n \in 1..Len(p) : \E j \in DOMAIN jobs' :
        jobs'[j].point = SubSeq(p, 1, n - 1) /\ jobs'[j].metric = p[n]
  BY DEF Traced
<1>2. \A n \in 1..Len(tasks'[u].answered) : \E j \in DOMAIN jobs' :
        /\ jobs'[j].point = SubSeq(tasks'[u].answered, 1, n - 1)
        /\ jobs'[j].metric = tasks'[u].answered[n]
  <2> SUFFICES ASSUME NEW n \in 1..Len(tasks'[u].answered)
               PROVE  \E j \in DOMAIN jobs' :
                        /\ jobs'[j].point = SubSeq(tasks'[u].answered, 1, n - 1)
                        /\ jobs'[j].metric = tasks'[u].answered[n]
    OBVIOUS
  <2>1. PICK j \in DOMAIN jobs' :
          jobs'[j].point = SubSeq(p, 1, n - 1) /\ jobs'[j].metric = p[n]
    BY <1>1
  <2> QED
    BY <2>1
<1> QED
  BY <1>2 DEF Traced

\* A task becomes x while the jobs stay or grow.
LEMMA TaskMoves ==
    ASSUME JobsInv, TasksOK, JobsCarry, budget' = budget,
           NEW t \in Tasks, NEW x \in Task, tasks' = [tasks EXCEPT ![t] = x],
           NEW a, a = x.answered, Traced(a)',
           Len(a) <= budget, Len(a) <= Enough, x.job <= Len(jobs'),
           x.at = "unborn" => a = <<>>,
           x.at = "polling" => /\ Len(a) < budget /\ Len(a) < Enough
                               /\ x.job \in DOMAIN jobs' /\ jobs'[x.job].point = a
    PROVE  TasksOK'
<1>1. /\ tasks' \in [Tasks -> Task] /\ tasks'[t] = x
      /\ \A u \in Tasks : u # t => tasks'[u] = tasks[u]
  BY DEF TasksOK
<1>2. JobShapes /\ Len(jobs) \in Nat /\ Len(jobs') \in Nat /\ Len(jobs) <= Len(jobs')
      /\ DOMAIN jobs = 1..Len(jobs) /\ DOMAIN jobs' = 1..Len(jobs')
  BY JobFields DEF JobsInv, JobsCarry
<1>3. ASSUME NEW u \in Tasks
      PROVE  /\ Len(tasks'[u].answered) <= budget /\ Len(tasks'[u].answered) <= Enough
             /\ tasks'[u].job <= Len(jobs')
             /\ Traced(tasks[u].answered)'
             /\ tasks'[u].at = "unborn" => tasks'[u].answered = <<>>
             /\ tasks'[u].at = "polling" =>
                  /\ Len(tasks'[u].answered) < budget /\ Len(tasks'[u].answered) < Enough
                  /\ tasks'[u].job \in DOMAIN jobs'
                  /\ jobs'[tasks'[u].job].point = tasks'[u].answered
  <2>1. CASE u = t
    <3>1. Traced(tasks[u].answered)'
      BY <1>1, <2>1, TracedTask
    <3> QED
      BY <1>1, <2>1, <3>1
  <2>2. CASE u # t
    <3>1. PICK p : p = tasks[u].answered
      OBVIOUS
    <3>2. tasks'[u] = tasks[u] /\ tasks[u] \in Task /\ p \in Seq(Metrics)
      BY <1>1, <2>2, <3>1 DEF TasksOK, Task
    <3>3. Traced(p)
      BY <3>1 DEF TasksOK
    <3>4. Traced(tasks[u].answered)'
      BY <1>2, <3>1, <3>2, <3>3, TracedStays, TracedTask
    <3>5. tasks[u].job \in Nat
      BY <3>2 DEF Task
    <3> QED
      BY <1>2, <3>2, <3>4, <3>5 DEF TasksOK, JobsCarry
  <2> QED
    BY <2>1, <2>2
<1> QED
  BY <1>1, <1>3 DEF TasksOK

\* The tasks stay while the jobs stay or grow.
LEMMA TasksStay ==
    ASSUME JobsInv, TasksOK, JobsCarry, budget' = budget, tasks' = tasks
    PROVE  TasksOK'
<1>1. JobShapes /\ Len(jobs) \in Nat /\ Len(jobs') \in Nat /\ Len(jobs) <= Len(jobs')
      /\ DOMAIN jobs = 1..Len(jobs) /\ DOMAIN jobs' = 1..Len(jobs')
  BY JobFields DEF JobsInv, JobsCarry
<1>2. ASSUME NEW u \in Tasks
      PROVE  /\ tasks[u].job <= Len(jobs')
             /\ Traced(tasks[u].answered)'
             /\ tasks[u].at = "polling" =>
                  /\ tasks[u].job \in DOMAIN jobs'
                  /\ jobs'[tasks[u].job].point = tasks[u].answered
  <2>1. PICK p : p = tasks[u].answered
    OBVIOUS
  <2>2. tasks[u] \in Task /\ p \in Seq(Metrics) /\ tasks[u].job \in Nat
    BY <2>1 DEF TasksOK, Task
  <2>3. Traced(p)
    BY <2>1 DEF TasksOK
  <2>4. Traced(tasks[u].answered)'
    BY <1>1, <2>1, <2>2, <2>3, TracedStays, TracedTask
  <2> QED
    BY <1>1, <2>2, <2>4 DEF TasksOK, JobsCarry
<1> QED
  BY <1>2 DEF TasksOK

LEMMA FirstMoves ==
    ASSUME tasks \in [Tasks -> Task], NEW t \in Tasks, NEW x \in Task, x.at # "unborn",
           tasks' = [tasks EXCEPT ![t] = x], cacheable' = cacheable,
           NEW a, a = x.answered,
           t = 1 /\ FirstSearch => /\ x.at \in {"asking", "polling"} => Dense(a)'
                                   /\ x.at = "asking" => Len(jobs') = Len(a)
                                   /\ x.at = "polling" => /\ Len(jobs') = Len(a) + 1
                                                          /\ x.job = Len(jobs')
    PROVE  FirstIsDense'
<1> SUFFICES ASSUME FirstSearch', 1 \in Tasks PROVE
        /\ tasks'[1].at # "unborn"
        /\ tasks'[1].at = "asking" =>
             Dense(tasks[1].answered)' /\ Len(jobs') = Len(tasks'[1].answered)
        /\ tasks'[1].at = "polling" =>
             /\ Dense(tasks[1].answered)' /\ Len(jobs') = Len(tasks'[1].answered) + 1
             /\ tasks'[1].job = Len(jobs')
  BY DEF FirstIsDense
<1>1. t = 1
  BY DEF FirstSearch, Tasks
<1>2. tasks'[1] = x /\ FirstSearch
  BY <1>1 DEF FirstSearch
<1>3. x.at \in {"asking", "polling"} => Dense(tasks[1].answered)'
  <2> SUFFICES ASSUME x.at \in {"asking", "polling"} PROVE Dense(tasks[1].answered)'
    OBVIOUS
  <2>1. Dense(a)'
    BY <1>1, <1>2
  <2>2. tasks'[1].answered = a
    BY <1>2
  <2> QED
    BY <2>1, <2>2 DEF Dense
<1> QED
  BY <1>1, <1>2, <1>3

-----------------------------------------------------------------------------
(* Every step keeps the trace *)

LEMMA TraceStarts == ASSUME SearchInit PROVE SearchTrace
<1>1. /\ jobs = <<>> /\ cacheable \in BOOLEAN /\ budget \in Budgets
      /\ searches = NoTask /\ stops = NoStop /\ ran = NoRun
      /\ tasks = [t \in Tasks |-> Fresh("unborn")]
  BY DEF SearchInit, JobsInit
<1>2. jobs \in Seq(SearchJob) /\ DOMAIN jobs = {} /\ Len(jobs) = 0
  BY <1>1
<1>3. JobsInv
  BY <1>1, <1>2 DEF JobsInv, JobShapes, Metered, NewestCounts, SameAnswer, RanksAreLengths
<1>4. TasksOK
  <2>1. tasks \in [Tasks -> Task]
    BY <1>1, FreshTask
  <2>2. ASSUME NEW t \in Tasks
        PROVE  tasks[t].at = "unborn" /\ tasks[t].answered = <<>> /\ tasks[t].job = 0
    BY <1>1, FreshTask
  <2>3. ASSUME NEW t \in Tasks PROVE Traced(tasks[t].answered)
    <3>1. tasks[t].answered = <<>>
      BY <2>2
    <3> QED
      BY <3>1, TracedEmpty, Zenon
  <2>4. budget \in Nat /\ Enough \in Nat /\ Len(<<>>) = 0
    BY <1>1
  <2> QED
    BY <1>2, <2>1, <2>2, <2>3, <2>4 DEF TasksOK
<1>5. FirstIsDense
  <2>1. \A t \in Tasks : tasks[t].at = "unborn"
    BY <1>1, FreshTask
  <2> QED
    BY <1>1, <2>1 DEF FirstIsDense
<1>6. Verdict
  BY <1>1 DEF Verdict
<1> QED
  BY <1>1, <1>3, <1>4, <1>5, <1>6 DEF SearchTrace

LEMMA SameJobs ==
    ASSUME JobsInv, jobs' = jobs, cacheable' = cacheable
    PROVE  JobsCarry /\ JobsInv'
<1>1. JobsCarry
  BY JobFields DEF JobsCarry, JobsInv, JobShapes
<1>2. JobShapes' /\ Metered' /\ NewestCounts' /\ SameAnswer'
  BY DEF JobsInv, JobShapes, Metered, NewestCounts, SameAnswer
<1>3. RanksAreLengths'
  BY <1>1, RanksStay
<1> QED
  BY <1>1, <1>2, <1>3 DEF JobsInv

\* The only task that can have begun in the first search is the first.
LEMMA FirstIsOne ==
    ASSUME SearchTrace, FirstSearch, NEW t \in Tasks, tasks[t].at \in {"asking", "polling"},
           NEW a, a = tasks[t].answered
    PROVE  /\ t = 1 /\ Dense(a)
           /\ tasks[t].at = "asking" => Len(jobs) = Len(a)
           /\ tasks[t].at = "polling" => Len(jobs) = Len(a) + 1 /\ tasks[t].job = Len(jobs)
<1>1. t = 1
  BY DEF FirstSearch, Tasks
<1>2. Dense(tasks[t].answered)
  BY <1>1 DEF SearchTrace, FirstIsDense
<1>3. Dense(a)
  BY <1>2, Zenon
<1> QED
  BY <1>1, <1>3 DEF SearchTrace, FirstIsDense

\* Whoever works has nothing concluded, and knows its own answers.
LEMMA AtWorkFacts ==
    ASSUME SearchTrace, NEW t \in Tasks, tasks[t].at \in {"asking", "polling"},
           NEW a, a = tasks[t].answered
    PROVE  /\ a \in Seq(Metrics) /\ Traced(a) /\ Len(a) \in Nat
           /\ Len(a) <= budget /\ Len(a) <= Enough /\ budget \in Nat /\ Enough \in Nat
           /\ tasks[t] \in Task /\ t \in AtWork /\ ran = NoRun
           /\ tasks[t].at = "polling" =>
                /\ Len(a) < budget /\ Len(a) < Enough
                /\ tasks[t].job \in DOMAIN jobs /\ jobs[tasks[t].job].point = a
<1>1. tasks[t] \in Task /\ a \in Seq(Metrics)
  BY DEF SearchTrace, TasksOK, Task
<1>2. Traced(a)
  BY DEF SearchTrace, TasksOK
<1>3. t \in AtWork /\ ran = NoRun
  BY DEF AtWork, SearchTrace, Verdict
<1> QED
  BY <1>1, <1>2, <1>3 DEF SearchTrace, TasksOK

LEMMA RunTraced ==
    ASSUME NEW p, ran'.answered = p, Traced(p)'
    PROVE  Traced(ran.answered)'
<1>1. \A n \in 1..Len(p) : \E j \in DOMAIN jobs' :
        jobs'[j].point = SubSeq(p, 1, n - 1) /\ jobs'[j].metric = p[n]
  BY DEF Traced
<1>2. \A n \in 1..Len(ran'.answered) : \E j \in DOMAIN jobs' :
        /\ jobs'[j].point = SubSeq(ran'.answered, 1, n - 1)
        /\ jobs'[j].metric = ran'.answered[n]
  <2> SUFFICES ASSUME NEW n \in 1..Len(ran'.answered)
               PROVE  \E j \in DOMAIN jobs' :
                        /\ jobs'[j].point = SubSeq(ran'.answered, 1, n - 1)
                        /\ jobs'[j].metric = ran'.answered[n]
    OBVIOUS
  <2>1. PICK j \in DOMAIN jobs' :
          jobs'[j].point = SubSeq(p, 1, n - 1) /\ jobs'[j].metric = p[n]
    BY <1>1
  <2> QED
    BY <2>1
<1> QED
  BY <1>2 DEF Traced

\* A search ends: why it did is what it leaves.
LEMMA Concluded ==
    ASSUME SearchInv, SearchTrace, NEW t \in Tasks, tasks[t].at \in {"asking", "polling"},
           NEW reason \in Reasons, NEW refused \in BOOLEAN, NEW last \in Nat,
           Conclude(t, reason, refused, last),
           UNCHANGED <<jobs, cacheable, budget, searches>>,
           NEW a, a = tasks[t].answered,
           \/ reason = "converged" /\ Len(a) >= Enough
           \/ reason = "budget" /\ Len(a) >= budget /\ Len(a) < Enough
           \/ /\ reason = "stalled" /\ Len(a) < Enough /\ Len(a) < budget
              /\ \/ last \in DOMAIN jobs /\ jobs[last].metric = NoMetric
                 \/ last = 0 /\ refused /\ CameToNothing(a),
           last = 0 => tasks[t].at = "asking"
    PROVE  SearchTrace'
<1>1. /\ a \in Seq(Metrics) /\ Traced(a) /\ Len(a) \in Nat /\ Len(a) <= budget /\ Len(a) <= Enough
  BY AtWorkFacts
<1>2. JobsCarry /\ JobsInv /\ JobsInv' /\ TasksOK
  BY SameJobs DEF SearchTrace
<1>3. TasksOK' /\ FirstIsDense'
  <2> DEFINE x == Fresh("ended")
  <2>1. x \in Task /\ x.at = "ended" /\ x.answered = <<>> /\ x.job = 0
    BY FreshTask
  <2>2. tasks' = [tasks EXCEPT ![t] = x]
    BY DEF Conclude
  <2> HIDE DEF x
  <2>3. budget \in Nat /\ Enough \in Nat /\ Len(jobs') \in Nat
    BY <1>2, JobFields DEF SearchTrace, JobsInv
  <2>4. TasksOK'
    <3>1. PICK e : e = <<>>
      OBVIOUS
    <3>2. Traced(e)' /\ Len(e) = 0 /\ e = x.answered
      BY <2>1, <3>1 DEF Traced
    <3>3. /\ Len(e) <= budget /\ Len(e) <= Enough /\ x.job <= Len(jobs') /\ budget' = budget
          /\ (x.at = "unborn" => e = <<>>) /\ x.at # "polling"
      BY <2>1, <2>3, <3>1, <3>2
    <3> QED
      BY <1>2, <2>1, <2>2, <3>2, <3>3, TaskMoves, Zenon
  <2>5. FirstIsDense'
    BY <1>2, <2>1, <2>2, FirstMoves DEF TasksOK
  <2> QED
    BY <2>4, <2>5
<1>4. AtWork' = {} /\ (FirstSearch' => FirstSearch)
  <2>1. \A u \in Tasks : u # t => ~Engaged(u)
    BY Alone DEF Engaged
  <2>2. /\ tasks' = [tasks EXCEPT ![t] = Fresh("ended")]
        /\ \A u \in Tasks : tasks'[u].at = IF u = t THEN "ended" ELSE tasks[u].at
    BY <1>2, FreshTask DEF Conclude, TasksOK
  <2> QED
    BY <2>1, <2>2 DEF AtWork, Engaged, FirstSearch
<1>5. /\ ran' = [answered |-> a, reason |-> reason, job |-> last]
      /\ stops' = [answered |-> Len(a), reason |-> reason, refused |-> refused]
  BY DEF Conclude
<1>6. ran' \in Run /\ stops' \in Stop
  BY <1>1, <1>5 DEF Run, Stop
<1>7. Traced(ran.answered)'
  <2>1. Traced(a)'
    BY <1>1, <1>2, TracedStays DEF JobsInv
  <2> QED
    BY <1>5, <2>1, RunTraced
<1>8. FirstSearch => /\ Dense(a) /\ (last = 0 => Len(jobs) = Len(a))
  BY FirstIsOne
<1>9. FirstSearch' => /\ Dense(ran.answered)' /\ (ran'.job = 0 => Len(jobs') = Len(ran'.answered))
  BY <1>4, <1>5, <1>8 DEF Dense
<1>10. Verdict'
  BY <1>1, <1>4, <1>5, <1>6, <1>7, <1>9 DEF Verdict, CameToNothing
<1> QED
  BY <1>2, <1>3, <1>6, <1>10 DEF SearchTrace

LEMMA AskKeeps ==
    ASSUME SearchInv, SearchTrace, NEW t \in Tasks, Ask(t)
    PROVE  SearchTrace'
<1> DEFINE a == tasks[t].answered
<1>1. /\ tasks[t].at = "asking" /\ UNCHANGED <<budget, searches, crashes, cacheable>>
  BY DEF Ask
<1>2. /\ a \in Seq(Metrics) /\ Traced(a) /\ Len(a) \in Nat /\ Len(a) <= budget /\ Len(a) <= Enough
      /\ budget \in Nat /\ Enough \in Nat /\ tasks[t] \in Task /\ ran = NoRun
  BY <1>1, AtWorkFacts
<1>3. JobsInv /\ TasksOK /\ JobShapes /\ NewestCounts
  BY DEF SearchTrace, JobsInv
<1>4. CASE Len(a) >= Enough
  <2>1. Conclude(t, "converged", FALSE, 0) /\ UNCHANGED jobs
    BY <1>4 DEF Ask
  <2> QED
    BY <1>1, <1>4, <2>1, Concluded DEF Reasons
<1>5. CASE ~(Len(a) >= Enough) /\ Len(a) >= budget
  <2>1. Conclude(t, "budget", FALSE, 0) /\ UNCHANGED jobs
    BY <1>5 DEF Ask
  <2>2. Len(a) < Enough
    BY <1>2, <1>5
  <2> QED
    BY <1>1, <1>5, <2>1, <2>2, Concluded DEF Reasons
<1>6. CASE /\ ~(Len(a) >= Enough) /\ ~(Len(a) >= budget)
           /\ Cached(a, 1) = 0 /\ Conclude(t, "stalled", TRUE, 0) /\ UNCHANGED jobs
  <2>1. CameToNothing(a)
    <3>1. PICK c : c = Cached(a, 1)
      OBVIOUS
    <3>2. c \notin DOMAIN jobs
      BY <1>3, <1>6, <3>1, JobFields
    <3> QED
      BY <1>3, <3>1, <3>2, CachedFacts DEF CameToNothing
  <2>2. Len(a) < Enough /\ Len(a) < budget
    BY <1>2, <1>6
  <2> QED
    BY <1>1, <1>6, <2>1, <2>2, Concluded DEF Reasons
<1>7. ASSUME ~(Len(a) >= Enough), ~(Len(a) >= budget), NEW j \in 1..(Len(jobs) + 1),
             Submitted(a, 1, Len(a), j),
             tasks' = [tasks EXCEPT ![t].at = "polling", ![t].job = j],
             UNCHANGED <<stops, ran>>
      PROVE  SearchTrace'
  <2> DEFINE x == [tasks[t] EXCEPT !.at = "polling", !.job = j]
  <2>1. x \in Task /\ x.at = "polling" /\ x.job = j /\ x.answered = a
    <3>1. j \in Nat
      BY <1>3, <1>7, JobFields
    <3> QED
      BY <1>2, <3>1 DEF Task
  <2>2. tasks' = [tasks EXCEPT ![t] = x]
    BY <1>3, <1>7 DEF TasksOK, Task
  <2>3. Len(a) < Enough /\ Len(a) < budget
    BY <1>2, <1>7
  <2>4. FirstSearch => t = 1 /\ Dense(a) /\ Len(jobs) = Len(a)
    BY <1>1, FirstIsOne
  <2>5. /\ JobsCarry /\ JobsInv' /\ j \in DOMAIN jobs' /\ jobs'[j].point = a
        /\ FirstSearch => /\ Dense(tasks[t].answered)' \/ Dense(a)
                          /\ Len(jobs') = Len(a) + 1 /\ j = Len(jobs')
                          /\ Len(a) <= Len(jobs')
                          /\ \A i \in DOMAIN jobs' : jobs'[i].rank = i - 1
                          /\ \A i \in 1..Len(a) : jobs'[i].metric = a[i]
    <3>1. PICK c : c = Cached(a, 1)
      OBVIOUS
    <3>2. CASE c # 0
      <4>1. j = c /\ jobs' = jobs
        BY <1>7, <3>1, <3>2 DEF Submitted
      <4>2. cacheable /\ c \in DOMAIN jobs /\ jobs[c].point = a
        BY <1>3, <3>1, <3>2, CachedFacts
      <4> QED
        BY <1>1, <1>3, <4>1, <4>2, SameJobs DEF FirstSearch
    <3>3. CASE c = 0
      <4>1. j = Len(jobs) + 1 /\ jobs' = Append(jobs, NewJob(a, 1, Len(a)))
        BY <1>7, <3>1, <3>3 DEF Submitted
      <4>2. /\ JobsCarry /\ JobsInv' /\ Len(jobs') = Len(jobs) + 1
            /\ \A k \in DOMAIN jobs : jobs'[k] = jobs[k]
            /\ jobs'[j].point = a /\ jobs'[j].rank = Len(a)
        BY <1>1, <1>2, <1>3, <3>1, <3>3, <4>1, NewJobKeeps
      <4>3. DOMAIN jobs = 1..Len(jobs) /\ DOMAIN jobs' = 1..Len(jobs') /\ Len(jobs) \in Nat
        BY <1>3, <4>2, JobFields DEF JobsCarry
      <4>4. FirstSearch => /\ Len(jobs') = Len(a) + 1 /\ j = Len(jobs')
                           /\ \A i \in DOMAIN jobs' : jobs'[i].rank = i - 1
                           /\ \A i \in 1..Len(a) : jobs'[i].metric = a[i]
        <5> SUFFICES ASSUME FirstSearch
                     PROVE  /\ Len(jobs') = Len(a) + 1 /\ j = Len(jobs')
                            /\ \A i \in DOMAIN jobs' : jobs'[i].rank = i - 1
                            /\ \A i \in 1..Len(a) : jobs'[i].metric = a[i]
          OBVIOUS
        <5>1. Len(jobs) = Len(a) /\ Dense(a)
          BY <2>4
        <5>2. \A i \in DOMAIN jobs' : i \in DOMAIN jobs \/ i = j
          BY <4>1, <4>2, <4>3
        <5>3. \A i \in DOMAIN jobs : jobs[i].rank = i - 1 /\ jobs[i].metric = a[i]
          BY <4>3, <5>1 DEF Dense
        <5> HIDE DEF a
        <5> QED
          BY <4>1, <4>2, <4>3, <5>1, <5>2, <5>3
      <4> QED
        BY <1>2, <2>4, <4>1, <4>2, <4>3, <4>4
    <3> QED
      BY <3>2, <3>3
  <2>6. PICK p : p = a
    OBVIOUS
  <2>7. FirstSearch => Dense(p)' /\ Len(jobs') = Len(p) + 1 /\ j = Len(jobs')
    BY <2>5, <2>6 DEF Dense
  <2>8. Traced(p)' /\ p = x.answered /\ Len(p) <= budget /\ Len(p) <= Enough
    BY <1>2, <1>3, <2>1, <2>5, <2>6, TracedStays
  <2>9. j <= Len(jobs')
    BY <2>5 DEF JobsCarry
  <2> HIDE DEF x
  <2>10. TasksOK'
    BY <1>1, <1>3, <2>1, <2>2, <2>3, <2>5, <2>6, <2>8, <2>9, TaskMoves
  <2>11. FirstIsDense'
    BY <1>1, <1>3, <2>1, <2>2, <2>7, <2>8, FirstMoves DEF TasksOK
  <2>12. Verdict'
    BY <1>2, <1>7 DEF Verdict
  <2> QED
    BY <1>1, <1>7, <2>5, <2>10, <2>11, <2>12 DEF SearchTrace
<1> QED
  BY <1>4, <1>5, <1>6, <1>7 DEF Ask

LEMMA StartKeeps ==
    ASSUME SearchInv, SearchTrace, NEW t \in Tasks, Start(t)
    PROVE  SearchTrace'
<1>1. /\ tasks[t].at = "unborn" /\ tasks' = [tasks EXCEPT ![t].at = "asking"]
      /\ \A u \in Tasks : u < t => tasks[u].at # "unborn"
      /\ searches' = t /\ stops' = NoStop /\ ran' = NoRun
      /\ budget' = budget /\ jobs' = jobs /\ cacheable' = cacheable
  BY DEF Start
<1>2. JobsInv /\ TasksOK /\ JobsCarry /\ JobsInv'
  BY <1>1, SameJobs DEF SearchTrace
<1> DEFINE x == [tasks[t] EXCEPT !.at = "asking"]
<1>3. /\ x \in Task /\ x.at = "asking" /\ x.answered = <<>> /\ x.job = tasks[t].job
      /\ tasks' = [tasks EXCEPT ![t] = x] /\ x.job <= Len(jobs')
  BY <1>1, <1>2 DEF TasksOK, Task
<1> HIDE DEF x
<1>4. PICK e : e = <<>>
  OBVIOUS
<1>5. Traced(e)' /\ Len(e) = 0 /\ budget \in Nat /\ Enough \in Nat
  BY <1>4 DEF Traced, SearchTrace
<1>6. Len(e) <= budget /\ Len(e) <= Enough /\ x.at # "polling" /\ (x.at = "unborn" => e = <<>>)
  BY <1>3, <1>4, <1>5
<1>7. TasksOK'
  BY <1>1, <1>2, <1>3, <1>4, <1>5, <1>6, TaskMoves, Zenon
<1>8. t = 1 /\ FirstSearch => Dense(e)' /\ Len(jobs') = Len(e)
  <2> SUFFICES ASSUME t = 1, FirstSearch PROVE Dense(e)' /\ Len(jobs') = Len(e)
    OBVIOUS
  <2>1. jobs' = <<>>
    BY <1>1 DEF SearchTrace, FirstIsDense
  <2> QED
    BY <1>4, <1>5, <2>1 DEF Dense
<1>9. FirstIsDense'
  <2>1. x.at # "unborn" /\ x.at # "polling" /\ e = x.answered /\ tasks \in [Tasks -> Task]
    BY <1>2, <1>3, <1>4 DEF TasksOK
  <2> QED
    BY <1>1, <1>3, <1>8, <2>1, FirstMoves, Zenon
<1>10. Verdict'
  BY <1>1 DEF Verdict
<1> QED
  BY <1>1, <1>2, <1>7, <1>9, <1>10 DEF SearchTrace

LEMMA ObserveKeeps ==
    ASSUME SearchInv, SearchTrace, NEW t \in Tasks, Observe(t)
    PROVE  SearchTrace'
<1> DEFINE j == tasks[t].job
<1>1. /\ tasks[t].at = "polling" /\ UNCHANGED <<budget, searches, crashes, jobs, cacheable>>
      /\ jobs[j].status \in Finished
  BY DEF Observe
<1>2. PICK a : a = tasks[t].answered
  OBVIOUS
<1>3. /\ a \in Seq(Metrics) /\ Traced(a) /\ Len(a) \in Nat /\ Len(a) < budget /\ Len(a) < Enough
      /\ budget \in Nat /\ Enough \in Nat /\ tasks[t] \in Task /\ ran = NoRun
      /\ j \in DOMAIN jobs /\ jobs[j].point = a
  BY <1>1, <1>2, AtWorkFacts
<1>4. JobsInv /\ TasksOK /\ JobShapes /\ JobsCarry /\ JobsInv'
  BY <1>1, SameJobs DEF SearchTrace, JobsInv
<1>5. j \in Nat /\ j # 0 /\ Answer(j) = jobs[j].metric
  BY <1>3, <1>4, JobFields DEF Answer
<1>6. CASE Answer(j) = NoMetric
  <2>1. Conclude(t, "stalled", FALSE, j)
    BY <1>6 DEF Observe
  <2> QED
    BY <1>1, <1>2, <1>3, <1>5, <1>6, <2>1, Concluded DEF Reasons
<1>7. CASE Answer(j) # NoMetric
  <2>1. PICK m \in Metrics : m = jobs[j].metric
    BY <1>3, <1>4, <1>5, <1>7, JobFields
  <2>2. PICK b : b = Append(a, m)
    OBVIOUS
  <2>3. b \in Seq(Metrics) /\ Traced(b) /\ Len(b) = Len(a) + 1
    BY <1>3, <2>1, <2>2, TracedGrows
  <2>4. Traced(b)'
    BY <1>4, <2>3, TracedStays
  <2> DEFINE x == [at |-> "asking", job |-> 0, answered |-> b]
  <2>5. tasks' = [tasks EXCEPT ![t] = x] /\ stops' = stops /\ ran' = ran
    BY <1>2, <1>5, <1>7, <2>1, <2>2 DEF Observe
  <2>6. x \in Task /\ x.at = "asking" /\ x.answered = b /\ x.job = 0
    BY <2>3 DEF Task
  <2> HIDE DEF x
  <2>7. /\ Len(b) <= budget /\ Len(b) <= Enough /\ x.job <= Len(jobs')
        /\ x.at # "unborn" /\ x.at # "polling"
    BY <1>1, <1>3, <1>4, <2>3, <2>6, JobFields
  <2>8. TasksOK'
    BY <1>1, <1>4, <2>4, <2>5, <2>6, <2>7, TaskMoves
  <2>9. t = 1 /\ FirstSearch => Dense(b)' /\ Len(jobs') = Len(b)
    <3> SUFFICES ASSUME FirstSearch PROVE Dense(b)' /\ Len(jobs') = Len(b)
      OBVIOUS
    <3>1. Dense(a) /\ Len(jobs) = Len(a) + 1 /\ j = Len(jobs)
      BY <1>1, <1>2, FirstIsOne
    <3>2. \A i \in 1..Len(b) : jobs[i].metric = b[i]
      BY <1>3, <2>1, <2>2, <2>3, <3>1 DEF Dense
    <3> QED
      BY <1>1, <2>3, <3>1, <3>2 DEF Dense
  <2>10. FirstIsDense'
    BY <1>1, <1>4, <2>5, <2>6, <2>7, <2>9, FirstMoves DEF TasksOK
  <2>11. Verdict'
    BY <1>3, <2>5 DEF Verdict
  <2> QED
    BY <1>1, <1>4, <2>5, <2>8, <2>10, <2>11 DEF SearchTrace
<1> QED
  BY <1>6, <1>7

\* A task is over, and nothing else has changed.
LEMMA EndsQuietly ==
    ASSUME SearchTrace, NEW t \in Tasks, NEW place \in {"ended", "gone"},
           tasks' = [tasks EXCEPT ![t] = Fresh(place)],
           searches' \in Tasks \cup {NoTask},
           UNCHANGED <<budget, stops, ran, jobs, cacheable>>
    PROVE  SearchTrace'
<1>1. JobsInv /\ TasksOK /\ JobShapes /\ JobsCarry /\ JobsInv'
  BY SameJobs DEF SearchTrace, JobsInv
<1> DEFINE x == Fresh(place)
<1>2. /\ x \in Task /\ x.at = place /\ x.answered = <<>> /\ x.job = 0
      /\ tasks' = [tasks EXCEPT ![t] = x]
  BY FreshTask
<1> HIDE DEF x
<1>3. budget \in Nat /\ Enough \in Nat /\ Len(jobs') \in Nat
  BY <1>1, JobFields DEF SearchTrace
<1>4. PICK e : e = <<>>
  OBVIOUS
<1>5. Traced(e)' /\ Len(e) = 0 /\ e = x.answered
  BY <1>2, <1>4 DEF Traced
<1>6. /\ Len(e) <= budget /\ Len(e) <= Enough /\ x.job <= Len(jobs') /\ budget' = budget
      /\ (x.at = "unborn" => e = <<>>) /\ x.at # "polling"
  BY <1>2, <1>3, <1>4, <1>5
<1>7. TasksOK'
  BY <1>1, <1>2, <1>5, <1>6, TaskMoves, Zenon
<1>8. FirstIsDense'
  BY <1>1, <1>2, FirstMoves DEF TasksOK
<1>9. AtWork' \subseteq AtWork /\ (FirstSearch' => FirstSearch)
  <2>1. \A u \in Tasks : tasks'[u].at = IF u = t THEN place ELSE tasks[u].at
    BY <1>1, <1>2 DEF TasksOK
  <2> QED
    BY <2>1 DEF AtWork, FirstSearch
<1>10. Verdict'
  <2> SUFFICES ASSUME ran # NoRun PROVE Verdict'
    BY DEF Verdict
  <2>1. PICK r \in Run : r = ran
    BY DEF SearchTrace, Verdict
  <2>2. Traced(ran.answered)'
    <3>1. PICK p : p = r.answered
      OBVIOUS
    <3>2. p \in Seq(Metrics) /\ p = ran.answered
      BY <2>1, <3>1 DEF Run
    <3>3. Traced(p)
      BY <3>2 DEF SearchTrace, Verdict
    <3> QED
      BY <1>1, <3>2, <3>3, TracedStays, RunTraced
  <2>3. FirstSearch' => /\ Dense(ran.answered)'
                        /\ ran'.job = 0 => Len(jobs') = Len(ran'.answered)
    BY <1>9 DEF SearchTrace, Verdict, Dense
  <2>4. CameToNothing(ran.answered) => CameToNothing(ran.answered)'
    BY DEF CameToNothing
  <2> QED
    BY <1>9, <2>2, <2>3, <2>4 DEF SearchTrace, Verdict
<1> QED
  BY <1>1, <1>7, <1>8, <1>10 DEF SearchTrace

\* The jobs change and the tasks stay, or begin no more: nothing is concluded.
LEMMA FirstStays ==
    ASSUME JobsInv, TasksOK, FirstIsDense, JobsCarry, Len(jobs') = Len(jobs),
           \A t \in Tasks : tasks'[t] = tasks[t] \/ /\ tasks'[t].at = "gone"
                                                    /\ tasks[t].at # "unborn"
    PROVE  FirstIsDense'
<1> SUFFICES ASSUME FirstSearch', 1 \in Tasks PROVE
        /\ tasks'[1].at = "unborn" => jobs' = <<>>
        /\ tasks'[1].at = "asking" =>
             Dense(tasks[1].answered)' /\ Len(jobs') = Len(tasks'[1].answered)
        /\ tasks'[1].at = "polling" =>
             /\ Dense(tasks[1].answered)' /\ Len(jobs') = Len(tasks'[1].answered) + 1
             /\ tasks'[1].job = Len(jobs')
  BY DEF FirstIsDense
<1>1. FirstSearch
  BY DEF FirstSearch, JobsCarry
<1>2. CASE tasks'[1].at = "gone" /\ tasks[1].at # "unborn"
  BY <1>2
<1>3. CASE tasks'[1] = tasks[1]
  <2>1. CASE tasks[1].at = "unborn"
    <3>1. jobs = <<>> /\ jobs' \in Seq(SearchJob) /\ Len(jobs') = 0
      BY <1>1, <2>1 DEF FirstIsDense, JobsCarry
    <3> QED
      BY <1>3, <2>1, <3>1
  <2>2. CASE tasks[1].at \in {"asking", "polling"}
    <3>1. PICK a : a = tasks[1].answered
      OBVIOUS
    <3>2. a \in Seq(Metrics)
      BY <3>1 DEF TasksOK, Task
    <3>3. Dense(tasks[1].answered)
      BY <1>1, <2>2 DEF FirstIsDense
    <3>4. Dense(a)
      BY <3>1, <3>3, Zenon
    <3>5. /\ Len(jobs) \in Nat /\ DOMAIN jobs = 1..Len(jobs) /\ DOMAIN jobs' = 1..Len(jobs')
      BY JobFields DEF JobsInv, JobsCarry
    <3>6. \A i \in DOMAIN jobs' : jobs'[i].rank = i - 1
      BY <3>4, <3>5 DEF Dense, JobsCarry
    <3>7. \A i \in 1..Len(a) : jobs'[i].metric = a[i]
      <4> SUFFICES ASSUME NEW i \in 1..Len(a) PROVE jobs'[i].metric = a[i]
        OBVIOUS
      <4>1. i \in DOMAIN jobs /\ jobs[i].metric = a[i] /\ a[i] \in Metrics
        BY <3>2, <3>4, <3>5 DEF Dense
      <4> QED
        BY <4>1 DEF JobsCarry
    <3>8. Dense(tasks[1].answered)'
      BY <1>3, <3>1, <3>4, <3>6, <3>7 DEF Dense
    <3> QED
      BY <1>1, <1>3, <2>2, <3>8 DEF FirstIsDense
  <2> QED
    BY <1>3, <2>1, <2>2
<1> QED
  BY <1>2, <1>3

LEMMA EventKeeps ==
    ASSUME SearchTrace, NEW i \in DOMAIN jobs,
           OfTheJobs(JobEnds(i) \/ JobBreaks(i) \/ PurgeJob(i))
    PROVE  SearchTrace'
<1>1. JobEnds(i) \/ JobBreaks(i) \/ PurgeJob(i)
  BY DEF OfTheJobs
<1>2. ran' = NoRun /\ UNCHANGED <<budget, searches, stops, tasks, crashes>>
  BY DEF OfTheJobs
<1>3. JobsInv /\ TasksOK /\ FirstIsDense
  BY DEF SearchTrace
<1>4. JobsCarry /\ Len(jobs') = Len(jobs) /\ JobsInv'
  BY <1>1, <1>3, JobsEvents
<1>5. TasksOK'
  BY <1>2, <1>3, <1>4, TasksStay
<1>6. FirstIsDense'
  BY <1>2, <1>3, <1>4, FirstStays
<1>7. Verdict'
  BY <1>2 DEF Verdict
<1> QED
  BY <1>2, <1>4, <1>5, <1>6, <1>7 DEF SearchTrace

LEMMA ElsewhereKeeps ==
    ASSUME SearchTrace, SubmitElsewhere
    PROVE  SearchTrace'
<1>1. /\ cacheable /\ cacheable' = cacheable /\ ran' = NoRun
      /\ UNCHANGED <<budget, searches, stops, tasks>>
  BY DEF SubmitElsewhere
<1>2. JobsInv /\ TasksOK /\ JobShapes /\ NewestCounts /\ budget \in Nat
  BY DEF SearchTrace, JobsInv
<1>3. PICK p : p = Replayed
  OBVIOUS
<1>4. p \in Seq(Metrics)
  BY <1>2, <1>3, ReplayUnfolds DEF Replayed
<1>5. /\ Cached(p, 1) = 0 /\ jobs' = Append(jobs, NewJob(p, 1, NoRank))
  BY <1>3 DEF SubmitElsewhere, Submitted
<1>6. JobsCarry /\ JobsInv'
  BY <1>1, <1>2, <1>4, <1>5, NewJobKeeps
<1>7. TasksOK'
  BY <1>1, <1>2, <1>6, TasksStay
<1>8. FirstIsDense' /\ Verdict'
  BY <1>1 DEF FirstIsDense, FirstSearch, Verdict
<1> QED
  BY <1>1, <1>6, <1>7, <1>8 DEF SearchTrace

LEMMA CrashKeeps ==
    ASSUME SearchTrace, SearchCrash
    PROVE  SearchTrace'
<1>1. /\ searches' = NoTask /\ stops' = NoStop /\ ran' = NoRun /\ JobsReconciled
      /\ UNCHANGED <<budget, cacheable>>
      /\ tasks' = [t \in Tasks |->
                     IF tasks[t].at = "unborn" THEN tasks[t] ELSE Fresh("gone")]
  BY DEF SearchCrash
<1>2. JobsInv /\ TasksOK /\ FirstIsDense
  BY DEF SearchTrace
<1>3. JobsCarry /\ Len(jobs') = Len(jobs) /\ JobsInv'
  BY <1>1, <1>2, ReconciledJobs
<1>4. ASSUME NEW t \in Tasks
      PROVE  /\ tasks'[t] \in Task
             /\ \/ tasks'[t] = tasks[t] /\ tasks[t].at = "unborn"
                \/ tasks'[t].at = "gone" /\ tasks[t].at # "unborn"
             /\ tasks'[t].answered = <<>> /\ tasks'[t].job <= Len(jobs')
  <2>1. tasks[t] \in Task /\ Len(jobs) \in Nat
    BY <1>2, JobFields DEF TasksOK, JobsInv
  <2>2. CASE tasks[t].at = "unborn"
    <3>1. tasks'[t] = tasks[t]
      BY <1>1, <2>2
    <3> QED
      BY <1>2, <1>3, <2>1, <2>2, <3>1 DEF TasksOK
  <2>3. CASE tasks[t].at # "unborn"
    <3>1. tasks'[t] = Fresh("gone")
      BY <1>1, <2>3
    <3>2. /\ Fresh("gone") \in Task /\ Fresh("gone").at = "gone"
          /\ Fresh("gone").answered = <<>> /\ Fresh("gone").job = 0
      BY FreshTask
    <3> QED
      BY <1>3, <2>1, <2>3, <3>1, <3>2
  <2> QED
    BY <2>2, <2>3
<1>5. tasks' \in [Tasks -> Task] /\ budget \in Nat /\ Enough \in Nat
  BY <1>1, <1>4 DEF SearchTrace
<1>6. ASSUME NEW t \in Tasks PROVE Traced(tasks[t].answered)'
  BY <1>4 DEF Traced
<1>7. ASSUME NEW t \in Tasks
      PROVE  /\ Len(tasks'[t].answered) <= budget /\ Len(tasks'[t].answered) <= Enough
             /\ tasks'[t].at # "polling"
  <2>1. Len(tasks'[t].answered) = 0
    BY <1>4
  <2> QED
    BY <1>4, <1>5, <2>1
<1>8. TasksOK'
  BY <1>1, <1>4, <1>5, <1>6, <1>7 DEF TasksOK
<1>9. FirstIsDense'
  BY <1>2, <1>3, <1>4, FirstStays
<1>10. Verdict'
  BY <1>1 DEF Verdict
<1> QED
  BY <1>1, <1>3, <1>8, <1>9, <1>10 DEF SearchTrace

LEMMA StutterKeeps ==
    ASSUME SearchTrace, UNCHANGED searchVars
    PROVE  SearchTrace'
<1>1. UNCHANGED <<budget, searches, stops, tasks, ran, jobs, cacheable>>
  BY DEF searchVars
<1>2. JobsInv /\ TasksOK /\ JobsCarry /\ JobsInv'
  BY <1>1, SameJobs DEF SearchTrace
<1>3. TasksOK' 
  BY <1>1, <1>2, TasksStay
<1>4. FirstIsDense'
  BY <1>1, <1>2, FirstStays DEF SearchTrace
<1>5. Verdict'
  BY <1>1 DEF SearchTrace, Verdict, AtWork, Traced, CameToNothing, FirstSearch, Dense
<1> QED
  BY <1>1, <1>2, <1>3, <1>4, <1>5 DEF SearchTrace

LEMMA TraceKeeps ==
    ASSUME SearchInv, SearchTrace, [SearchNext]_searchVars
    PROVE  SearchTrace'
<1>1. ASSUME NEW t \in Tasks, ObservePurged(t) \/ SearchFinished(t) PROVE SearchTrace'
  <2>1. /\ \E place \in {"ended", "gone"} : tasks' = [tasks EXCEPT ![t] = Fresh(place)]
        /\ searches' \in Tasks \cup {NoTask}
        /\ UNCHANGED <<budget, stops, ran, jobs, cacheable>>
    BY <1>1 DEF ObservePurged, SearchFinished, SearchTrace
  <2> QED
    BY <2>1, EndsQuietly
<1>2. ASSUME NEW t \in Tasks, SearchStep(t) PROVE SearchTrace'
  BY <1>1, <1>2, AskKeeps, ObserveKeeps DEF SearchStep
<1> QED
  BY <1>2, StartKeeps, EventKeeps, ElsewhereKeeps, CrashKeeps, StutterKeeps DEF SearchNext

\* A job that answered at p is the one a replay looks up there.
LEMMA FoundByAddress ==
    ASSUME JobsInv, cacheable, \A i \in DOMAIN jobs : jobs[i].status # "purged",
           NEW p, NEW r, NEW j \in DOMAIN jobs, jobs[j].point = p, jobs[j].metric # NoMetric
    PROVE  JobOf(p, 1, r) = j
<1>1. JobShapes /\ NewestCounts
  BY DEF JobsInv
<1>2. jobs[j].status \notin {"failed", "purged"}
  BY DEF JobsInv, Metered
<1>3. PICK c : c = Cached(p, 1)
  OBVIOUS
<1>4. c = j /\ c # 0
  BY <1>1, <1>2, <1>3, CachedFacts, JobFields
<1> QED
  BY <1>3, <1>4 DEF JobOf

\* Without a content address the search finds its jobs by the index they record.
LEMMA FoundByInput ==
    ASSUME JobsInv, ~cacheable, \A i \in DOMAIN jobs : jobs[i].status # "purged",
           NEW a, Dense(a), NEW p, NEW r \in Nat, r <= Len(jobs)
    PROVE  /\ r = Len(jobs) => JobOf(p, 1, r) = 0
           /\ r # Len(jobs) => JobOf(p, 1, r) = r + 1
<1>1. PICK n \in Nat : n = Len(jobs) /\ DOMAIN jobs = 1..n
  BY JobFields DEF JobsInv
<1>2. PICK b : b = ByInput(r)
  OBVIOUS
<1>3. JobOf(p, 1, r) = b
  BY <1>2 DEF JobOf, Cached
<1>4. /\ b # 0 => b \in DOMAIN jobs /\ jobs[b].rank = r
      /\ b = 0 => \A k \in DOMAIN jobs : jobs[k].rank # r
  <2>1. JobShapes
    BY DEF JobsInv
  <2> QED
    BY <1>1, <1>2, <2>1, ByInputFacts
<1>5. \A k \in 1..n : jobs[k].rank = k - 1
  BY <1>1 DEF Dense
<1>6. b # 0 => b \in 1..n /\ b - 1 = r
  BY <1>1, <1>4, <1>5
<1>7. b # 0 => b = r + 1 /\ r # n
  BY <1>6
<1>8. b = 0 => r = n
  <2> SUFFICES ASSUME b = 0, r # n PROVE FALSE
    OBVIOUS
  <2>1. r <= n
    BY <1>1
  <2>2. r + 1 \in 1..n /\ (r + 1) - 1 = r
    BY <2>1
  <2>3. jobs[r + 1].rank = r
    BY <1>5, <2>2
  <2> QED
    BY <1>1, <1>4, <2>2, <2>3
<1> QED
  BY <1>1, <1>3, <1>7, <1>8

\* What the search was told at a point of its way is what the replay finds there.
LEMMA SameAnswersOnTheWay ==
    ASSUME SearchTrace, ran # NoRun, SameEvidence, NEW a, a = ran.answered,
           NEW k \in 0..Len(a), k # Len(a)
    PROVE  Answer(JobOf(SubSeq(a, 1, k), 1, k)) = a[k + 1]
<1>1. /\ a \in Seq(Metrics) /\ Traced(a) /\ JobsInv /\ JobShapes
      /\ \A i \in DOMAIN jobs : jobs[i].status # "purged"
  BY DEF SearchTrace, Verdict, Run, SameEvidence, JobsInv
<1>2. k + 1 \in 1..Len(a) /\ (k + 1) - 1 = k /\ a[k + 1] \in Metrics /\ a[k + 1] # NoMetric
  BY <1>1
<1>3. CASE cacheable
  <2>1. PICK j \in DOMAIN jobs : jobs[j].point = SubSeq(a, 1, k) /\ jobs[j].metric = a[k + 1]
    BY <1>1, <1>2 DEF Traced
  <2>2. JobOf(SubSeq(a, 1, k), 1, k) = j
    BY <1>1, <1>2, <1>3, <2>1, FoundByAddress
  <2> QED
    BY <1>1, <2>1, <2>2, JobFields DEF Answer
<1>4. CASE ~cacheable
  <2>1. Dense(ran.answered)
    BY <1>4 DEF SearchTrace, Verdict, SameEvidence, FirstSearch
  <2>2. /\ Len(a) <= Len(jobs) /\ \A i \in DOMAIN jobs : jobs[i].rank = i - 1
        /\ \A i \in 1..Len(a) : jobs[i].metric = a[i]
    BY <2>1 DEF Dense
  <2>3. k \in Nat /\ k < Len(jobs) /\ k + 1 # 0
    BY <1>1, <2>2, JobFields
  <2>4. JobOf(SubSeq(a, 1, k), 1, k) = k + 1
    <3>1. Dense(a)
      BY <2>1, Zenon
    <3>2. PICK n \in Nat : n = Len(jobs)
      BY <1>1, JobFields
    <3>3. k <= n /\ k # n
      BY <2>3, <3>2
    <3> QED
      BY <1>1, <1>4, <2>3, <3>1, <3>2, <3>3, FoundByInput
  <2> QED
    BY <1>2, <2>2, <2>3, <2>4 DEF Answer
<1> QED
  BY <1>3, <1>4

\* What the search stopped for is what the replay finds at the end of its way.
LEMMA SameEnd ==
    ASSUME SearchTrace, ran # NoRun, SameEvidence, NEW a, a = ran.answered,
           Len(a) < Enough, Len(a) < budget, NEW e, e = JobOf(a, 1, Len(a))
    PROVE  /\ ran.reason = "stalled" /\ Answer(e) = NoMetric
           /\ e = 0 => stops # NoStop /\ stops.answered = Len(a) /\ stops.refused
                       /\ stops.reason = "stalled"
<1>1. /\ a \in Seq(Metrics) /\ Traced(a) /\ JobsInv /\ JobShapes /\ Len(a) \in Nat
      /\ \A i \in DOMAIN jobs : jobs[i].status # "purged"
      /\ budget \in Nat /\ Enough \in Nat /\ stops \in Stop /\ stops # NoStop
  BY DEF SearchTrace, Verdict, Run, SameEvidence, JobsInv
<1>2. /\ ran.reason = "stalled" /\ stops.answered = Len(a) /\ stops.reason = "stalled"
      /\ \/ ran.job \in DOMAIN jobs /\ jobs[ran.job].metric = NoMetric
         \/ ran.job = 0 /\ stops.refused /\ CameToNothing(a)
  BY <1>1 DEF SearchTrace, Verdict
<1>3. CASE ran.job \in DOMAIN jobs /\ jobs[ran.job].metric = NoMetric
  <2>1. e = ran.job /\ e # 0
    BY <1>1, <1>3, JobFields DEF SameEvidence
  <2> QED
    BY <1>2, <1>3, <2>1 DEF Answer
<1>4. CASE ran.job = 0 /\ stops.refused /\ CameToNothing(a)
  <2>1. CASE cacheable
    <3>1. PICK c : c = Cached(a, 1)
      OBVIOUS
    <3>2. PICK b : b = ByInput(Len(a))
      OBVIOUS
    <3>3. e = IF c # 0 THEN c ELSE b
      BY <3>1, <3>2 DEF JobOf
    <3>4. ASSUME NEW k \in DOMAIN jobs, jobs[k].point = a PROVE jobs[k].metric = NoMetric
      <4>1. jobs[k].status = "failed"
        BY <1>1, <1>4, <2>1, <3>4 DEF CameToNothing
      <4> QED
        BY <1>1, <4>1 DEF JobsInv, Metered
    <3>5. c # 0 => c \in DOMAIN jobs /\ jobs[c].point = a
      <4>1. NewestCounts /\ JobShapes
        BY <1>1 DEF JobsInv
      <4>2. \/ /\ c = 0
               /\ cacheable => \A k \in DOMAIN jobs :
                    jobs[k].point = a => jobs[k].status \in {"failed", "purged"}
            \/ /\ cacheable /\ c \in DOMAIN jobs /\ jobs[c].point = a
               /\ \A k \in DOMAIN jobs :
                    jobs[k].point = a /\ jobs[k].status \notin {"failed", "purged"} => k = c
        BY <3>1, <4>1, CachedFacts
      <4> QED
        BY <4>2, Zenon
    <3>6. b # 0 => b \in DOMAIN jobs /\ jobs[b].point = a
      <4> HAVE b # 0
      <4>1. b \in DOMAIN jobs /\ jobs[b].rank = Len(a)
        BY <1>1, <3>2, ByInputFacts
      <4>2. PICK q : q = jobs[b].point
        OBVIOUS
      <4>3. q \in Seq(Metrics) /\ Len(q) = Len(a)
        BY <1>1, <4>1, <4>2, JobFields DEF JobsInv, RanksAreLengths
      <4>4. Traced(jobs[b].point)
        BY <1>1, <4>1 DEF JobsInv, RanksAreLengths
      <4>5. Traced(q)
        BY <4>2, <4>4, Zenon
      <4>6. q = a
        BY <1>1, <2>1, <4>3, <4>5, TracedIsOne DEF JobsInv
      <4> QED
        BY <4>1, <4>2, <4>6
    <3>7. Answer(e) = NoMetric
      BY <3>3, <3>4, <3>5, <3>6 DEF Answer
    <3> QED
      BY <1>1, <1>2, <1>4, <3>7
  <2>2. CASE ~cacheable
    <3>1. FirstSearch
      BY <2>2 DEF SameEvidence, FirstSearch
    <3>2. Dense(ran.answered) /\ Len(jobs) = Len(ran.answered)
      BY <1>4, <3>1 DEF SearchTrace, Verdict
    <3>3. Dense(a) /\ Len(a) <= Len(jobs)
      BY <1>1, <3>2
    <3>4. e = 0
      BY <1>1, <2>2, <3>2, <3>3, FoundByInput
    <3> QED
      BY <1>1, <1>2, <1>4, <3>4 DEF Answer
  <2> QED
    BY <2>1, <2>2
<1> QED
  BY <1>2, <1>3, <1>4

LEMMA TraceTellsTheRun == ASSUME SearchTrace PROVE ReplayTellsTheRun
<1> SUFFICES ASSUME ran # NoRun, SameEvidence
             PROVE  Replayed = ran.answered /\ Reported = ran.reason
  BY DEF ReplayTellsTheRun
<1>1. PICK a : a = ran.answered
  OBVIOUS
<1>2. /\ a \in Seq(Metrics) /\ JobShapes /\ NewestCounts /\ Len(a) \in Nat
      /\ budget \in Nat /\ Enough \in Nat /\ Len(a) <= budget /\ Len(a) <= Enough
  <2>1. a \in Seq(Metrics) /\ Len(a) <= budget /\ Len(a) <= Enough
    BY <1>1 DEF SearchTrace, Verdict, Run
  <2>2. Len(a) \in Nat
    BY <2>1
  <2>3. budget \in Nat /\ Enough \in Nat
    BY SearchAssumption DEF SearchTrace
  <2> QED
    BY <2>1, <2>2, <2>3 DEF SearchTrace, JobsInv
<1>3. \A k \in 0..Len(a) : k # Len(a) => Answer(JobOf(SubSeq(a, 1, k), 1, k)) = a[k + 1]
  BY <1>1, SameAnswersOnTheWay
<1>4. PICK e : e = JobOf(a, 1, Len(a))
  OBVIOUS
<1>5. Len(a) < budget /\ Len(a) < Enough =>
        /\ ran.reason = "stalled" /\ Answer(e) = NoMetric
        /\ e = 0 => stops # NoStop /\ stops.answered = Len(a) /\ stops.refused
                    /\ stops.reason = "stalled"
  BY <1>1, <1>4, SameEnd
<1>6. Replayed = a
  BY <1>2, <1>3, <1>4, <1>5, ReplayIs
<1>7. Reported = ran.reason
  <2>1. /\ Len(a) >= Enough => ran.reason = "converged"
        /\ Len(a) >= budget /\ ~(Len(a) >= Enough) => ran.reason = "budget"
    BY <1>1, <1>2 DEF SearchTrace, Verdict
  <2>2. Reported = IF Len(a) >= Enough THEN "converged"
                   ELSE IF Len(a) >= budget THEN "budget"
                   ELSE IF e # 0 THEN "stalled"
                   ELSE IF Len(a) = 0 /\ ~((stops # NoStop /\ stops.answered = Len(a)) /\ stops.refused)
                        THEN "not_run"
                   ELSE IF stops # NoStop /\ stops.answered = Len(a) THEN stops.reason
                   ELSE "incomplete"
    BY <1>4, <1>6 DEF Reported
  <2> QED
    BY <1>2, <1>5, <2>1, <2>2
<1> QED
  BY <1>1, <1>6, <1>7

LEMMA TraceIsTyped == ASSUME SearchTrace PROVE SearchTypeOK
<1>1. JobShapes /\ TasksOK
  BY DEF SearchTrace, JobsInv
<1>2. Seq(Metrics) \subseteq Seq(STRING)
  <2> SUFFICES ASSUME NEW s \in Seq(Metrics) PROVE s \in Seq(STRING)
    OBVIOUS
  <2>1. Metrics \subseteq STRING
    OBVIOUS
  <2>2. /\ Len(s) \in Nat /\ s \in [1..Len(s) -> Metrics]
    OBVIOUS
  <2>3. s \in [1..Len(s) -> STRING]
    BY <2>1, <2>2
  <2> QED
    BY <2>2, <2>3
<1>3. SearchJob \subseteq Job
  BY <1>2 DEF SearchJob, Job
<1>4. JobsOK
  BY <1>1, <1>3 DEF JobsOK, JobShapes
<1>5. Len(jobs) \in Nat /\ DOMAIN jobs = 1..Len(jobs)
  BY <1>1, JobFields
<1>6. ASSUME NEW t \in Tasks
      PROVE  /\ tasks[t].at \in {"unborn", "asking", "polling", "ended", "gone"}
             /\ tasks[t].answered \in Seq(Metrics) /\ Len(tasks[t].answered) <= budget
             /\ tasks[t].job \in 0..Len(jobs)
             /\ tasks[t].at = "polling" => tasks[t].job # 0
  <2>1. tasks[t] \in Task
    BY <1>1 DEF TasksOK
  <2> QED
    BY <1>1, <1>5, <2>1 DEF TasksOK, Task
<1> QED
  BY <1>4, <1>6 DEF SearchTypeOK, SearchTrace

\* One search at a time; and a report, which replays the method over the jobs,
\* gives the answers that the last search got, in their order, and the reason for
\* which it ended, whether the jobs are found by content address or by the index
\* they record, as long as none was purged (core/optimize.py: replay;
\* core/service.py: run_optimization, _search, get_optimization).
THEOREM SearchSound == SearchSpec => []SearchIsSound
<1>1. SearchInit => SearchInv /\ SearchTrace
  BY FreshAt, TraceStarts
     DEF SearchInit, SearchInv, Engaged, StopIsCurrent, AtWork
<1>2. SearchInv /\ SearchTrace /\ [SearchNext]_searchVars => (SearchInv /\ SearchTrace)'
  BY SearchKeeps, TraceKeeps
<1>3. SearchInv /\ SearchTrace => SearchIsSound
  BY OneAtATime, TraceTellsTheRun, TraceIsTyped DEF SearchIsSound, SearchesAreCurrent
<1> QED
  BY <1>1, <1>2, <1>3, PTL DEF SearchSpec

-----------------------------------------------------------------------------
(* Studies *)

HIDE VariationsAssumption
USE StudyAssumption

LEMMA PointsDiffer ==
    ASSUME NEW i \in Nat, NEW k \in Nat, Point(i) = Point(k)
    PROVE  i = k
<1>1. 1..i = 1..k
  <2>1. DOMAIN Point(i) = 1..i /\ DOMAIN Point(k) = 1..k
    BY DEF Point
  <2> QED
    BY <2>1
<1> QED
  BY <1>1

\* The jobs of a study: a rung each, and no job of these breaks.
RungJob == [point : {Point(i) : i \in 1..Rungs}, design : Nat, rank : 1..Rungs,
            status : Finished \cup {"running", "purged"}, metric : Metrics \cup {NoMetric}]

\* Jobs k and l answer the same variation of the same design.
Alike(k, l) == jobs[k].rank = jobs[l].rank /\ jobs[k].design = jobs[l].design

\* A run's answer r names, for variation i, the newest of the jobs that solve it.
Names(r) ==
    /\ Len(r.named) <= Rungs
    /\ \A i \in DOMAIN r.named : r.named[i] # 0 =>
         /\ r.named[i] \in DOMAIN jobs
         /\ jobs[r.named[i]].rank = i /\ jobs[r.named[i]].design = r.design
         /\ \A k \in DOMAIN jobs : k > r.named[i] => ~Alike(k, r.named[i])

\* Every job there is, is one that r names.
NamesAll(r) ==
    \A k \in DOMAIN jobs :
        jobs[k].rank \in DOMAIN r.named /\ r.named[jobs[k].rank] = k

Receipts == [at : {"idle", "submitting"}, design : Nat, named : Seq(Nat)]

StudyTypes ==
    /\ jobs \in Seq(RungJob) /\ cacheable \in BOOLEAN
    /\ head \in Nat \ {0} /\ studyRuns \in Nat
    /\ submitting \in Receipts
    /\ receipt # NoReceipt => receipt \in Receipts /\ Len(receipt.named) = Rungs

JobsAreRungs ==
    \A k \in DOMAIN jobs : jobs[k].point = Point(jobs[k].rank)

\* Of the jobs that answer one variation, all but the newest came to nothing.
OnlyNewestAnswers ==
    cacheable => \A k, l \in DOMAIN jobs :
        k < l /\ Alike(k, l) => jobs[k].status \in {"failed", "purged"}

OneDesign ==
    pinned \/ head = 1 =>
        /\ submitting.design = 1
        /\ receipt # NoReceipt => receipt.design = 1
        /\ \A k \in DOMAIN jobs : jobs[k].design = 1

LatestNames ==
    IF submitting.at = "submitting" THEN Names(submitting)
    ELSE receipt # NoReceipt => Names(receipt)

\* Without a content address every submission makes a job.
LatestNamesAll ==
    /\ studyRuns = 0 => jobs = <<>> /\ receipt = NoReceipt /\ submitting.at = "idle"
    /\ ~cacheable /\ studyRuns = 1 =>
         IF submitting.at = "submitting" THEN NamesAll(submitting)
         ELSE receipt # NoReceipt => NamesAll(receipt)

StudyInv ==
    /\ StudyTypes /\ JobsAreRungs /\ OnlyNewestAnswers /\ OneDesign
    /\ LatestNames /\ LatestNamesAll

\* What a job is after an end, a purge, or a submission of another.
JobsGoOn ==
    /\ jobs' \in Seq(RungJob) /\ Len(jobs) <= Len(jobs')
    /\ \A k \in DOMAIN jobs :
         /\ jobs'[k].rank = jobs[k].rank /\ jobs'[k].design = jobs[k].design
         /\ jobs'[k].point = jobs[k].point
         /\ jobs[k].status \in {"failed", "purged"} => jobs'[k].status \in {"failed", "purged"}

LEMMA StudyInitially == StudyInit => StudyInv
<1> SUFFICES ASSUME StudyInit PROVE StudyInv
  OBVIOUS
<1>1. jobs = <<>> /\ DOMAIN jobs = {} /\ Quiet \in Receipts
  BY DEF StudyInit, JobsInit, Quiet, Receipts
<1>2. StudyTypes
  BY <1>1 DEF StudyInit, JobsInit, StudyTypes
<1> QED
  BY <1>1, <1>2
     DEF StudyInit, StudyInv, JobsAreRungs, OnlyNewestAnswers, OneDesign, LatestNames,
         LatestNamesAll, NamesAll, Quiet

LEMMA JobsMove ==
    ASSUME StudyTypes, NEW i \in DOMAIN jobs, JobEnds(i) \/ PurgeJob(i)
    PROVE  JobsGoOn /\ Len(jobs') = Len(jobs) /\ cacheable' = cacheable
<1>1. jobs \in Seq(RungJob) /\ DOMAIN jobs = 1..Len(jobs)
  BY DEF StudyTypes
<1>2. PICK x \in RungJob :
        /\ jobs' = [jobs EXCEPT ![i] = x]
        /\ x.rank = jobs[i].rank /\ x.design = jobs[i].design /\ x.point = jobs[i].point
        /\ jobs[i].status \in {"failed", "purged"} => x.status \in {"failed", "purged"}
  <2>1. jobs[i] \in RungJob
    BY <1>1
  <2>2. CASE JobEnds(i)
    <3>1. PICK s \in Finished, m \in Metrics \cup {NoMetric} :
            jobs' = [jobs EXCEPT ![i].status = s, ![i].metric = m]
      BY <2>2 DEF JobEnds
    <3> DEFINE x == [jobs[i] EXCEPT !.status = s, !.metric = m]
    <3>2. x \in RungJob /\ x.status = s
          /\ x.rank = jobs[i].rank /\ x.design = jobs[i].design /\ x.point = jobs[i].point
      BY <2>1 DEF RungJob, Finished
    <3>3. jobs' = [jobs EXCEPT ![i] = x]
      BY <3>1, <1>1
    <3>4. jobs[i].status = "running"
      BY <2>2 DEF JobEnds, Finished
    <3> QED
      BY <3>2, <3>3, <3>4
  <2>3. CASE PurgeJob(i)
    <3> DEFINE x == [jobs[i] EXCEPT !.status = "purged"]
    <3>1. x \in RungJob /\ x.status = "purged"
          /\ x.rank = jobs[i].rank /\ x.design = jobs[i].design /\ x.point = jobs[i].point
      BY <2>1 DEF RungJob, Finished
    <3>2. jobs' = [jobs EXCEPT ![i] = x]
      BY <2>3 DEF PurgeJob
    <3> QED
      BY <3>1, <3>2
  <2> QED
    BY <2>2, <2>3
<1>3. jobs' \in Seq(RungJob) /\ Len(jobs') = Len(jobs)
  BY <1>1, <1>2
<1>4. \A k \in DOMAIN jobs : jobs'[k] = IF k = i THEN x ELSE jobs[k]
  BY <1>1, <1>2
<1>5. cacheable' = cacheable
  BY DEF JobEnds, PurgeJob
<1> QED
  BY <1>1, <1>2, <1>3, <1>4, <1>5 DEF JobsGoOn

\* What find_cached answers: nothing, when no job of this variation can be used,
\* or the newest of all that solve it.
LEMMA CachedIsNewest ==
    ASSUME StudyInv, cacheable, NEW i \in 1..Rungs, NEW d \in Nat,
           NEW c, c = Cached(Point(i), d)
    PROVE  \/ /\ c = 0
              /\ \A k \in DOMAIN jobs : jobs[k].rank = i /\ jobs[k].design = d =>
                   jobs[k].status \in {"failed", "purged"}
           \/ /\ c \in DOMAIN jobs /\ jobs[c].rank = i /\ jobs[c].design = d
              /\ jobs[c].status \notin {"failed", "purged"}
              /\ \A k \in DOMAIN jobs : k > c => ~Alike(k, c)
<1> DEFINE T == {k \in DOMAIN jobs :
                   /\ jobs[k].point = Point(i) /\ jobs[k].design = d
                   /\ jobs[k].status \in Reusable \cup {"broken"}}
<1>1. jobs \in Seq(RungJob) /\ DOMAIN jobs = 1..Len(jobs) /\ Len(jobs) \in Nat /\ Rungs \in Nat
  BY DEF StudyInv, StudyTypes
<1>2. \A k \in DOMAIN jobs : jobs[k] \in RungJob
  BY <1>1
<1>3. \A k \in DOMAIN jobs : jobs[k].point = Point(i) <=> jobs[k].rank = i
  <2>1. \A k \in DOMAIN jobs : jobs[k].rank \in Nat /\ jobs[k].point = Point(jobs[k].rank)
    BY <1>1, <1>2 DEF RungJob, StudyInv, JobsAreRungs
  <2> QED
    BY <1>1, <2>1, PointsDiffer
<1>4. \A k \in DOMAIN jobs :
        jobs[k].status \notin Reusable \cup {"broken"} <=> jobs[k].status \in {"failed", "purged"}
  BY <1>2 DEF RungJob, Reusable, Finished
<1>5. c = Max({0} \cup T)
  BY DEF Cached
<1>6. CASE T = {}
  <2>1. c = 0
    <3>1. {0} \cup T = {0}
      BY <1>6
    <3>2. Max({0}) = 0
      BY DEF Max
    <3> QED
      BY <1>5, <3>1, <3>2, Zenon
  <2> QED
    BY <1>6, <2>1, <1>3, <1>4
<1>7. CASE T # {}
  <2>1. PICK j \in T : TRUE
    BY <1>7
  <2>2. j \in Nat /\ j > 0 /\ jobs[j].rank = i /\ jobs[j].design = d
        /\ jobs[j].status \notin {"failed", "purged"} /\ j \in DOMAIN jobs
    BY <2>1, <1>1, <1>3, <1>4
  <2>3. \A k \in T : k = j
    <3> SUFFICES ASSUME NEW k \in T PROVE k = j
      OBVIOUS
    <3>1. k \in DOMAIN jobs /\ k \in Nat /\ Alike(k, j) /\ Alike(j, k)
          /\ jobs[k].status \notin {"failed", "purged"}
      BY <2>2, <1>1, <1>3, <1>4 DEF Alike
    <3>2. ~(k < j) /\ ~(j < k)
      BY <2>2, <3>1 DEF StudyInv, OnlyNewestAnswers
    <3> QED
      BY <2>2, <3>1, <3>2
  <2>4. {0} \cup T = {0, j}
    BY <2>1, <2>3
  <2>5. Max({0, j}) = j
    BY <2>2 DEF Max
  <2>6. c = j
    BY <1>5, <2>4, <2>5, Zenon
  <2>7. \A k \in DOMAIN jobs : k > j => ~Alike(k, j)
    BY <2>2, <1>1 DEF StudyInv, OnlyNewestAnswers, Alike
  <2> QED
    BY <2>2, <2>6, <2>7
<1> QED
  BY <1>6, <1>7

\* An end or a purge of a job touches no name.
LEMMA JobsMoveKeeps ==
    ASSUME StudyInv, NEW i \in DOMAIN jobs, JobEnds(i) \/ PurgeJob(i),
           UNCHANGED <<pinned, head, submitting, studyRuns, receipt>>
    PROVE  StudyInv'
<1>1. JobsGoOn /\ Len(jobs') = Len(jobs) /\ cacheable' = cacheable
  BY JobsMove DEF StudyInv
<1>2. DOMAIN jobs' = DOMAIN jobs /\ DOMAIN jobs = 1..Len(jobs)
  BY <1>1 DEF StudyInv, StudyTypes, JobsGoOn
<1>3. \A k, l \in DOMAIN jobs : Alike(k, l)' <=> Alike(k, l)
  BY <1>1, <1>2 DEF JobsGoOn, Alike
<1>4. \A r : Names(r) => Names(r)'
  <2> SUFFICES ASSUME NEW r, Names(r) PROVE Names(r)'
    OBVIOUS
  <2> QED
    BY <1>1, <1>2, <1>3 DEF Names, JobsGoOn
<1>5. \A r : NamesAll(r) => NamesAll(r)'
  BY <1>1, <1>2 DEF NamesAll, JobsGoOn
<1>6. StudyTypes' /\ JobsAreRungs' /\ OneDesign'
  BY <1>1, <1>2 DEF StudyInv, StudyTypes, JobsAreRungs, OneDesign, JobsGoOn
<1>7. OnlyNewestAnswers'
  BY <1>1, <1>2, <1>3 DEF StudyInv, OnlyNewestAnswers, JobsGoOn
<1>8. LatestNames'
  BY <1>4 DEF StudyInv, LatestNames
<1>9. LatestNamesAll'
  <2>1. jobs = <<>> => jobs' = <<>>
    BY <1>1 DEF StudyInv, StudyTypes, JobsGoOn
  <2> QED
    BY <1>1, <1>5, <2>1 DEF StudyInv, LatestNamesAll
<1> QED
  BY <1>6, <1>7, <1>8, <1>9 DEF StudyInv

LEMMA RunStudyKeeps == ASSUME StudyInv, RunStudy PROVE StudyInv'
<1> DEFINE x == [at |-> "submitting", design |-> Resolved, named |-> <<>>]
<1>1. submitting' = x /\ jobs' = jobs /\ cacheable' = cacheable /\ receipt' = receipt
      /\ studyRuns' = studyRuns + 1 /\ pinned' = pinned /\ head' = head
  BY DEF RunStudy
<1>2. x \in Receipts /\ x.at = "submitting" /\ x.design = Resolved /\ x.named = <<>>
  BY DEF Receipts, StudyInv, StudyTypes, Resolved
<1>3. Names(x)
  BY <1>2 DEF Names
<1>4. studyRuns = 0 => NamesAll(x)
  BY DEF StudyInv, LatestNamesAll, NamesAll
<1> HIDE DEF x
<1>5. StudyTypes' /\ JobsAreRungs' /\ OnlyNewestAnswers'
  BY <1>1, <1>2 DEF StudyInv, StudyTypes, JobsAreRungs, OnlyNewestAnswers, Alike
<1>6. OneDesign'
  BY <1>1, <1>2 DEF StudyInv, OneDesign, Resolved
<1>7. LatestNames'
  BY <1>1, <1>2, <1>3 DEF LatestNames, Names, Alike
<1>8. LatestNamesAll'
  BY <1>1, <1>2, <1>4 DEF StudyInv, StudyTypes, LatestNamesAll, NamesAll
<1> QED
  BY <1>5, <1>6, <1>7, <1>8 DEF StudyInv

LEMMA StudyAnswersKeeps == ASSUME StudyInv, StudyAnswers PROVE StudyInv'
<1>1. receipt' = submitting /\ submitting' = Quiet /\ jobs' = jobs /\ cacheable' = cacheable
      /\ studyRuns' = studyRuns /\ pinned' = pinned /\ head' = head
      /\ submitting.at = "submitting" /\ Len(submitting.named) = Rungs
  BY DEF StudyAnswers
<1>2. Quiet \in Receipts /\ Quiet.at = "idle" /\ Quiet.design = 1 /\ Quiet.named = <<>>
  BY DEF Quiet, Receipts
<1>3. StudyTypes' /\ JobsAreRungs' /\ OnlyNewestAnswers'
  BY <1>1, <1>2 DEF StudyInv, StudyTypes, JobsAreRungs, OnlyNewestAnswers, Alike
<1>4. OneDesign'
  BY <1>1, <1>2 DEF StudyInv, OneDesign
<1>5. LatestNames'
  BY <1>1, <1>2 DEF StudyInv, LatestNames, Names, Alike
<1>6. LatestNamesAll'
  BY <1>1, <1>2 DEF StudyInv, StudyTypes, LatestNamesAll, NamesAll
<1> QED
  BY <1>3, <1>4, <1>5, <1>6 DEF StudyInv

LEMMA PatchDesignKeeps == ASSUME StudyInv, PatchDesign PROVE StudyInv'
<1>1. head' = head + 1 /\ head \in Nat \ {0} /\ pinned' = pinned /\ submitting' = submitting
      /\ studyRuns' = studyRuns /\ receipt' = receipt /\ jobs' = jobs /\ cacheable' = cacheable
  BY DEF PatchDesign, StudyInv, StudyTypes
<1>2. StudyTypes' /\ JobsAreRungs' /\ OnlyNewestAnswers'
  BY <1>1 DEF StudyInv, StudyTypes, JobsAreRungs, OnlyNewestAnswers, Alike
<1>3. OneDesign'
  BY <1>1 DEF StudyInv, OneDesign
<1>4. LatestNames' /\ LatestNamesAll'
  BY <1>1 DEF StudyInv, LatestNames, LatestNamesAll, Names, NamesAll, Alike
<1> QED
  BY <1>2, <1>3, <1>4 DEF StudyInv

LEMMA ReceiptIs ==
    ASSUME NEW a \in {"idle", "submitting"}, NEW d \in Nat, NEW n \in Seq(Nat)
    PROVE  [at |-> a, design |-> d, named |-> n] \in Receipts
BY DEF Receipts

\* A submission that names j for variation i, where j is 0 or the newest job that
\* solves it, while the jobs stay or grow by one of this variation.
LEMMA NamingKeeps ==
    ASSUME StudyInv, submitting.at = "submitting",
           NEW i, i = Len(submitting.named) + 1, i <= Rungs, NEW j \in Nat,
           submitting' = [submitting EXCEPT !.named = Append(@, j)],
           JobsGoOn,
           \A k \in DOMAIN jobs' \ DOMAIN jobs : jobs'[k].rank = i,
           j # 0 => /\ j \in DOMAIN jobs' /\ jobs'[j].rank = i
                    /\ jobs'[j].design = submitting.design
                    /\ \A k \in DOMAIN jobs' :
                         k > j => ~(jobs'[k].rank = i /\ jobs'[k].design = submitting.design)
    PROVE  /\ submitting' \in Receipts /\ submitting'.design = submitting.design
           /\ submitting'.at = "submitting" /\ Len(submitting'.named) = i
           /\ \A n \in DOMAIN submitting.named :
                n \in DOMAIN submitting'.named /\ submitting'.named[n] = submitting.named[n]
           /\ submitting'.named[i] = j /\ i \in DOMAIN submitting'.named
           /\ LatestNames'
<1>1. PICK n0, n1 : n0 = submitting.named /\ n1 = submitting'.named
  OBVIOUS
<1>2. /\ n0 \in Seq(Nat) /\ Len(n0) \in Nat /\ DOMAIN n0 = 1..Len(n0)
      /\ submitting \in Receipts /\ i = Len(n0) + 1
  BY <1>1 DEF StudyInv, StudyTypes, Receipts
<1>3. n1 = Append(n0, j) /\ submitting'.design = submitting.design
      /\ submitting'.at = submitting.at
  BY <1>1, <1>2 DEF Receipts
<1>4. /\ n1 \in Seq(Nat) /\ Len(n1) = i /\ DOMAIN n1 = 1..i /\ n1[i] = j
      /\ \A n \in DOMAIN n0 : n \in DOMAIN n1 /\ n1[n] = n0[n]
      /\ \A n \in DOMAIN n1 : n = i \/ n \in DOMAIN n0
  BY <1>2, <1>3
<1>5. submitting' \in Receipts
  <2>1. submitting' = [at |-> submitting.at, design |-> submitting.design, named |-> n1]
    BY <1>1, <1>2, <1>3 DEF Receipts
  <2>2. submitting.at \in {"idle", "submitting"} /\ submitting.design \in Nat
    BY <1>2 DEF Receipts
  <2>3. n1 \in Seq(Nat)
    BY <1>4
  <2>4. [at |-> submitting.at, design |-> submitting.design, named |-> n1] \in Receipts
    BY <2>2, <2>3, ReceiptIs, Zenon
  <2> QED
    BY <2>1, <2>4, Zenon
<1>6. jobs' \in Seq(RungJob) /\ DOMAIN jobs' = 1..Len(jobs') /\ Len(jobs) <= Len(jobs')
      /\ jobs \in Seq(RungJob) /\ DOMAIN jobs = 1..Len(jobs)
  BY DEF JobsGoOn, StudyInv, StudyTypes
<1>7. Names(submitting)
  BY DEF StudyInv, LatestNames
<1>8. ASSUME NEW n \in DOMAIN n1, NEW m, m = n1[n], m # 0
      PROVE  /\ m \in DOMAIN jobs'
             /\ jobs'[m].rank = n /\ jobs'[m].design = submitting.design
             /\ \A k \in DOMAIN jobs' :
                  k > m => ~(jobs'[k].rank = n /\ jobs'[k].design = submitting.design)
  <2>1. CASE n = i
    BY <1>4, <1>8, <2>1
  <2>2. CASE n # i
    <3>1. n \in DOMAIN n0 /\ m = n0[n]
      BY <1>4, <1>8, <2>2, Zenon
    <3>2. /\ m \in DOMAIN jobs
          /\ jobs[m].rank = n /\ jobs[m].design = submitting.design
          /\ \A k \in DOMAIN jobs : k > m => ~Alike(k, m)
      BY <1>1, <1>7, <1>8, <3>1 DEF Names
    <3>3. m \in DOMAIN jobs' /\ jobs'[m].rank = n
          /\ jobs'[m].design = submitting.design
      BY <1>6, <3>2 DEF JobsGoOn
    <3>4. ASSUME NEW k \in DOMAIN jobs', k > m
                PROVE  ~(jobs'[k].rank = n /\ jobs'[k].design = submitting.design)
      <4>1. CASE k \in DOMAIN jobs
        BY <3>2, <3>3, <3>4, <4>1 DEF JobsGoOn, Alike
      <4>2. CASE k \notin DOMAIN jobs
        BY <2>2, <3>4, <4>2
      <4> QED
        BY <4>1, <4>2
    <3> QED
      BY <3>3, <3>4
  <2> QED
    BY <2>1, <2>2
<1>9. Names(submitting)'
  <2>1. Len(n1) <= Rungs
    BY <1>4
  <2>2. Len(submitting'.named) <= Rungs
    BY <1>1, <2>1, Zenon
  <2>3. ASSUME NEW n \in DOMAIN submitting'.named, submitting'.named[n] # 0
        PROVE  /\ submitting'.named[n] \in DOMAIN jobs'
               /\ jobs'[submitting'.named[n]].rank = n
               /\ jobs'[submitting'.named[n]].design = submitting'.design
               /\ \A k \in DOMAIN jobs' : k > submitting'.named[n] =>
                    ~(/\ jobs'[k].rank = jobs'[submitting'.named[n]].rank
                      /\ jobs'[k].design = jobs'[submitting'.named[n]].design)
    <3>1. PICK m : m = n1[n] /\ m = submitting'.named[n] /\ n \in DOMAIN n1 /\ m # 0
      BY <1>1, <2>3
    <3>2. /\ m \in DOMAIN jobs'
          /\ jobs'[m].rank = n /\ jobs'[m].design = submitting'.design
          /\ \A k \in DOMAIN jobs' :
               k > m => ~(jobs'[k].rank = jobs'[m].rank /\ jobs'[k].design = jobs'[m].design)
      <4>1. /\ m \in DOMAIN jobs'
            /\ jobs'[m].rank = n /\ jobs'[m].design = submitting.design
            /\ \A k \in DOMAIN jobs' :
                 k > m => ~(jobs'[k].rank = n /\ jobs'[k].design = submitting.design)
        BY <1>8, <3>1, Zenon
      <4> QED
        BY <1>3, <4>1
    <3> QED
      BY <3>1, <3>2, Zenon
  <2> QED
    BY <2>2, <2>3, Zenon DEF Names, Alike
<1> QED
  BY <1>1, <1>2, <1>3, <1>4, <1>5, <1>9 DEF LatestNames

LEMMA SubmitRungKeeps == ASSUME StudyInv, SubmitRung PROVE StudyInv'
<1> DEFINE i == Len(submitting.named) + 1
           d == submitting.design
           c == Cached(Point(i), d)
           x == NewJob(Point(i), d, i)
<1>1. /\ submitting.at = "submitting" /\ i \in 1..Rungs /\ d \in Nat
      /\ pinned' = pinned /\ head' = head /\ studyRuns' = studyRuns
      /\ receipt' = receipt /\ cacheable' = cacheable
      /\ jobs \in Seq(RungJob) /\ DOMAIN jobs = 1..Len(jobs) /\ Len(jobs) \in Nat
  BY DEF SubmitRung, StudyInv, StudyTypes, Receipts
<1>2. c # 0 => cacheable
  BY DEF Cached
<1>3. cacheable =>
        \/ /\ c = 0
           /\ \A k \in DOMAIN jobs : jobs[k].rank = i /\ jobs[k].design = d =>
                jobs[k].status \in {"failed", "purged"}
        \/ /\ c \in DOMAIN jobs /\ jobs[c].rank = i /\ jobs[c].design = d
           /\ jobs[c].status \notin {"failed", "purged"}
           /\ \A k \in DOMAIN jobs : k > c => ~Alike(k, c)
  BY <1>1, CachedIsNewest
<1>4. CASE UNCHANGED jobs /\ \E j \in Nat :
             /\ submitting' = [submitting EXCEPT !.named = Append(@, j)]
             /\ j = 0 \/ (j = c /\ c # 0)
             /\ ~cacheable => j = 0
  <2>1. PICK j \in Nat :
          /\ submitting' = [submitting EXCEPT !.named = Append(@, j)]
          /\ j = 0 \/ (j = c /\ c # 0)
    BY <1>4
  <2>2. JobsGoOn
    BY <1>1, <1>4 DEF JobsGoOn
  <2>3. j # 0 => /\ j \in DOMAIN jobs' /\ jobs'[j].rank = i /\ jobs'[j].design = d
                 /\ \A k \in DOMAIN jobs' : k > j => ~(jobs'[k].rank = i /\ jobs'[k].design = d)
    BY <1>1, <1>2, <1>4, <1>3, <2>1 DEF Alike
  <2>4. /\ submitting' \in Receipts /\ submitting'.design = d /\ submitting'.at = "submitting"
        /\ Len(submitting'.named) = i
        /\ \A n \in DOMAIN submitting.named :
             n \in DOMAIN submitting'.named /\ submitting'.named[n] = submitting.named[n]
        /\ LatestNames'
    <3>1. \A k \in DOMAIN jobs' \ DOMAIN jobs : jobs'[k].rank = i
      BY <1>4
    <3> HIDE DEF i, d
    <3>2. i = Len(submitting.named) + 1 /\ i <= Rungs /\ d = submitting.design
      BY <1>1 DEF i, d
    <3> QED
      BY <1>1, <2>1, <2>2, <2>3, <3>1, <3>2, NamingKeeps
  <2>5. StudyTypes' /\ JobsAreRungs' /\ OnlyNewestAnswers' /\ OneDesign'
    BY <1>1, <1>4, <2>4
       DEF StudyInv, StudyTypes, JobsAreRungs, OnlyNewestAnswers, OneDesign, Alike
  <2>6. LatestNamesAll'
    BY <1>1, <1>4, <2>4 DEF StudyInv, LatestNamesAll, NamesAll
  <2> QED
    BY <2>4, <2>5, <2>6 DEF StudyInv
<1>5. CASE /\ c = 0 /\ jobs' = Append(jobs, x)
           /\ submitting' = [submitting EXCEPT !.named = Append(@, Len(jobs) + 1)]
  <2> DEFINE j == Len(jobs) + 1
  <2>1. /\ x \in RungJob /\ x.rank = i /\ x.design = d /\ x.point = Point(i)
        /\ x.status = "running"
    BY <1>1 DEF NewJob, RungJob
  <2> HIDE DEF x
  <2>2. /\ jobs' \in Seq(RungJob) /\ Len(jobs') = j /\ DOMAIN jobs' = 1..j /\ jobs'[j] = x
        /\ \A k \in DOMAIN jobs : jobs'[k] = jobs[k] /\ k \in DOMAIN jobs' /\ k # j
        /\ \A k \in DOMAIN jobs' : k \in DOMAIN jobs \/ k = j
    BY <1>1, <1>5, <2>1
  <2>3. JobsGoOn
    BY <1>1, <2>2 DEF JobsGoOn
  <2>4. /\ submitting' \in Receipts /\ submitting'.design = d /\ submitting'.at = "submitting"
        /\ Len(submitting'.named) = i
        /\ \A n \in DOMAIN submitting.named :
             n \in DOMAIN submitting'.named /\ submitting'.named[n] = submitting.named[n]
        /\ submitting'.named[i] = j /\ i \in DOMAIN submitting'.named
        /\ LatestNames'
    <3>1. \A k \in DOMAIN jobs' \ DOMAIN jobs : jobs'[k].rank = i
      BY <2>1, <2>2
    <3>2. j \in DOMAIN jobs' /\ jobs'[j].rank = i /\ jobs'[j].design = d
          /\ \A k \in DOMAIN jobs' : ~(k > j)
      BY <1>1, <2>1, <2>2
    <3>3. j \in Nat /\ submitting' = [submitting EXCEPT !.named = Append(@, j)]
      BY <1>1, <1>5
    <3> HIDE DEF i, d, j
    <3>4. i = Len(submitting.named) + 1 /\ i <= Rungs /\ d = submitting.design
      BY <1>1 DEF i, d
    <3> QED
      BY <1>1, <2>3, <3>1, <3>2, <3>3, <3>4, NamingKeeps
  <2>5. StudyTypes' /\ JobsAreRungs'
    BY <1>1, <2>1, <2>2, <2>4 DEF StudyInv, StudyTypes, JobsAreRungs
  <2>6. OnlyNewestAnswers'
    <3> SUFFICES ASSUME cacheable, NEW k \in DOMAIN jobs', NEW l \in DOMAIN jobs',
                        k < l, Alike(k, l)'
                 PROVE  jobs'[k].status \in {"failed", "purged"}
      BY <1>1 DEF OnlyNewestAnswers
    <3>1. k \in DOMAIN jobs
      BY <1>1, <2>2
    <3>2. CASE l \in DOMAIN jobs
      BY <2>2, <3>1, <3>2 DEF StudyInv, OnlyNewestAnswers, Alike
    <3>3. CASE l = j
      <4>1. jobs[k].rank = i /\ jobs[k].design = d
        BY <2>1, <2>2, <3>1, <3>3 DEF Alike
      <4> QED
        <5>1. jobs'[k] = jobs[k] /\ c = 0
          BY <1>5, <2>2, <3>1
        <5> HIDE DEF c, d, i
        <5>2. jobs[k].status \in {"failed", "purged"}
          BY <1>1, <1>3, <3>1, <4>1, <5>1
        <5> QED
          BY <5>1, <5>2
    <3> QED
      BY <2>2, <3>2, <3>3
  <2>7. OneDesign'
    BY <1>1, <2>1, <2>2, <2>4 DEF StudyInv, OneDesign
  <2>8. LatestNamesAll'
    <3>1. jobs' # <<>> /\ studyRuns # 0
      BY <1>1, <2>2 DEF StudyInv, LatestNamesAll
    <3>2. ~cacheable /\ studyRuns = 1 => NamesAll(submitting)'
      BY <1>1, <2>1, <2>2, <2>4 DEF StudyInv, LatestNamesAll, NamesAll
    <3> QED
      BY <1>1, <2>4, <3>1, <3>2 DEF LatestNamesAll
  <2> QED
    BY <2>4, <2>5, <2>6, <2>7, <2>8 DEF StudyInv
<1> QED
  <2>1. CASE Cached(Point(i), d) = 0
             /\ submitting' = [submitting EXCEPT !.named = Append(@, 0)] /\ UNCHANGED jobs
    BY <1>4, <2>1
  <2>2. CASE \E j \in 1..(Len(jobs) + 1) :
               /\ Submitted(Point(i), d, i, j)
               /\ submitting' = [submitting EXCEPT !.named = Append(@, j)]
    <3>1. PICK j \in 1..(Len(jobs) + 1) :
               /\ Submitted(Point(i), d, i, j)
               /\ submitting' = [submitting EXCEPT !.named = Append(@, j)]
      BY <2>2
    <3>2. CASE c # 0
      <4>1. j = c /\ UNCHANGED jobs
        BY <3>1, <3>2 DEF Submitted
      <4>2. j \in Nat /\ (~cacheable => j = 0)
        BY <1>2, <3>1, <3>2
      <4> QED
        BY <1>4, <3>1, <3>2, <4>1, <4>2
    <3>3. CASE c = 0
      BY <1>1, <1>5, <3>1, <3>3 DEF Submitted
    <3> QED
      BY <3>2, <3>3
  <2> QED
    BY <2>1, <2>2 DEF SubmitRung

LEMMA StudyInductive == StudySpec => []StudyInv
<1>1. StudyInv /\ [StudyNext]_studyVars => StudyInv'
  <2> SUFFICES ASSUME StudyInv, [StudyNext]_studyVars PROVE StudyInv'
    OBVIOUS
  <2>1. CASE UNCHANGED studyVars
    BY <2>1
       DEF studyVars, StudyInv, StudyTypes, JobsAreRungs, OnlyNewestAnswers, OneDesign,
           LatestNames, LatestNamesAll, Names, NamesAll, Alike
  <2> QED
    BY <2>1, RunStudyKeeps, SubmitRungKeeps, StudyAnswersKeeps, PatchDesignKeeps, JobsMoveKeeps
       DEF StudyNext
<1> QED
  BY <1>1, StudyInitially, PTL DEF StudySpec

\* A report made after a run shows the run's own jobs, or where one failed another
\* that failed too (core/service.py: run_study, study_report, _variation_job; the
\* two ways to find a job again, by content address and by recorded index).
THEOREM StudyTellsTheRun == StudySpec => []TableShowsTheRun
<1>1. StudyInv => TableShowsTheRun
  <2> SUFFICES ASSUME StudyInv, receipt # NoReceipt, submitting = Quiet, pinned \/ head = 1,
                      cacheable \/ studyRuns = 1,
                      \A k \in DOMAIN jobs : jobs[k].status # "purged",
                      NEW i \in 1..Rungs, receipt.named[i] # 0
               PROVE  /\ \/ Row(i) = receipt.named[i]
                         \/ /\ jobs[receipt.named[i]].status = "failed"
                            /\ jobs[Row(i)].status = "failed"
                      /\ Complete => jobs[receipt.named[i]].status \in Finished
    BY DEF TableShowsTheRun
  <2> DEFINE j == receipt.named[i]
             c == Cached(Point(i), Resolved)
             S == {k \in DOMAIN jobs : jobs[k].rank = i /\ jobs[k].status # "purged"}
  <2>1. /\ jobs \in Seq(RungJob) /\ DOMAIN jobs = 1..Len(jobs) /\ Len(jobs) \in Nat
        /\ receipt \in Receipts /\ Len(receipt.named) = Rungs /\ receipt.design = 1
        /\ \A k \in DOMAIN jobs : jobs[k].design = 1
        /\ Resolved = 1 /\ submitting.at # "submitting"
    BY DEF StudyInv, StudyTypes, OneDesign, Resolved, Quiet
  <2>2. /\ i \in DOMAIN receipt.named /\ Names(receipt)
        /\ ~cacheable => NamesAll(receipt)
    BY <2>1 DEF StudyInv, LatestNames, LatestNamesAll, Receipts
  <2>3. /\ j \in DOMAIN jobs /\ jobs[j].rank = i /\ jobs[j].design = 1 /\ j # 0
        /\ \A k \in DOMAIN jobs : k > j => ~Alike(k, j)
    BY <2>1, <2>2 DEF Names
  <2>4. j \in S /\ S \subseteq Nat /\ S # {}
    BY <2>1, <2>3
  <2>5. Min(S) \in S /\ Min(S) <= j
    BY <2>4, LeastOf
  <2>6. Row(i) = IF c # 0 THEN c ELSE Min(S)
    BY <2>4 DEF Row, JobOf, ByInput
  <2>7. \/ Row(i) = j
        \/ jobs[j].status = "failed" /\ jobs[Row(i)].status = "failed"
    <3>1. CASE cacheable /\ c # 0
      <4>1. /\ c \in DOMAIN jobs /\ jobs[c].rank = i /\ jobs[c].design = 1
            /\ \A k \in DOMAIN jobs : k > c => ~Alike(k, c)
        BY <2>1, <3>1, CachedIsNewest
      <4>2. c = j
        BY <2>1, <2>3, <4>1 DEF Alike
      <4> QED
        BY <2>6, <3>1, <4>2
    <3>2. CASE cacheable /\ c = 0
      <4>1. \A k \in DOMAIN jobs : jobs[k].rank = i /\ jobs[k].design = 1 =>
              jobs[k].status \in {"failed", "purged"}
        BY <2>1, <3>2, CachedIsNewest
      <4> QED
        BY <2>1, <2>3, <2>5, <2>6, <3>2, <4>1
    <3>3. CASE ~cacheable
      <4>1. c = 0
        BY <3>3 DEF Cached
      <4>2. \A k \in S : k = j
        BY <2>2, <3>3 DEF NamesAll
      <4> QED
        BY <2>5, <2>6, <4>1, <4>2
    <3> QED
      BY <3>1, <3>2, <3>3
  <2>8. Row(i) # 0
    <3>1. Min(S) # 0
      BY <2>1, <2>5
    <3> QED
      BY <2>6, <3>1
  <2>9. Complete => jobs[j].status \in Finished
    BY <2>7, <2>8 DEF Complete, Finished
  <2> QED
    BY <2>7, <2>9
<1> QED
  BY <1>1, StudyInductive, PTL

-----------------------------------------------------------------------------
(* The method of a search: positions, and the powers of 1/phi *)

HIDE SearchAssumption
HIDE StudyAssumption
USE GoldenAssumption

\* A place in the bracket, and what the loop holds between two answers.
Position == Int \X Int
Loop == [a : Position, b : Position, c : Position, d : Position, fc : Int, fd : Int,
         open : {"none", "c", "d"}]

LEMMA PositionFacts ==
    ASSUME NEW p \in Position, NEW q \in Position
    PROVE  /\ Minus(p, q) \in Position /\ Plus(p, q) \in Position /\ Shrunk(p) \in Position
           /\ Value(p) \in Int
           /\ Value(Plus(p, q)) = Value(p) + Value(q)
           /\ Value(Minus(p, q)) = Value(p) - Value(q)
           /\ Value(Shrunk(Shrunk(p))) = Value(p) - Value(Shrunk(p))
           /\ Minus(Plus(p, q), p) = q
           /\ Plus(p, Minus(q, Shrunk(q))) = Minus(Plus(p, q), Shrunk(q))
           /\ Minus(q, Shrunk(q)) = Shrunk(Shrunk(q))
<1>1. PICK m \in Int, n \in Int : p = <<m, n>>
  BY DEF Position
<1>2. PICK k \in Int, l \in Int : q = <<k, l>>
  BY DEF Position
<1>3. /\ Minus(p, q) = <<m - k, n - l>> /\ Plus(p, q) = <<m + k, n + l>>
      /\ Shrunk(p) = <<n, m - n>> /\ Shrunk(q) = <<l, k - l>>
  BY <1>1, <1>2 DEF Minus, Plus, Shrunk
<1>4. Minus(p, q) \in Position /\ Plus(p, q) \in Position /\ Shrunk(p) \in Position
  BY <1>3 DEF Position
<1>5. /\ Value(p) = Span * m + InvPhi * n /\ Value(q) = Span * k + InvPhi * l
      /\ Value(Plus(p, q)) = Span * (m + k) + InvPhi * (n + l)
      /\ Value(Minus(p, q)) = Span * (m - k) + InvPhi * (n - l)
      /\ Value(Shrunk(p)) = Span * n + InvPhi * (m - n)
  BY <1>1, <1>2, <1>3 DEF Value
<1>6. Shrunk(Shrunk(p)) = <<m - n, n - (m - n)>>
  BY <1>3 DEF Shrunk
<1>7. Value(Shrunk(Shrunk(p))) = Span * (m - n) + InvPhi * (n - (m - n))
  BY <1>6 DEF Value
<1>8. /\ Span * (m + k) = Span * m + Span * k /\ Span * (m - k) = Span * m - Span * k
      /\ InvPhi * (n + l) = InvPhi * n + InvPhi * l /\ InvPhi * (n - l) = InvPhi * n - InvPhi * l
      /\ Span * (m - n) = Span * m - Span * n
      /\ InvPhi * (n - (m - n)) = InvPhi * n - InvPhi * (m - n)
      /\ Span * m \in Int /\ Span * n \in Int /\ Span * k \in Int
      /\ InvPhi * n \in Int /\ InvPhi * l \in Int /\ InvPhi * (m - n) \in Int
  OBVIOUS
<1>9. /\ Value(p) \in Int /\ Value(Plus(p, q)) = Value(p) + Value(q)
      /\ Value(Minus(p, q)) = Value(p) - Value(q)
      /\ Value(Shrunk(Shrunk(p))) = Value(p) - Value(Shrunk(p))
  BY <1>5, <1>7, <1>8
<1>10. Minus(Plus(p, q), p) = q
  BY <1>1, <1>2, <1>3 DEF Minus
<1>11. Minus(q, Shrunk(q)) = <<k - l, l - (k - l)>>
  BY <1>2, <1>3 DEF Minus
<1>12. Shrunk(Shrunk(q)) = <<k - l, l - (k - l)>>
  BY <1>3 DEF Shrunk
<1>13. Plus(p, Minus(q, Shrunk(q))) = <<m + (k - l), n + (l - (k - l))>>
  BY <1>1, <1>11 DEF Plus
<1>14. Minus(Plus(p, q), Shrunk(q)) = <<(m + k) - l, (n + l) - (k - l)>>
  BY <1>3 DEF Minus
<1>15. m + (k - l) = (m + k) - l /\ n + (l - (k - l)) = (n + l) - (k - l)
  OBVIOUS
<1> QED
  BY <1>4, <1>9, <1>10, <1>11, <1>12, <1>13, <1>14, <1>15

LEMMA PowerIs ==
    /\ Power[0] = <<1, 0>>
    /\ \A n \in Nat : Power[n] \in Position /\ Power[n + 1] = Shrunk(Power[n])
<1> DEFINE G == [x \in Nat \X Position |-> Shrunk(x[2])]
<1>1. PICK H \in [Nat \X Position -> Position] :
        \A n \in Nat, p \in Position : H[<<n, p>>] = Shrunk(p)
  <2>1. G \in [Nat \X Position -> Position]
    BY PositionFacts
  <2>2. \A n \in Nat, p \in Position : G[<<n, p>>] = Shrunk(p)
    OBVIOUS
  <2> QED
    BY <2>1, <2>2, Zenon
<1>2. <<1, 0>> \in Position
  BY DEF Position
<1>3. PICK f \in [Nat -> Position] : f[0] = <<1, 0>> /\ \A n \in Nat : f[n + 1] = H[<<n, f[n]>>]
  <2>1. \E f \in [Nat -> Position] : Iterates(f, <<1, 0>>, H)
    BY <1>2, RecursionWorks, Zenon
  <2> QED
    BY <2>1 DEF Iterates
<1>4. \A n \in Nat : f[n] \in Position /\ f[n + 1] = Shrunk(f[n])
  BY <1>1, <1>3
<1>5. f = [n \in Nat |-> IF n = 0 THEN <<1, 0>> ELSE Shrunk(f[n - 1])]
  <2>1. \A n \in Nat : f[n] = IF n = 0 THEN <<1, 0>> ELSE Shrunk(f[n - 1])
    <3> SUFFICES ASSUME NEW n \in Nat, n # 0 PROVE f[n] = Shrunk(f[n - 1])
      BY <1>3
    <3>1. n - 1 \in Nat /\ (n - 1) + 1 = n
      OBVIOUS
    <3> QED
      BY <1>4, <3>1
  <2> QED
    BY <1>3, <2>1
<1>6. Power = CHOOSE g : g = [n \in Nat |-> IF n = 0 THEN <<1, 0>> ELSE Shrunk(g[n - 1])]
  BY DEF Power
<1>7. Power = [n \in Nat |-> IF n = 0 THEN <<1, 0>> ELSE Shrunk(Power[n - 1])]
  BY <1>5, <1>6, Zenon
<1>8. Power[0] = <<1, 0>> /\ \A n \in Nat : Power[n + 1] = Shrunk(Power[n])
  BY <1>7
<1>9. \A n \in Nat : Power[n] \in Position
  <2> DEFINE T == {n \in Nat : Power[n] \in Position}
  <2>1. 0 \in T
    BY <1>2, <1>8
  <2>2. ASSUME NEW n \in T PROVE n + 1 \in T
    <3>1. n \in Nat /\ Power[n] \in Position
      OBVIOUS
    <3>2. Shrunk(Power[n]) \in Position
      BY <3>1, PositionFacts
    <3>3. Power[n + 1] = Shrunk(Power[n])
      BY <1>8, <3>1
    <3> QED
      BY <3>1, <3>2, <3>3
  <2>3. T \subseteq Nat
    OBVIOUS
  <2> HIDE DEF T
  <2>4. T = Nat
    BY <2>1, <2>2, <2>3, EveryNumber
  <2> QED
    BY <2>4 DEF T
<1> QED
  BY <1>8, <1>9

\* The n-th power of r, in units.
LEMMA PowersShrink ==
    ASSUME NEW n \in Nat
    PROVE  /\ Value(Power[n]) \in Int
           /\ Power[n + 2] = Shrunk(Shrunk(Power[n])) /\ Power[n + 1] = Shrunk(Power[n])
           /\ Value(Power[n + 2]) = Value(Power[n]) - Value(Power[n + 1])
<1>1. /\ Power[n] \in Position /\ Power[n + 1] = Shrunk(Power[n])
      /\ Power[(n + 1) + 1] = Shrunk(Power[n + 1])
  BY PowerIs
<1>2. (n + 1) + 1 = n + 2
  OBVIOUS
<1> QED
  BY <1>1, <1>2, PositionFacts

-----------------------------------------------------------------------------
(* The loop *)

\* The bracket was narrowed n times, and c and d divide it as they should.
Framed(s, n) ==
    /\ s \in Loop
    /\ s.b = Plus(s.a, Power[n]) /\ s.c = Plus(s.a, Power[n + 2]) /\ s.d = Plus(s.a, Power[n + 1])

LEMMA FramePlaces ==
    ASSUME NEW s, NEW n \in Nat, Framed(s, n), n + 2 <= MaxTold + 1
    PROVE  /\ Value(s.a) \in Int /\ Value(s.b) \in Int /\ Value(s.c) \in Int /\ Value(s.d) \in Int
           /\ Value(s.b) = Value(s.a) + Value(Power[n])
           /\ Value(s.a) < Value(s.c) /\ Value(s.c) < Value(s.b)
           /\ Value(s.a) < Value(s.d) /\ Value(s.d) < Value(s.b)
           /\ Value(s.d) - Value(s.c) = Value(Power[n + 1]) - Value(Power[n + 2])
<1>1. s.a \in Position /\ Power[n] \in Position /\ Power[n + 1] \in Position /\ Power[n + 2] \in Position
  BY PowerIs DEF Framed, Loop
<1>2. /\ Value(s.a) \in Int /\ Value(Power[n]) \in Int /\ Value(Power[n + 1]) \in Int
      /\ Value(Power[n + 2]) \in Int
  BY <1>1, PositionFacts
<1>3. /\ Value(s.b) = Value(s.a) + Value(Power[n])
      /\ Value(s.c) = Value(s.a) + Value(Power[n + 2])
      /\ Value(s.d) = Value(s.a) + Value(Power[n + 1])
  <2>1. \A p \in Position : Value(Plus(s.a, p)) = Value(s.a) + Value(p)
    BY <1>1, PositionFacts
  <2> QED
    BY <1>1, <2>1 DEF Framed
<1>4. Value(Power[n + 1]) > 0 /\ Value(Power[n + 2]) > 0
  BY n + 1 \in 0..(MaxTold + 1), n + 2 \in 0..(MaxTold + 1)
<1>5. Value(Power[n + 2]) = Value(Power[n]) - Value(Power[n + 1])
  BY PowersShrink
<1> QED
  BY <1>2, <1>3, <1>4, <1>5

\* What is asked of f next to what it answered already.
LEMMA MeasuredFacts ==
    ASSUME objective \in Objectives, NEW p \in Position, NEW q \in Position, Value(p) < Value(q)
    PROVE  /\ Measured(p) \in Int /\ Measured(q) \in Int
           /\ objective.least \in 0..Span
           /\ Value(q) <= objective.least => Measured(q) < Measured(p)
           /\ objective.least <= Value(p) => Measured(p) < Measured(q)
<1>1. PICK least \in 0..Span, left \in Nat \ {0}, right \in Nat \ {0} :
        objective.least = least /\ objective.left = left /\ objective.right = right
  BY DEF Objectives
<1>2. PICK x \in Int, y \in Int : x = Value(p) /\ y = Value(q) /\ x < y
  BY PositionFacts
<1>3. /\ Measured(p) = IF x < least THEN left * (least - x) ELSE right * (x - least)
      /\ Measured(q) = IF y < least THEN left * (least - y) ELSE right * (y - least)
  BY <1>1, <1>2 DEF Measured
<1>4. \A k \in Nat \ {0}, u \in Int, v \in Int : k * u \in Int /\ (u < v => k * u < k * v)
  OBVIOUS
<1>5. Measured(p) \in Int /\ Measured(q) \in Int
  BY <1>3, <1>4
<1>6. ASSUME y <= least PROVE Measured(q) < Measured(p)
  <2>1. Measured(p) = left * (least - x) /\ least - y < least - x /\ least - y \in Int /\ least - x \in Int
    BY <1>2, <1>3, <1>6
  <2>2. left * (least - y) < left * (least - x)
    BY <1>4, <2>1
  <2>3. CASE y < least
    BY <1>3, <2>1, <2>2, <2>3
  <2>4. CASE y = least
    <3>1. Measured(q) = right * 0 /\ left * 0 < left * (least - x) /\ right * 0 = 0 /\ left * 0 = 0
      BY <1>3, <2>2, <2>4
    <3> QED
      BY <2>1, <3>1
  <2> QED
    BY <1>6, <2>3, <2>4
<1>7. ASSUME least <= x PROVE Measured(p) < Measured(q)
  <2>1. /\ Measured(p) = right * (x - least) /\ Measured(q) = right * (y - least)
        /\ x - least < y - least /\ x - least \in Int /\ y - least \in Int
    BY <1>2, <1>3, <1>7
  <2> QED
    BY <1>4, <2>1
<1> QED
  BY <1>1, <1>2, <1>5, <1>6, <1>7

\* The least value is in the bracket, whose ends were asked for, or are the first.
Between(s, A) ==
    /\ Value(s.a) <= objective.least /\ objective.least <= Value(s.b)
    /\ s.a \in A \cup {Ends.a} /\ s.b \in A \cup {Ends.b}
    /\ A \subseteq Position

\* Both answers are in: of the points A asked for, only c and d are inside.
Ready(s, n, A) ==
    /\ Framed(s, n) /\ Between(s, A)
    /\ s.c \in A /\ s.fc = Measured(s.c)
    /\ s.d \in A /\ s.fd = Measured(s.d)
    /\ \A p \in A : Value(p) <= Value(s.a) \/ Value(s.b) <= Value(p) \/ p = s.c \/ p = s.d

\* One of the two is still to be asked for.
Waiting(s, n, A) ==
    /\ Framed(s, n) /\ Between(s, A)
    /\ s.open \in {"c", "d"}
    /\ s.open = "c" =>
         /\ s.d \in A /\ s.fd = Measured(s.d)
         /\ \A p \in A : Value(p) <= Value(s.a) \/ Value(s.b) <= Value(p) \/ p = s.d
    /\ s.open = "d" =>
         /\ s.c \in A /\ s.fc = Measured(s.c)
         /\ \A p \in A : Value(p) <= Value(s.a) \/ Value(s.b) <= Value(p) \/ p = s.c

Pending(s) == IF s.open = "c" THEN s.c ELSE s.d

LEMMA PlusMinus ==
    ASSUME NEW p \in Position, NEW q \in Position
    PROVE  Plus(p, q) \in Position /\ Minus(Plus(p, q), p) = q
BY PositionFacts

\* a < c < d < b.
LEMMA FrameOrder ==
    ASSUME NEW s, NEW n \in Nat, Framed(s, n), n + 2 <= MaxTold
    PROVE  /\ Value(s.a) \in Int /\ Value(s.b) \in Int /\ Value(s.c) \in Int /\ Value(s.d) \in Int
           /\ Value(s.a) < Value(s.c) /\ Value(s.d) < Value(s.b) /\ Value(s.c) < Value(s.d)
<1>1. Value(Power[n + 3]) > 0
  BY n + 3 \in 0..(MaxTold + 1)
<1>2. n + 1 \in Nat /\ (n + 1) + 1 = n + 2 /\ (n + 1) + 2 = n + 3
  OBVIOUS
<1>3. Value(Power[(n + 1) + 2]) = Value(Power[n + 1]) - Value(Power[(n + 1) + 1])
  BY PowersShrink
<1>4. Value(Power[n + 1]) \in Int /\ Value(Power[n + 2]) \in Int
  BY PowersShrink
<1>5. n + 2 <= MaxTold + 1
  OBVIOUS
<1>6. /\ Value(s.a) \in Int /\ Value(s.b) \in Int /\ Value(s.c) \in Int /\ Value(s.d) \in Int
      /\ Value(s.a) < Value(s.c) /\ Value(s.d) < Value(s.b)
      /\ Value(s.d) - Value(s.c) = Value(Power[n + 1]) - Value(Power[n + 2])
  BY <1>5, FramePlaces
<1> QED
  BY <1>1, <1>2, <1>3, <1>4, <1>6

\* A turn of the loop narrows the bracket by r and keeps the point inside.
LEMMA FrameNarrows ==
    ASSUME NEW s, NEW n \in Nat, Framed(s, n), NEW t, t = Narrowed(s)
    PROVE  /\ Framed(t, n + 1)
           /\ s.fc < s.fd => /\ t.a = s.a /\ t.b = s.d /\ t.d = s.c /\ t.fd = s.fc
                             /\ t.open = "c"
           /\ ~(s.fc < s.fd) => /\ t.a = s.c /\ t.b = s.b /\ t.c = s.d /\ t.fc = s.fd
                                /\ t.open = "d"
<1>1. /\ s.a \in Position /\ s.b \in Position /\ s.c \in Position /\ s.d \in Position
      /\ s.fc \in Int /\ s.fd \in Int /\ s \in Loop
  BY DEF Framed, Loop
<1>2. PICK w \in Position, w1 \in Position, w2 \in Position, w3 \in Position :
        /\ w = Power[n] /\ w1 = Power[n + 1] /\ w2 = Power[n + 2] /\ w3 = Power[(n + 1) + 2]
        /\ w1 = Shrunk(w) /\ w2 = Shrunk(w1) /\ w3 = Shrunk(w2)
  <2>1. /\ n + 1 \in Nat /\ n + 2 \in Nat /\ (n + 1) + 1 = n + 2 /\ (n + 2) + 1 = (n + 1) + 2
    OBVIOUS
  <2> QED
    BY <2>1, PowerIs
<1>3. s.b = Plus(s.a, w) /\ s.c = Plus(s.a, w2) /\ s.d = Plus(s.a, w1)
  BY <1>2 DEF Framed
<1>4. (n + 1) + 1 = n + 2 /\ n + 1 \in Nat
  OBVIOUS
<1>5. CASE s.fc < s.fd
  <2> DEFINE c == Lower(s.a, s.d)
  <2>1. c = Plus(s.a, w3)
    <3>1. c = Minus(s.d, Shrunk(Minus(s.d, s.a)))
      BY DEF Lower
    <3>2. Minus(s.d, s.a) = w1
      BY <1>1, <1>2, <1>3, PlusMinus
    <3>3. c = Minus(Plus(s.a, w1), Shrunk(w1))
      BY <1>3, <3>1, <3>2
    <3>4. Plus(s.a, Minus(w1, Shrunk(w1))) = Minus(Plus(s.a, w1), Shrunk(w1))
      BY <1>1, <1>2, PositionFacts
    <3>5. Minus(w1, Shrunk(w1)) = Shrunk(Shrunk(w1))
      BY <1>2, PositionFacts
    <3> QED
      BY <1>2, <3>3, <3>4, <3>5
  <2>2. c \in Position
    BY <1>1, <1>2, <2>1, PlusMinus
  <2>3. t = [s EXCEPT !.b = s.d, !.d = s.c, !.fd = s.fc, !.c = c, !.open = "c"]
    BY <1>5 DEF Narrowed
  <2> HIDE DEF c
  <2>4. /\ t \in Loop /\ t.a = s.a /\ t.b = s.d /\ t.d = s.c /\ t.fd = s.fc
        /\ t.open = "c" /\ t.c = c
    BY <1>1, <2>2, <2>3 DEF Loop
  <2> QED
    BY <1>2, <1>3, <1>4, <1>5, <2>1, <2>4 DEF Framed
<1>6. CASE ~(s.fc < s.fd)
  <2> DEFINE d == Upper(s.c, s.b)
  <2>1. d = Plus(s.c, w2) /\ s.b = Plus(s.c, w1) /\ s.d = Plus(s.c, w3)
    <3>0. PICK a1 \in Int, a2 \in Int : s.a = <<a1, a2>>
      BY <1>1 DEF Position
    <3>1. PICK k \in Int, l \in Int : s.a = <<a1, a2>> /\ w = <<k, l>>
      BY <1>2, <3>0 DEF Position
    <3>2. w1 = <<l, k - l>> /\ w2 = <<k - l, l - (k - l)>>
          /\ w3 = <<l - (k - l), (k - l) - (l - (k - l))>>
      BY <1>2, <3>1 DEF Shrunk
    <3>3. /\ s.b = <<a1 + k, a2 + l>> /\ s.c = <<a1 + (k - l), a2 + (l - (k - l))>>
          /\ s.d = <<a1 + l, a2 + (k - l)>>
      BY <1>3, <3>1, <3>2 DEF Plus
    <3>4. /\ Plus(s.c, w1) = <<(a1 + (k - l)) + l, (a2 + (l - (k - l))) + (k - l)>>
          /\ Plus(s.c, w3) = <<(a1 + (k - l)) + (l - (k - l)),
                               (a2 + (l - (k - l))) + ((k - l) - (l - (k - l)))>>
      BY <3>2, <3>3 DEF Plus
    <3>5. /\ (a1 + (k - l)) + l = a1 + k /\ (a2 + (l - (k - l))) + (k - l) = a2 + l
          /\ (a1 + (k - l)) + (l - (k - l)) = a1 + l
          /\ (a2 + (l - (k - l))) + ((k - l) - (l - (k - l))) = a2 + (k - l)
      OBVIOUS
    <3>6. s.b = Plus(s.c, w1) /\ s.d = Plus(s.c, w3)
      BY <3>3, <3>4, <3>5
    <3>7. Minus(s.b, s.c) = w1
      BY <1>1, <1>2, <3>6, PlusMinus
    <3> QED
      BY <1>2, <3>6, <3>7 DEF Upper
  <2>2. d \in Position
    BY <1>1, <1>2, <2>1, PlusMinus
  <2>3. t = [s EXCEPT !.a = s.c, !.c = s.d, !.fc = s.fd, !.d = d, !.open = "d"]
    BY <1>6 DEF Narrowed
  <2> HIDE DEF d
  <2>4. /\ t \in Loop /\ t.a = s.c /\ t.b = s.b /\ t.c = s.d /\ t.fc = s.fd
        /\ t.open = "d" /\ t.d = d
    BY <1>1, <2>2, <2>3 DEF Loop
  <2> QED
    BY <1>2, <1>4, <1>6, <2>1, <2>4 DEF Framed
<1> QED
  BY <1>5, <1>6

\* The side that is dropped does not hold the least value.
LEMMA NarrowingWaits ==
    ASSUME objective \in Objectives, NEW s, NEW n \in Nat, NEW A, Ready(s, n, A),
           n + 2 <= MaxTold, NEW t, t = Narrowed(s)
    PROVE  Waiting(t, n + 1, A)
<1>1. /\ Framed(s, n) /\ s.a \in Position /\ s.b \in Position /\ s.c \in Position /\ s.d \in Position
      /\ s.fc \in Int /\ s.fd \in Int
  BY DEF Ready, Framed, Loop
<1>2. /\ Framed(t, n + 1)
      /\ s.fc < s.fd => /\ t.a = s.a /\ t.b = s.d /\ t.d = s.c /\ t.fd = s.fc
                        /\ t.open = "c"
      /\ ~(s.fc < s.fd) => /\ t.a = s.c /\ t.b = s.b /\ t.c = s.d /\ t.fc = s.fd
                           /\ t.open = "d"
  BY <1>1, FrameNarrows
<1>3. /\ Value(s.a) \in Int /\ Value(s.b) \in Int /\ Value(s.c) \in Int /\ Value(s.d) \in Int
      /\ Value(s.a) < Value(s.c) /\ Value(s.d) < Value(s.b) /\ Value(s.c) < Value(s.d)
  BY <1>1, FrameOrder
<1>4. /\ objective.least \in Int
      /\ Value(s.d) <= objective.least => s.fd < s.fc
      /\ objective.least <= Value(s.c) => s.fc < s.fd
  BY <1>1, <1>3, MeasuredFacts DEF Ready
<1>5. /\ Value(s.a) <= objective.least /\ objective.least <= Value(s.b)
      /\ s.a \in A \cup {Ends.a} /\ s.b \in A \cup {Ends.b} /\ A \subseteq Position
      /\ s.c \in A /\ s.d \in A /\ s.fc = Measured(s.c) /\ s.fd = Measured(s.d)
      /\ \A p \in A : Value(p) <= Value(s.a) \/ Value(s.b) <= Value(p) \/ p = s.c \/ p = s.d
  BY DEF Ready, Between
<1>6. \A p \in A : Value(p) \in Int
  BY <1>5, PositionFacts
<1>7. CASE s.fc < s.fd
  <2>1. objective.least <= Value(s.d)
    BY <1>1, <1>3, <1>4, <1>7
  <2>2. Between(t, A)
    BY <1>2, <1>5, <1>7, <2>1 DEF Between
  <2>3. ASSUME NEW p \in A PROVE Value(p) <= Value(t.a) \/ Value(t.b) <= Value(p) \/ p = t.d
    BY <1>2, <1>3, <1>5, <1>6, <1>7
  <2> QED
    BY <1>2, <1>5, <1>7, <2>2, <2>3 DEF Waiting
<1>8. CASE ~(s.fc < s.fd)
  <2>1. Value(s.c) <= objective.least
    BY <1>1, <1>3, <1>4, <1>8
  <2>2. Between(t, A)
    BY <1>2, <1>5, <1>8, <2>1 DEF Between
  <2>3. ASSUME NEW p \in A PROVE Value(p) <= Value(t.a) \/ Value(t.b) <= Value(p) \/ p = t.c
    BY <1>2, <1>3, <1>5, <1>6, <1>8
  <2> QED
    BY <1>2, <1>5, <1>8, <2>2, <2>3 DEF Waiting
<1> QED
  BY <1>7, <1>8

\* The point asked for next is new, and its answer makes the loop ready.
LEMMA AnswerReadies ==
    ASSUME objective \in Objectives, NEW s, NEW n \in Nat, NEW A, Waiting(s, n, A),
           n + 2 <= MaxTold, NEW q, q = Pending(s), NEW t, t = Closed(s, Measured(q))
    PROVE  /\ q \in Position /\ q \notin A /\ Value(s.a) < Value(q) /\ Value(q) < Value(s.b)
           /\ Ready(t, n, A \cup {q})
<1>1. /\ Framed(s, n) /\ s \in Loop /\ s.a \in Position /\ s.b \in Position
      /\ s.c \in Position /\ s.d \in Position /\ s.fc \in Int /\ s.fd \in Int
  BY DEF Waiting, Framed, Loop
<1>2. /\ Value(s.a) \in Int /\ Value(s.b) \in Int /\ Value(s.c) \in Int /\ Value(s.d) \in Int
      /\ Value(s.a) < Value(s.c) /\ Value(s.d) < Value(s.b) /\ Value(s.c) < Value(s.d)
  BY <1>1, FrameOrder
<1>3. /\ Value(s.a) <= objective.least /\ objective.least <= Value(s.b)
      /\ s.a \in A \cup {Ends.a} /\ s.b \in A \cup {Ends.b} /\ A \subseteq Position
  BY DEF Waiting, Between
<1>4. Measured(s.c) \in Int /\ Measured(s.d) \in Int
  BY <1>1, <1>2, MeasuredFacts
<1>5. CASE s.open = "c"
  <2>1. /\ q = s.c /\ s.d \in A /\ s.fd = Measured(s.d)
        /\ \A p \in A : Value(p) <= Value(s.a) \/ Value(s.b) <= Value(p) \/ p = s.d
    BY <1>5 DEF Pending, Waiting
  <2>2. t = [s EXCEPT !.fc = Measured(s.c)]
    BY <1>5, <2>1 DEF Closed
  <2>3. /\ t \in Loop /\ t.a = s.a /\ t.b = s.b /\ t.c = s.c /\ t.d = s.d
        /\ t.fc = Measured(s.c) /\ t.fd = s.fd
    BY <1>1, <1>4, <2>2 DEF Loop
  <2>4. q \notin A
    BY <1>2, <2>1
  <2>5. Framed(t, n)
    BY <1>1, <2>3 DEF Framed
  <2>6. Between(t, A \cup {q})
    BY <1>1, <1>3, <2>1, <2>3 DEF Between
  <2> QED
    BY <1>1, <1>2, <2>1, <2>3, <2>4, <2>5, <2>6 DEF Ready
<1>6. CASE s.open = "d"
  <2>1. /\ q = s.d /\ s.c \in A /\ s.fc = Measured(s.c)
        /\ \A p \in A : Value(p) <= Value(s.a) \/ Value(s.b) <= Value(p) \/ p = s.c
    BY <1>6 DEF Pending, Waiting
  <2>2. t = [s EXCEPT !.fd = Measured(s.d)]
    BY <1>6, <2>1 DEF Closed
  <2>3. /\ t \in Loop /\ t.a = s.a /\ t.b = s.b /\ t.c = s.c /\ t.d = s.d
        /\ t.fc = s.fc /\ t.fd = Measured(s.d)
    BY <1>1, <1>4, <2>2 DEF Loop
  <2>4. q \notin A
    BY <1>2, <2>1
  <2>5. Framed(t, n)
    BY <1>1, <2>3 DEF Framed
  <2>6. Between(t, A \cup {q})
    BY <1>1, <1>3, <2>1, <2>3 DEF Between
  <2> QED
    BY <1>1, <1>2, <2>1, <2>3, <2>4, <2>5, <2>6 DEF Ready
<1> QED
  BY <1>5, <1>6 DEF Waiting

LEMMA MeasuredIsInt ==
    ASSUME objective \in Objectives, NEW p \in Position
    PROVE  Measured(p) \in Int
<1>1. PICK least \in 0..Span, left \in Nat \ {0}, right \in Nat \ {0} :
        objective.least = least /\ objective.left = left /\ objective.right = right
  BY DEF Objectives
<1>2. PICK x \in Int : x = Value(p)
  BY PositionFacts
<1>3. Measured(p) = IF x < least THEN left * (least - x) ELSE right * (x - least)
  BY <1>1, <1>2 DEF Measured
<1>4. left * (least - x) \in Int /\ right * (x - least) \in Int
  OBVIOUS
<1> QED
  BY <1>3, <1>4

\* The loop begins ready.
LEMMA OpenedIsReady ==
    ASSUME objective \in Objectives, NEW p, p = Lower(Ends.a, Ends.b), NEW q, q = Upper(Ends.a, Ends.b)
    PROVE  /\ p = Power[2] /\ q = Power[1] /\ p \in Position /\ q \in Position
           /\ Measured(p) \in Int /\ Measured(q) \in Int
           /\ Ready(Opened(Measured(p), Measured(q)), 0, {p, q})
<1>1. Power[0] = <<1, 0>> /\ Power[1] = Shrunk(Power[0]) /\ Power[2] = Shrunk(Power[1])
      /\ Power[0] \in Position /\ Power[1] \in Position /\ Power[2] \in Position
  BY PowerIs
<1>2. Power[1] = <<0, 1>>
  BY <1>1 DEF Shrunk
<1>3. Power[2] = <<1, -1>>
  BY <1>1, <1>2 DEF Shrunk
<1>4. Ends.a = <<0, 0>> /\ Ends.b = <<1, 0>>
  BY DEF Ends
<1>5. Minus(Ends.b, Ends.a) = <<1, 0>> /\ Shrunk(<<1, 0>>) = <<0, 1>>
  BY <1>4 DEF Minus, Shrunk
<1>6. p = <<1, -1>> /\ q = <<0, 1>>
  BY <1>4, <1>5 DEF Lower, Upper, Minus, Plus
<1>7. /\ Value(p) \in Int /\ Value(q) \in Int /\ Value(Ends.a) = 0 /\ Value(Ends.b) = Span
      /\ p \in Position /\ q \in Position /\ Ends.a \in Position /\ Ends.b \in Position
  BY <1>4, <1>6 DEF Value, Position
<1>8. Measured(p) \in Int /\ Measured(q) \in Int /\ objective.least \in 0..Span
  BY <1>7, MeasuredIsInt DEF Objectives
<1> DEFINE s == Opened(Measured(p), Measured(q))
<1>9. /\ s \in Loop /\ s.a = Ends.a /\ s.b = Ends.b /\ s.c = p /\ s.d = q
      /\ s.fc = Measured(p) /\ s.fd = Measured(q)
  BY <1>7, <1>8 DEF Opened, Loop
<1> HIDE DEF s
<1>10. Framed(s, 0)
  <2>1. s.b = Plus(s.a, Power[0]) /\ s.c = Plus(s.a, Power[2]) /\ s.d = Plus(s.a, Power[1])
    BY <1>1, <1>2, <1>3, <1>4, <1>6, <1>9 DEF Plus
  <2> QED
    BY <1>9, <2>1 DEF Framed
<1>11. Between(s, {p, q})
  BY <1>7, <1>8, <1>9 DEF Between
<1>12. Ready(s, 0, {p, q})
  BY <1>9, <1>10, <1>11 DEF Ready
<1> QED
  BY <1>2, <1>3, <1>6, <1>7, <1>8, <1>12 DEF s

-----------------------------------------------------------------------------
(* The method of a search: the loop over the answers *)

LEMMA WholeUnits == Span \in Nat /\ InvPhi \in Nat /\ MaxTold \in Nat
BY GoldenAssumption

HIDE GoldenAssumption
USE WholeUnits

LEMMA LoopStays ==
    /\ \A s \in Loop : Narrowed(s) \in Loop
    /\ \A s \in Loop, v \in Int : Closed(s, v) \in Loop
    /\ \A u \in Int, v \in Int : Opened(u, v) \in Loop
<1>1. \A p \in Position, q \in Position : Lower(p, q) \in Position /\ Upper(p, q) \in Position
  <2> TAKE p \in Position, q \in Position
  <2>1. Minus(q, p) \in Position
    BY PositionFacts
  <2>2. Shrunk(Minus(q, p)) \in Position
    BY <2>1, PositionFacts
  <2> QED
    BY <2>2, PositionFacts DEF Lower, Upper
<1>2. ASSUME NEW s \in Loop PROVE Narrowed(s) \in Loop
  <2>1. /\ s.a \in Position /\ s.b \in Position /\ s.c \in Position /\ s.d \in Position
        /\ s.fc \in Int /\ s.fd \in Int
    BY DEF Loop
  <2>2. Lower(s.a, s.d) \in Position /\ Upper(s.c, s.b) \in Position
    BY <1>1, <2>1
  <2> QED
    BY <2>1, <2>2 DEF Narrowed, Loop
<1>3. \A s \in Loop, v \in Int : Closed(s, v) \in Loop
  BY DEF Closed, Loop
<1>4. Ends.a \in Position /\ Ends.b \in Position
  BY DEF Ends, Position
<1>5. \A u \in Int, v \in Int : Opened(u, v) \in Loop
  BY <1>1, <1>4 DEF Opened, Loop
<1> QED
  BY <1>2, <1>3, <1>5

\* What walk is, for the answers x.
Walks(f, x) ==
    /\ f \in [2..Len(x) -> Loop]
    /\ f[2] = Narrowed(Opened(x[1], x[2]))
    /\ \A n \in 3..Len(x) : f[n] = Narrowed(Closed(f[n - 1], x[n]))

LEMMA WalkUnfolds ==
    ASSUME NEW x \in Seq(Int), Len(x) >= 2
    PROVE  \E f : Walks(f, x) /\ Walked(x) = f[Len(x)]
<1> DEFINE N == Len(x)
           first == Narrowed(Opened(x[1], x[2]))
           G == [z \in Nat \X Loop |->
                   IF z[1] + 3 <= N THEN Narrowed(Closed(z[2], x[z[1] + 3])) ELSE z[2]]
<1>1. N \in Nat /\ N >= 2 /\ \A n \in 1..N : x[n] \in Int
  OBVIOUS
<1>2. first \in Loop
  BY <1>1, LoopStays
<1>3. PICK H \in [Nat \X Loop -> Loop] :
        \A n \in Nat, s \in Loop : n + 3 <= N => H[<<n, s>>] = Narrowed(Closed(s, x[n + 3]))
  <2>1. ASSUME NEW n \in Nat, NEW s \in Loop, n + 3 <= N
        PROVE  Narrowed(Closed(s, x[n + 3])) \in Loop
    <3>1. x[n + 3] \in Int
      BY <1>1, <2>1
    <3> QED
      BY <3>1, LoopStays
  <2>2. G \in [Nat \X Loop -> Loop]
    BY <2>1
  <2>3. \A n \in Nat, s \in Loop : n + 3 <= N => G[<<n, s>>] = Narrowed(Closed(s, x[n + 3]))
    OBVIOUS
  <2> HIDE DEF G
  <2> QED
    BY <2>2, <2>3, Zenon
<1> HIDE DEF first, N
<1>4. PICK g \in [Nat -> Loop] : g[0] = first /\ \A n \in Nat : g[n + 1] = H[<<n, g[n]>>]
  <2>1. \E g \in [Nat -> Loop] : Iterates(g, first, H)
    BY <1>2, RecursionWorks, Zenon
  <2> QED
    BY <2>1 DEF Iterates
<1>5. \A n \in Nat : g[n] \in Loop
  OBVIOUS
<1>6. \A n \in Nat : n + 3 <= N => g[n + 1] = Narrowed(Closed(g[n], x[n + 3]))
  BY <1>3, <1>4, <1>5
<1> DEFINE f == [n \in 2..N |-> g[n - 2]]
           Rule(h) == [n \in 2..N |-> IF n = 2 THEN first ELSE Narrowed(Closed(h[n - 1], x[n]))]
<1>7. f = Rule(f)
  <2>1. ASSUME NEW n \in 2..N
        PROVE  f[n] = IF n = 2 THEN first ELSE Narrowed(Closed(f[n - 1], x[n]))
    <3>1. CASE n = 2
      BY <1>4, <3>1
    <3>2. CASE n # 2
      <4>1. n - 3 \in Nat /\ (n - 3) + 3 = n /\ (n - 3) + 1 = n - 2 /\ (n - 1) - 2 = n - 3
            /\ n - 1 \in 2..N /\ n <= N
        BY <1>1, <3>2
      <4>2. g[n - 2] = Narrowed(Closed(g[n - 3], x[n]))
        BY <1>6, <4>1
      <4>3. f[n - 1] = g[n - 3]
        BY <4>1
      <4> QED
        BY <3>2, <4>2, <4>3
    <3> QED
      BY <3>1, <3>2
  <2> QED
    BY <2>1
<1>8. PICK w : w = CHOOSE h : h = Rule(h)
  OBVIOUS
<1>9. w = Rule(w)
  BY <1>7, <1>8, Zenon
<1>10. Walked(x) = w[N]
  BY <1>8 DEF Walked, first, N
<1>11. \A n \in 2..N : w[n] = IF n = 2 THEN first ELSE Narrowed(Closed(w[n - 1], x[n]))
  BY <1>9
<1>12. DOMAIN w = 2..N
  BY <1>9
<1>13. \A n \in 2..N : w[n] \in Loop
  <2> DEFINE T == {k \in Nat : k + 2 <= N => w[k + 2] \in Loop}
  <2>1. 0 \in T
    BY <1>1, <1>2, <1>11
  <2>2. ASSUME NEW k \in T PROVE k + 1 \in T
    <3> SUFFICES ASSUME (k + 1) + 2 <= N PROVE w[(k + 1) + 2] \in Loop
      OBVIOUS
    <3>1. /\ k + 2 \in 2..N /\ k + 3 \in 2..N /\ k + 3 # 2 /\ (k + 3) - 1 = k + 2
          /\ (k + 1) + 2 = k + 3 /\ k + 2 <= N
      BY <1>1
    <3>2. w[k + 2] \in Loop /\ x[k + 3] \in Int
      BY <1>1, <3>1
    <3>3. w[k + 3] = Narrowed(Closed(w[k + 2], x[k + 3]))
      BY <1>11, <3>1
    <3> QED
      BY <3>1, <3>2, <3>3, LoopStays
  <2>3. T \subseteq Nat
    OBVIOUS
  <2> HIDE DEF T
  <2>4. T = Nat
    BY <2>1, <2>2, <2>3, EveryNumber
  <2>5. ASSUME NEW n \in 2..N PROVE w[n] \in Loop
    <3>1. n - 2 \in T /\ (n - 2) + 2 = n /\ n <= N
      BY <1>1, <2>4
    <3> QED
      BY <3>1 DEF T
  <2> QED
    BY <2>5
<1>14. w \in [2..N -> Loop]
  BY <1>9, <1>12, <1>13
<1>15. w[2] = first /\ \A n \in 3..N : w[n] = Narrowed(Closed(w[n - 1], x[n]))
  BY <1>1, <1>11
<1> QED
  BY <1>10, <1>14, <1>15 DEF Walks, N, first

\* The walk over two answers, and over one more.
LEMMA WalkBegins ==
    ASSUME NEW x \in Seq(Int), Len(x) = 2
    PROVE  Walked(x) = Narrowed(Opened(x[1], x[2]))
<1>1. Len(x) >= 2
  OBVIOUS
<1>2. PICK f : Walks(f, x) /\ Walked(x) = f[Len(x)]
  BY <1>1, WalkUnfolds
<1> QED
  BY <1>2 DEF Walks

LEMMA WalkGoesOn ==
    ASSUME NEW x \in Seq(Int), Len(x) >= 2, NEW v \in Int
    PROVE  Walked(Append(x, v)) = Narrowed(Closed(Walked(x), v))
<1> DEFINE N == Len(x)
           y == Append(x, v)
<1>1. /\ N \in Nat /\ N >= 2 /\ y \in Seq(Int) /\ Len(y) = N + 1 /\ y[N + 1] = v
      /\ \A n \in 1..N : y[n] = x[n]
  OBVIOUS
<1>2. PICK f : Walks(f, x) /\ Walked(x) = f[N]
  BY WalkUnfolds
<1> HIDE DEF y
<1>3. PICK g : Walks(g, y) /\ Walked(y) = g[N + 1]
  <2>1. y \in Seq(Int) /\ Len(y) >= 2 /\ Len(y) = N + 1
    BY <1>1
  <2>2. \E g : Walks(g, y) /\ Walked(y) = g[Len(y)]
    BY <2>1, WalkUnfolds
  <2> QED
    BY <2>1, <2>2
<1> HIDE DEF N
<1>4. f[2] = Narrowed(Opened(x[1], x[2])) /\ \A n \in 3..N : f[n] = Narrowed(Closed(f[n - 1], x[n]))
  BY <1>2 DEF Walks, N
<1>5. /\ g[2] = Narrowed(Opened(y[1], y[2]))
      /\ \A n \in 3..(N + 1) : g[n] = Narrowed(Closed(g[n - 1], y[n]))
  BY <1>1, <1>3 DEF Walks
<1>6. g[N] = f[N]
  <2> DEFINE T == {k \in Nat : k + 2 <= N => g[k + 2] = f[k + 2]}
  <2>1. 0 \in T
    <3>1. y[1] = x[1] /\ y[2] = x[2]
      BY <1>1
    <3> QED
      BY <1>4, <1>5, <3>1
  <2>2. ASSUME NEW k \in T PROVE k + 1 \in T
    <3> SUFFICES ASSUME (k + 1) + 2 <= N PROVE g[(k + 1) + 2] = f[(k + 1) + 2]
      OBVIOUS
    <3>0. k \in Nat /\ N \in Nat
      BY <1>1
    <3>1. /\ k + 3 \in 3..N /\ k + 3 \in 3..(N + 1) /\ (k + 3) - 1 = k + 2 /\ k + 3 \in 1..N
          /\ (k + 1) + 2 = k + 3 /\ k + 2 <= N
      BY <3>0
    <3>2. g[k + 2] = f[k + 2] /\ y[k + 3] = x[k + 3]
      BY <1>1, <3>1
    <3>3. g[k + 3] = Narrowed(Closed(g[k + 2], y[k + 3])) /\ f[k + 3] = Narrowed(Closed(f[k + 2], x[k + 3]))
      BY <1>4, <1>5, <3>1
    <3> QED
      BY <3>1, <3>2, <3>3
  <2>3. T \subseteq Nat
    OBVIOUS
  <2> HIDE DEF T
  <2>4. T = Nat
    BY <2>1, <2>2, <2>3, EveryNumber
  <2>5. N - 2 \in T /\ (N - 2) + 2 = N /\ N <= N
    BY <1>1, <2>4
  <2> QED
    BY <2>5 DEF T
<1>7. g[N + 1] = Narrowed(Closed(g[N], v))
  <2>1. N + 1 \in 3..(N + 1) /\ (N + 1) - 1 = N
    BY <1>1
  <2> QED
    BY <1>1, <1>5, <2>1
<1> QED
  BY <1>2, <1>3, <1>6, <1>7 DEF y

-----------------------------------------------------------------------------
(* The method of a search: the points asked for *)

\* The points asked for on the way to the answers x.
Asked(x, i) == NextPoint(SubSeq(x, 1, i - 1))
AllAsked(x) == {Asked(x, i) : i \in 1..Len(x)}

\* The answers x are those of the objective, at points that are all different.
Good(x) ==
    /\ x \in Seq(Int)
    /\ \A i \in 1..Len(x) :
         /\ Asked(x, i) \in Position /\ x[i] = Measured(Asked(x, i))
         /\ 0 <= Value(Asked(x, i)) /\ Value(Asked(x, i)) <= Span
    /\ \A i, j \in 1..Len(x) : i # j => Asked(x, i) # Asked(x, j)
    /\ Len(x) >= 2 => Waiting(Walked(x), Len(x) - 1, AllAsked(x))

LEMMA OneAnswerMore ==
    ASSUME NEW x \in Seq(Int), NEW v \in Int, NEW y, y = Append(x, v)
    PROVE  /\ y \in Seq(Int) /\ Len(y) = Len(x) + 1 /\ y[Len(x) + 1] = v
           /\ \A i \in 1..Len(x) : y[i] = x[i]
           /\ \A i \in 1..Len(y) : i \in 1..Len(x) \/ i = Len(x) + 1
OBVIOUS

LEMMA AskedGrows ==
    ASSUME NEW x \in Seq(Int), NEW v \in Int
    PROVE  /\ \A i \in 1..Len(x) : Asked(Append(x, v), i) = Asked(x, i)
           /\ Asked(Append(x, v), Len(x) + 1) = NextPoint(x)
           /\ AllAsked(Append(x, v)) = AllAsked(x) \cup {NextPoint(x)}
<1> DEFINE y == Append(x, v)
<1>1. y \in Seq(Int) /\ Len(y) = Len(x) + 1 /\ Len(x) \in Nat
  OBVIOUS
<1>2. ASSUME NEW i \in 1..Len(x) PROVE Asked(y, i) = Asked(x, i)
  <2>1. SubSeq(y, 1, i - 1) = SubSeq(x, 1, i - 1)
    OBVIOUS
  <2> QED
    BY <2>1 DEF Asked
<1>3. Asked(y, Len(x) + 1) = NextPoint(x)
  <2>1. SubSeq(y, 1, (Len(x) + 1) - 1) = x
    OBVIOUS
  <2> QED
    BY <2>1 DEF Asked
<1> HIDE DEF y
<1>4. 1..Len(y) = 1..Len(x) \cup {Len(x) + 1}
  BY <1>1
<1>5. AllAsked(y) = AllAsked(x) \cup {NextPoint(x)}
  BY <1>2, <1>3, <1>4 DEF AllAsked
<1> QED
  BY <1>2, <1>3, <1>5 DEF y

LEMMA EndsFacts ==
    /\ Ends.a \in Position /\ Ends.b \in Position /\ Value(Ends.a) = 0 /\ Value(Ends.b) = Span
    /\ Value(Power[0]) = Span /\ Value(Power[1]) = InvPhi /\ Value(Power[2]) = Span - InvPhi
<1>1. Power[0] = <<1, 0>> /\ Power[1] = Shrunk(Power[0]) /\ Power[2] = Shrunk(Power[1])
  BY PowerIs
<1>2. Power[1] = <<0, 1>>
  BY <1>1 DEF Shrunk
<1>3. Power[2] = <<1, -1>>
  BY <1>2, <1>1 DEF Shrunk
<1>4. Ends.a = <<0, 0>> /\ Ends.b = <<1, 0>>
  BY DEF Ends
<1> QED
  BY <1>1, <1>2, <1>3, <1>4 DEF Value, Position

\* The next point lies in the bracket and is new, and its answer leads on.
LEMMA NextIsNew ==
    ASSUME objective \in Objectives, NEW x, Good(x), Len(x) < MaxTold,
           NEW q, q = NextPoint(x), NEW v, v = Measured(q)
    PROVE  /\ q \in Position /\ q \notin AllAsked(x) /\ v \in Int
           /\ 0 <= Value(q) /\ Value(q) <= Span
           /\ Len(x) >= 1 => Waiting(Walked(Append(x, v)), Len(x), AllAsked(x) \cup {q})
<1> DEFINE first == Lower(Ends.a, Ends.b)
           second == Upper(Ends.a, Ends.b)
<1>0. PICK L : L = Len(x)
  OBVIOUS
<1>1. x \in Seq(Int) /\ L \in Nat /\ L = Len(x) /\ L < MaxTold
  BY <1>0 DEF Good
<1>2. /\ first = Power[2] /\ second = Power[1] /\ first \in Position /\ second \in Position
      /\ Measured(first) \in Int /\ Measured(second) \in Int
      /\ Ready(Opened(Measured(first), Measured(second)), 0, {first, second})
  BY OpenedIsReady
<1>3. /\ Value(Power[1]) > 0 /\ Value(Power[2]) > 0
  BY <1>1, 1 \in 0..(MaxTold + 1), 2 \in 0..(MaxTold + 1), GoldenAssumption
<1>4. /\ 0 <= Value(first) /\ Value(first) <= Span
      /\ 0 <= Value(second) /\ Value(second) <= Span
  BY <1>2, <1>3, EndsFacts
<1> HIDE DEF first, second
<1>5. CASE L = 0
  <2>1. x = <<>> /\ q = first
    <3>1. Len(x) = 0 /\ x \in Seq(Int)
      BY <1>1, <1>5
    <3>2. x = <<>>
      BY <3>1
    <3> QED
      BY <3>2 DEF NextPoint, first
  <2>2. AllAsked(x) = {}
    BY <2>1 DEF AllAsked
  <2> QED
    BY <1>1, <1>2, <1>4, <1>5, <2>1, <2>2
<1>6. CASE L = 1
  <2>1. q = second /\ x # <<>>
    <3>1. Len(<<>>) = 0
      OBVIOUS
    <3>2. Len(x) = 1
      BY <1>1, <1>6
    <3>3. x # <<>>
      BY <3>1, <3>2
    <3> QED
      BY <3>2, <3>3 DEF NextPoint, second
  <2>2. Asked(x, 1) = first
    <3>1. SubSeq(x, 1, 1 - 1) = <<>>
      BY <1>1
    <3> QED
      BY <3>1 DEF Asked, NextPoint, first
  <2>3. AllAsked(x) = {first} /\ x[1] = Measured(first)
    BY <1>1, <1>6, <2>2 DEF AllAsked, Good
  <2>4. first # second
    <3>1. Value(Power[3]) > 0
      BY <1>1, <1>6, 3 \in 0..(MaxTold + 1), GoldenAssumption
    <3>2. Value(Power[1 + 2]) = Value(Power[1]) - Value(Power[1 + 1])
      BY PowersShrink
    <3> QED
      BY <1>2, <3>1, <3>2, EndsFacts
  <2>5. v \in Int
    BY <1>2, <2>1
  <2>6. Walked(Append(x, v)) = Narrowed(Opened(Measured(first), Measured(second)))
    <3>1. PICK y : y = Append(x, v)
      OBVIOUS
    <3>2. x \in Seq(Int) /\ Len(x) = 1
      BY <1>1, <1>6
    <3>3. y \in Seq(Int) /\ Len(y) = 2 /\ y[1] = x[1] /\ y[2] = v
      <4>1. /\ y \in Seq(Int) /\ Len(y) = Len(x) + 1 /\ y[Len(x) + 1] = v
            /\ \A i \in 1..Len(x) : y[i] = x[i]
        BY <2>5, <3>1, <3>2, OneAnswerMore
      <4> QED
        BY <3>2, <4>1
    <3>4. Walked(y) = Narrowed(Opened(y[1], y[2]))
      BY <3>3, WalkBegins
    <3> QED
      BY <2>1, <2>3, <3>1, <3>3, <3>4
  <2>7. Waiting(Walked(Append(x, v)), 0 + 1, {first, second})
    <3>1. 0 + 2 <= MaxTold
      BY <1>1, <1>6
    <3> QED
      BY <1>2, <2>6, <3>1, NarrowingWaits
  <2>8. AllAsked(x) \cup {q} = {first, second} /\ 0 + 1 = L
    BY <1>1, <1>6, <2>1, <2>3
  <2> QED
    BY <1>1, <1>2, <1>4, <2>1, <2>3, <2>4, <2>5, <2>7, <2>8
<1>7. CASE L >= 2
  <2>1. PICK s : s = Walked(x)
    OBVIOUS
  <2>2. q = Pending(s)
    <3>1. x # <<>> /\ Len(x) # 1
      <4>1. Len(<<>>) = 0
        OBVIOUS
      <4>2. L # 0 /\ L # 1
        BY <1>1, <1>7
      <4> QED
        BY <1>1, <4>1, <4>2
    <3> QED
      BY <2>1, <3>1 DEF NextPoint, Pending
  <2>3. Waiting(s, L - 1, AllAsked(x)) /\ L - 1 \in Nat /\ (L - 1) + 2 <= MaxTold
    BY <1>1, <1>7, <2>1 DEF Good
  <2>4. /\ q \in Position /\ q \notin AllAsked(x)
        /\ Value(s.a) < Value(q) /\ Value(q) < Value(s.b)
        /\ Ready(Closed(s, Measured(q)), L - 1, AllAsked(x) \cup {q})
    BY <2>2, <2>3, AnswerReadies
  <2>5. v \in Int
    BY <2>4, MeasuredIsInt
  <2>6. Walked(Append(x, v)) = Narrowed(Closed(s, v))
    BY <1>1, <1>7, <2>1, <2>5, WalkGoesOn
  <2>7. Waiting(Walked(Append(x, v)), (L - 1) + 1, AllAsked(x) \cup {q})
    BY <2>3, <2>4, <2>6, NarrowingWaits
  <2>8. (L - 1) + 1 = L
    BY <1>1
  <2>9. \A p \in AllAsked(x) : 0 <= Value(p) /\ Value(p) <= Span
    BY DEF AllAsked, Good
  <2>10. 0 <= Value(s.a) /\ Value(s.b) <= Span
    BY <2>3, <2>9, EndsFacts DEF Waiting, Between
  <2>11. Value(q) \in Int /\ Value(s.a) \in Int /\ Value(s.b) \in Int
    BY <2>3, <2>4, PositionFacts DEF Waiting, Framed, Loop
  <2> QED
    BY <1>1, <2>4, <2>5, <2>7, <2>8, <2>10, <2>11
<1>8. L = 0 \/ L = 1 \/ L >= 2
  <2>1. \A k \in Nat : k = 0 \/ k = 1 \/ k >= 2
    OBVIOUS
  <2> QED
    BY <1>1, <2>1
<1> QED
  BY <1>5, <1>6, <1>7, <1>8

LEMMA GoodGoesOn ==
    ASSUME objective \in Objectives, NEW x, Good(x), Len(x) < MaxTold,
           NEW v, v = Measured(NextPoint(x))
    PROVE  Good(Append(x, v))
<1> DEFINE y == Append(x, v)
<1>1. PICK q : q = NextPoint(x)
  OBVIOUS
<1>2. /\ q \in Position /\ q \notin AllAsked(x) /\ v \in Int
      /\ 0 <= Value(q) /\ Value(q) <= Span
      /\ Len(x) >= 1 => Waiting(Walked(y), Len(x), AllAsked(x) \cup {q})
  BY <1>1, NextIsNew
<1>3. /\ x \in Seq(Int) /\ y \in Seq(Int) /\ Len(y) = Len(x) + 1 /\ y[Len(x) + 1] = v
      /\ \A i \in 1..Len(x) : y[i] = x[i]
      /\ \A i \in 1..Len(y) : i \in 1..Len(x) \/ i = Len(x) + 1
      /\ Len(x) \in Nat
  BY <1>2 DEF Good
<1>4. /\ \A i \in 1..Len(x) : Asked(y, i) = Asked(x, i)
      /\ Asked(y, Len(x) + 1) = q
      /\ AllAsked(y) = AllAsked(x) \cup {q}
  BY <1>1, <1>2, <1>3, AskedGrows
<1> HIDE DEF y
<1>5. \A i \in 1..Len(y) :
        /\ Asked(y, i) \in Position /\ y[i] = Measured(Asked(y, i))
        /\ 0 <= Value(Asked(y, i)) /\ Value(Asked(y, i)) <= Span
  BY <1>1, <1>2, <1>3, <1>4 DEF Good
<1>6. ASSUME NEW i \in 1..Len(y), NEW j \in 1..Len(y), i # j PROVE Asked(y, i) # Asked(y, j)
  <2>1. \A k \in 1..Len(x) : Asked(x, k) \in AllAsked(x)
    BY DEF AllAsked
  <2>2. \A k, l \in 1..Len(x) : k # l => Asked(x, k) # Asked(x, l)
    BY DEF Good
  <2> QED
    BY <1>2, <1>3, <1>4, <1>6, <2>1, <2>2
<1>7. Len(y) >= 2 => Waiting(Walked(y), Len(y) - 1, AllAsked(y))
  <2>1. Len(y) - 1 = Len(x)
    BY <1>3
  <2> QED
    BY <1>2, <1>3, <1>4, <2>1
<1>8. Good(y)
  BY <1>3, <1>5, <1>6, <1>7 DEF Good
<1> QED
  BY <1>8 DEF y

\* How wide the bracket is.
LEMMA WidthIs ==
    ASSUME NEW x, Good(x), Len(x) >= 1
    PROVE  Width(BracketOf(x)) = Value(Power[Len(x) - 1])
<1>1. x \in Seq(Int) /\ Len(x) \in Nat
  BY DEF Good
<1>2. CASE Len(x) = 1
  <2>1. Len(x) - 1 = 0 /\ Len(x) < 2
    BY <1>2
  <2>2. BracketOf(x) = Ends
    BY <2>1 DEF BracketOf
  <2>3. Value(Ends.b) - Value(Ends.a) = Span
    BY EndsFacts
  <2> QED
    BY <2>1, <2>2, <2>3, EndsFacts DEF Width
<1>3. CASE Len(x) >= 2
  <2>1. PICK s : s = Walked(x)
    OBVIOUS
  <2>2. Framed(s, Len(x) - 1) /\ Len(x) - 1 \in Nat
    BY <1>1, <1>3, <2>1 DEF Good, Waiting
  <2>3. PICK w \in Position : w = Power[Len(x) - 1]
    BY <2>2, PowerIs
  <2>4. s.a \in Position /\ s.b = Plus(s.a, w)
    BY <2>2, <2>3 DEF Framed, Loop
  <2>5. /\ Value(Plus(s.a, w)) = Value(s.a) + Value(w)
        /\ Value(s.a) \in Int /\ Value(w) \in Int
    BY <2>4, PositionFacts
  <2>6. BracketOf(x).a = s.a /\ BracketOf(x).b = s.b
    BY <1>1, <1>3, <2>1 DEF BracketOf
  <2> QED
    BY <2>3, <2>4, <2>5, <2>6 DEF Width
<1>4. Len(x) = 1 \/ Len(x) >= 2
  <2>1. \A k \in Nat : k >= 1 => k = 1 \/ k >= 2
    OBVIOUS
  <2> QED
    BY <1>1, <2>1
<1> QED
  BY <1>2, <1>3, <1>4

GoldenInv ==
    /\ objective \in Objectives /\ told \in Seq(Int) /\ Len(told) <= MaxTold
    /\ \A k \in 0..Len(told) : \A x : x = SubSeq(told, 1, k) =>
         Good(x) /\ (k # Len(told) => ~Located(x))

LEMMA GoodEmpty == Good(<<>>)
BY DEF Good

\* While the question stays, so does what was learnt.
LEMMA SameQuestion ==
    ASSUME objective' = objective, NEW x
    PROVE  (Good(x) => Good(x)') /\ (Located(x)' => Located(x))
<1>1. Located(x)' => Located(x)
  BY DEF Located
<1>2. ASSUME NEW p PROVE Measured(p)' = Measured(p)
  BY DEF Measured
<1>3. Good(x) => Good(x)'
  BY <1>2 DEF Good, Waiting, Between
<1> QED
  BY <1>1, <1>3

-----------------------------------------------------------------------------
(* The method of a search: it is sound *)

\* The beginnings of the answers.
LEMMA Beginnings ==
    ASSUME NEW x \in Seq(Int), NEW k \in 0..Len(x), NEW z, z = SubSeq(x, 1, k)
    PROVE  z \in Seq(Int) /\ Len(z) = k /\ (k = Len(x) => z = x)
OBVIOUS

LEMMA BeginningStays ==
    ASSUME NEW x \in Seq(Int), NEW v \in Int, NEW k \in 0..Len(x)
    PROVE  SubSeq(Append(x, v), 1, k) = SubSeq(x, 1, k)
OBVIOUS

LEMMA GoldenInvHolds == GoldenSpec => []GoldenInv
<1>1. GoldenInit => GoldenInv
  <2> SUFFICES ASSUME GoldenInit PROVE GoldenInv
    OBVIOUS
  <2>1. told = <<>> /\ objective \in Objectives
    BY DEF GoldenInit
  <2>2. told \in Seq(Int) /\ Len(told) = 0
    BY <2>1
  <2>3. ASSUME NEW k \in 0..Len(told), NEW x, x = SubSeq(told, 1, k)
        PROVE  Good(x) /\ (k # Len(told) => ~Located(x))
    <3>1. k = Len(told)
      BY <2>2
    <3>2. x = told
      BY <2>2, <2>3, <3>1, Beginnings
    <3> QED
      BY <2>1, <3>1, <3>2, GoodEmpty
  <2> QED
    BY <2>1, <2>2, <2>3 DEF GoldenInv
<1>2. GoldenInv /\ [GoldenNext]_goldenVars => GoldenInv'
  <2> SUFFICES ASSUME GoldenInv, [GoldenNext]_goldenVars PROVE GoldenInv'
    OBVIOUS
  <2>1. CASE Tell
    <3>1. PICK x, L, v : x = told /\ L = Len(x) /\ v = Measured(NextPoint(x))
      OBVIOUS
    <3>2. /\ x \in Seq(Int) /\ L \in Nat /\ objective \in Objectives
          /\ \A k \in 0..L : \A z : z = SubSeq(x, 1, k) => Good(z) /\ (k # L => ~Located(z))
      BY <3>1 DEF GoldenInv
    <3>3. L < MaxTold /\ ~Located(x) /\ told' = Append(x, v) /\ objective' = objective
      BY <2>1, <3>1 DEF Tell
    <3>4. Good(x)
      <4>1. L \in 0..L /\ SubSeq(x, 1, L) = x
        BY <3>1, <3>2, Beginnings
      <4> QED
        BY <3>2, <4>1
    <3>5. PICK y : y = Append(x, v)
      OBVIOUS
    <3>6. Good(y)
      BY <3>1, <3>2, <3>3, <3>4, <3>5, GoodGoesOn
    <3>7. v \in Int
      BY <3>1, <3>2, <3>3, <3>4, NextIsNew
    <3>8. y \in Seq(Int) /\ Len(y) = L + 1
      BY <3>1, <3>2, <3>5, <3>7, OneAnswerMore
    <3>9. told' = y
      BY <3>3, <3>5
    <3>10. ASSUME NEW k \in 0..(L + 1), NEW z, z = SubSeq(y, 1, k)
           PROVE  Good(z)' /\ (k # L + 1 => ~Located(z)')
      <4>1. CASE k = L + 1
        <5>1. z = y
          BY <3>8, <3>10, <4>1, Beginnings
        <5> QED
          BY <3>3, <3>6, <4>1, <5>1, SameQuestion
      <4>2. CASE k # L + 1
        <5>1. k \in 0..L
          BY <3>2, <4>2
        <5>2. z = SubSeq(x, 1, k)
          BY <3>1, <3>2, <3>5, <3>7, <3>10, <5>1, BeginningStays
        <5>3. Good(z) /\ (k # L => ~Located(z))
          BY <3>2, <5>1, <5>2
        <5>4. k = L => z = x
          BY <3>1, <3>2, <5>1, <5>2, Beginnings
        <5>5. ~Located(z)
          BY <3>3, <5>3, <5>4
        <5> QED
          BY <3>3, <5>3, <5>5, SameQuestion
      <4> QED
        BY <4>1, <4>2
    <3>11. objective' \in Objectives'
      BY <3>2, <3>3 DEF Objectives
    <3>12. L + 1 <= MaxTold
      BY <3>2, <3>3
    <3> QED
      BY <3>8, <3>9, <3>10, <3>11, <3>12 DEF GoldenInv
  <2>2. CASE UNCHANGED goldenVars
    <3>1. objective' = objective /\ told' = told
      BY <2>2 DEF goldenVars
    <3>2. PICK x : x = told
      OBVIOUS
    <3>3. /\ x \in Seq(Int) /\ objective \in Objectives /\ Len(x) <= MaxTold
          /\ \A k \in 0..Len(x) : \A z : z = SubSeq(x, 1, k) => Good(z) /\ (k # Len(x) => ~Located(z))
      BY <3>2 DEF GoldenInv
    <3>4. ASSUME NEW k \in 0..Len(x), NEW z, z = SubSeq(x, 1, k)
          PROVE  Good(z)' /\ (k # Len(x) => ~Located(z)')
      BY <3>1, <3>3, <3>4, SameQuestion
    <3>5. objective' \in Objectives'
      BY <3>1, <3>3 DEF Objectives
    <3> QED
      BY <3>1, <3>2, <3>3, <3>4, <3>5 DEF GoldenInv
  <2> QED
    BY <2>1, <2>2 DEF GoldenNext
<1> QED
  BY <1>1, <1>2, PTL DEF GoldenSpec

\* The bracket shrinks with each answer after the first.
LEMMA BracketShrinks ==
    ASSUME NEW x \in Seq(Int), NEW i \in 2..Len(x), Len(x) <= MaxTold,
           NEW y, y = SubSeq(x, 1, i), Good(y), NEW z, z = SubSeq(x, 1, i - 1), Good(z)
    PROVE  /\ Width(BracketOf(y)) \in Int /\ Width(BracketOf(z)) \in Int
           /\ Width(BracketOf(y)) < Width(BracketOf(z))
<1>1. i \in 0..Len(x) /\ i - 1 \in 0..Len(x) /\ i - 2 \in Nat /\ (i - 2) + 1 = i - 1 /\ (i - 2) + 2 = i
      /\ i >= 1 /\ i - 1 >= 1 /\ (i - 1) - 1 = i - 2 /\ i \in 0..(MaxTold + 1)
  OBVIOUS
<1>2. Len(y) = i /\ Len(z) = i - 1
  BY <1>1, Beginnings
<1>3. Width(BracketOf(y)) = Value(Power[i - 1]) /\ Width(BracketOf(z)) = Value(Power[i - 2])
  BY <1>1, <1>2, WidthIs
<1>4. Value(Power[i]) > 0
  BY <1>1, GoldenAssumption
<1>5. /\ Value(Power[(i - 2) + 2]) = Value(Power[i - 2]) - Value(Power[(i - 2) + 1])
      /\ Value(Power[i - 2]) \in Int
  BY <1>1, PowersShrink
<1>6. Value(Power[i - 1]) \in Int
  BY <1>1, PowersShrink, i - 1 \in Nat
<1> QED
  BY <1>1, <1>3, <1>4, <1>5, <1>6

\* The best point is never cut off.
LEMMA BestIsInside ==
    ASSUME objective \in Objectives, Good(told), NEW i \in 1..Len(told),
           \A j \in 1..Len(told) : told[i] <= told[j]
    PROVE  LET k == BracketOf(told)
           IN  Value(k.a) <= Value(AskedAt(i)) /\ Value(AskedAt(i)) <= Value(k.b)
<1>1. PICK p, k : p = AskedAt(i) /\ k = BracketOf(told)
  OBVIOUS
<1>2. told \in Seq(Int) /\ Len(told) \in Nat
  BY DEF Good
<1>3. /\ p \in Position /\ told[i] = Measured(p) /\ 0 <= Value(p) /\ Value(p) <= Span
      /\ Value(p) \in Int
  <2>1. p = Asked(told, i)
    BY <1>1 DEF AskedAt, Asked
  <2> QED
    BY <2>1, PositionFacts DEF Good
<1>4. CASE ~(Len(told) >= 2)
  <2>1. Len(told) < 2
    BY <1>2, <1>4
  <2>2. k = Ends
    BY <1>1, <2>1 DEF BracketOf
  <2> QED
    BY <1>1, <1>3, <2>2, EndsFacts
<1>5. CASE Len(told) >= 2
  <2>1. PICK s : s = Walked(told)
    OBVIOUS
  <2>2. Waiting(s, Len(told) - 1, AllAsked(told))
    BY <1>5, <2>1 DEF Good
  <2>3. ~(Len(told) < 2)
    BY <1>2, <1>5
  <2>4. k.a = s.a /\ k.b = s.b
    BY <1>1, <2>1, <2>3 DEF BracketOf
  <2>5. /\ Value(s.a) <= objective.least /\ objective.least <= Value(s.b)
        /\ s.a \in AllAsked(told) \cup {Ends.a} /\ s.b \in AllAsked(told) \cup {Ends.b}
        /\ s.a \in Position /\ s.b \in Position /\ Value(s.a) \in Int /\ Value(s.b) \in Int
    BY <2>2, PositionFacts DEF Waiting, Between, Framed, Loop
  <2>6. ASSUME NEW q \in AllAsked(told) PROVE ~(Measured(q) < Measured(p)) /\ Measured(q) \in Int
    <3>1. PICK j \in 1..Len(told) : q = Asked(told, j)
      BY <2>6 DEF AllAsked
    <3>2. told[j] = Measured(q) /\ told[i] <= told[j] /\ told[i] \in Int /\ told[j] \in Int
      BY <1>2, <3>1 DEF Good
    <3> QED
      BY <1>3, <3>2
  <2>7. Value(s.a) <= Value(p)
    <3> SUFFICES ASSUME Value(p) < Value(s.a) PROVE FALSE
      BY <1>3, <2>5
    <3>1. s.a \in AllAsked(told)
      BY <1>3, <2>5, EndsFacts
    <3>2. Measured(s.a) < Measured(p)
      BY <1>3, <2>5, MeasuredFacts
    <3> QED
      BY <2>6, <3>1, <3>2
  <2>8. Value(p) <= Value(s.b)
    <3> SUFFICES ASSUME Value(s.b) < Value(p) PROVE FALSE
      BY <1>3, <2>5
    <3>1. s.b \in AllAsked(told)
      BY <1>3, <2>5, EndsFacts
    <3>2. Measured(s.b) < Measured(p)
      BY <1>3, <2>5, MeasuredFacts
    <3> QED
      BY <2>6, <3>1, <3>2
  <2> QED
    BY <1>1, <2>4, <2>7, <2>8
<1> QED
  BY <1>4, <1>5

LEMMA BracketHoldsLeast ==
    ASSUME objective \in Objectives, Good(told)
    PROVE  /\ Value(BracketOf(told).a) <= objective.least
           /\ objective.least <= Value(BracketOf(told).b)
<1>1. objective.least \in 0..Span
  BY GoldenAssumption DEF Objectives
<1>2. told \in Seq(Int) /\ Len(told) \in Nat
  BY DEF Good
<1>3. CASE ~(Len(told) >= 2)
  <2>1. Len(told) < 2
    BY <1>2, <1>3
  <2>2. BracketOf(told) = Ends
    BY <2>1 DEF BracketOf
  <2> QED
    BY <1>1, <2>2, EndsFacts
<1>4. CASE Len(told) >= 2
  <2>1. Waiting(Walked(told), Len(told) - 1, AllAsked(told))
    BY <1>4 DEF Good
  <2>2. ~(Len(told) < 2)
    BY <1>2, <1>4
  <2>3. BracketOf(told).a = Walked(told).a /\ BracketOf(told).b = Walked(told).b
    BY <2>2 DEF BracketOf
  <2> QED
    BY <2>1, <2>3 DEF Waiting, Between
<1> QED
  BY <1>3, <1>4

\* The method is sound, for every unimodal objective with its least value in the
\* bracket, every tolerance, and units fine enough for the answers it may take
\* (core/optimize.py: _replay, next_point, bracket_of).
THEOREM MethodSound == GoldenSpec => []MethodIsSound
<1>1. GoldenInv => MethodIsSound
  <2> SUFFICES ASSUME GoldenInv PROVE MethodIsSound
    OBVIOUS
  <2>1. /\ objective \in Objectives /\ told \in Seq(Int) /\ Len(told) \in Nat /\ Len(told) <= MaxTold
        /\ \A k \in 0..Len(told) : \A x : x = SubSeq(told, 1, k) =>
             Good(x) /\ (k # Len(told) => ~Located(x))
    BY DEF GoldenInv
  <2>2. SubSeq(told, 1, Len(told)) = told /\ Len(told) \in 0..Len(told)
    BY <2>1, Beginnings
  <2>3. Good(told)
    BY <2>1, <2>2
  <2>4. BracketHoldsTheMinimum
    BY <2>1, <2>3, BestIsInside, BracketHoldsLeast DEF BracketHoldsTheMinimum
  <2>5. ASSUME NEW i \in 2..Len(told)
        PROVE  /\ Width(BracketOf(SubSeq(told, 1, i))) \in Int
               /\ Width(BracketOf(SubSeq(told, 1, i - 1))) \in Int
               /\ Width(BracketOf(SubSeq(told, 1, i))) < Width(BracketOf(SubSeq(told, 1, i - 1)))
    <3>1. i \in 0..Len(told) /\ i - 1 \in 0..Len(told)
      BY <2>1
    <3>2. PICK y, z : y = SubSeq(told, 1, i) /\ z = SubSeq(told, 1, i - 1)
      OBVIOUS
    <3>3. Good(y) /\ Good(z)
      BY <2>1, <3>1, <3>2
    <3> QED
      BY <2>1, <3>2, <3>3, BracketShrinks
  <2>6. NoPointTwice
    <3>1. \A i \in 1..Len(told) : AskedAt(i) = Asked(told, i)
      BY DEF AskedAt, Asked
    <3>2. \A i, j \in 1..Len(told) : i # j => AskedAt(i) # AskedAt(j)
      BY <2>3, <3>1 DEF Good
    <3>3. \A i \in 3..Len(told) : i \in 2..Len(told)
      BY <2>1
    <3> QED
      BY <2>5, <3>2, <3>3 DEF NoPointTwice
  <2>7. StopsInTime
    <3> SUFFICES ASSUME Located(told)
                 PROVE  /\ Width(BracketOf(told)) <= objective.tolerance
                        /\ ~Located(SubSeq(told, 1, Len(told) - 1))
      BY DEF StopsInTime
    <3>1. /\ Len(told) >= 2
          /\ Width(BracketOf(SubSeq(told, 1, Len(told) - 1))) <= objective.tolerance
      BY DEF Located
    <3>2. /\ Len(told) \in 2..Len(told) /\ Len(told) - 1 \in 0..Len(told)
          /\ Len(told) - 1 # Len(told)
      BY <2>1, <3>1
    <3>3. /\ Width(BracketOf(told)) \in Int
          /\ Width(BracketOf(SubSeq(told, 1, Len(told) - 1))) \in Int
          /\ Width(BracketOf(told)) < Width(BracketOf(SubSeq(told, 1, Len(told) - 1)))
      BY <2>2, <2>5, <3>2
    <3>4. ~Located(SubSeq(told, 1, Len(told) - 1))
      BY <2>1, <3>2
    <3>5. objective.tolerance \in Nat
      BY <2>1, GoldenAssumption DEF Objectives
    <3> QED
      BY <3>1, <3>3, <3>4, <3>5
  <2> QED
    BY <2>4, <2>6, <2>7 DEF MethodIsSound
<1> QED
  BY <1>1, GoldenInvHolds, PTL

-----------------------------------------------------------------------------
(* The bodies of studies: numbers in order *)

\* The members of a finite set of numbers come in order, each once.
LEMMA InOrderIs ==
    ASSUME NEW S, IsFiniteSet(S), S \subseteq Int
    PROVE  /\ InOrder(S) \in [1..Cardinality(S) -> S]
           /\ Cardinality(S) \in Nat
           /\ \A i, k \in 1..Cardinality(S) : i < k => InOrder(S)[i] < InOrder(S)[k]
           /\ \A x \in S : \E k \in 1..Cardinality(S) : InOrder(S)[k] = x
<1>1. PICK n \in Nat : n = Cardinality(S)
  BY FS_CardinalityType
<1> DEFINE upto(i) == {j \in S : j <= i}
           rank == [i \in S |-> Cardinality(upto(i))]
<1>2. \A i \in S : IsFiniteSet(upto(i)) /\ rank[i] \in 1..n
  <2> TAKE i \in S
  <2>1. upto(i) \in SUBSET S /\ i \in upto(i)
    OBVIOUS
  <2>2. IsFiniteSet(upto(i)) /\ Cardinality(upto(i)) <= n /\ Cardinality(upto(i)) \in Nat
    BY <1>1, <2>1, FS_Subset, FS_CardinalityType
  <2>3. Cardinality(upto(i)) # 0
    BY <2>1, <2>2, FS_EmptySet
  <2> QED
    BY <2>2, <2>3
<1>3. ASSUME NEW i \in S, NEW j \in S, i < j PROVE rank[i] < rank[j]
  <2>0. i \in Int /\ j \in Int /\ i < j
    BY <1>3
  <2>1. upto(i) \in SUBSET upto(j) /\ j \in upto(j) /\ j \notin upto(i)
    <3>1. \A x \in Int : x <= i => x <= j
      BY <2>0
    <3>2. j <= j /\ ~(j <= i)
      BY <2>0
    <3> QED
      BY <3>1, <3>2
  <2>2. IsFiniteSet(upto(j)) /\ rank[i] \in Int /\ rank[j] \in Int
    BY <1>2
  <2>3. Cardinality(upto(i)) <= Cardinality(upto(j))
    BY <2>1, <2>2, FS_Subset
  <2>4. Cardinality(upto(i)) # Cardinality(upto(j))
    BY <2>1, <2>2, FS_Subset
  <2> QED
    BY <2>2, <2>3, <2>4
<1> HIDE DEF rank
<1>4. rank \in [S -> 1..n]
  BY <1>2 DEF rank
<1>5. ASSUME NEW i \in S, NEW j \in S, rank[i] = rank[j] PROVE i = j
  <2>1. i \in Int /\ j \in Int
    OBVIOUS
  <2>2. ~(i < j) /\ ~(j < i)
    <3>1. rank[i] \in Int
      BY <1>4
    <3> QED
      BY <1>3, <1>5, <3>1
  <2> QED
    BY <2>1, <2>2
<1>6. rank \in Injection(S, 1..n)
  BY <1>4, <1>5 DEF Injection, IsInjective
<1>7. rank \in Surjection(S, 1..n)
  <2>1. IsFiniteSet(1..n) /\ Cardinality(1..n) = n
    BY FS_Interval
  <2> QED
    BY <1>1, <1>6, <2>1, FS_Injection
<1>8. \A k \in 1..n : \E i \in S : rank[i] = k
  BY <1>7 DEF Surjection
<1>9. \A k \in 1..n : InOrder(S)[k] = CHOOSE i \in S : rank[i] = k
  BY <1>1 DEF InOrder, rank
<1>10. \A k \in 1..n : InOrder(S)[k] \in S /\ rank[InOrder(S)[k]] = k
  BY <1>8, <1>9
<1>11. InOrder(S) = [k \in 1..n |-> InOrder(S)[k]]
  <2>1. InOrder(S) = [k \in 1..n |-> CHOOSE i \in S : Cardinality({j \in S : j <= i}) = k]
    BY <1>1 DEF InOrder
  <2> QED
    BY <2>1
<1>12. InOrder(S) \in [1..n -> S]
  BY <1>10, <1>11
<1>13. ASSUME NEW i \in 1..n, NEW k \in 1..n, i < k PROVE InOrder(S)[i] < InOrder(S)[k]
  <2>1. PICK x \in S, y \in S : x = InOrder(S)[i] /\ y = InOrder(S)[k] /\ rank[x] = i /\ rank[y] = k
    BY <1>10
  <2>2. x # y /\ ~(y < x)
    BY <1>3, <1>13, <2>1
  <2> QED
    BY <2>1, <2>2
<1>14. ASSUME NEW x \in S PROVE \E k \in 1..n : InOrder(S)[k] = x
  <2>1. rank[x] \in 1..n
    BY <1>4
  <2> QED
    BY <1>5, <1>10, <2>1
<1> QED
  BY <1>1, <1>12, <1>13, <1>14

-----------------------------------------------------------------------------
(* The bodies of studies: the combinations of some axes *)

\* An axis, with any values.
Edge == [parameter : Parameters, values : Seq(Nat)]

\* What is left of some axes after the first.
LEMMA AfterFirst ==
    ASSUME NEW axes \in Seq(Edge), axes # <<>>
    PROVE  /\ Tail(axes) \in Seq(Edge) /\ Len(axes) \in Nat \ {0}
           /\ Len(Tail(axes)) = Len(axes) - 1
           /\ \A i \in 1..(Len(axes) - 1) : Tail(axes)[i] = axes[i + 1]
           /\ axes[1] \in Edge /\ axes[1].values \in Seq(Nat)
<1>1. /\ Tail(axes) \in Seq(Edge) /\ Len(Tail(axes)) = Len(axes) - 1
      /\ \A i \in 1..Len(Tail(axes)) : Tail(axes)[i] = axes[i + 1]
  BY HeadTailProperties
<1>2. Len(axes) \in Nat \ {0}
  BY EmptySeq
<1>3. axes[1] \in Edge
  BY <1>2
<1> QED
  BY <1>1, <1>2, <1>3 DEF Edge

\* Where a number goes when it is divided into rows of n.
LEMMA RowsOf ==
    ASSUME NEW m \in Nat, NEW n \in Nat, NEW k \in 1..(m * n)
    PROVE  /\ (k - 1) \div n + 1 \in 1..m /\ ((k - 1) % n) + 1 \in 1..n
           /\ k - 1 = n * ((k - 1) \div n) + ((k - 1) % n)
<1>1. k \in Nat /\ k - 1 \in Nat /\ k <= m * n
  <2>1. m * n \in Nat
    OBVIOUS
  <2> QED
    BY <2>1
<1>2. n > 0
  <2>1. CASE n = 0
    <3>1. m * n = 0
      BY <2>1
    <3> QED
      BY <1>1, <3>1
  <2> QED
    BY <2>1
<1> DEFINE x == k - 1
           q == x \div n
           r == x % n
<1>3. x \in Nat /\ x < m * n /\ n \in Nat /\ n > 0
  <2>1. m * n \in Nat
    OBVIOUS
  <2> QED
    BY <1>1, <1>2, <2>1
<1> HIDE DEF x
<1>4. q \in Nat /\ r \in 0..(n - 1) /\ x = n * q + r
  BY <1>3
<1> HIDE DEF q, r
<1>5. q < m
  <2>1. CASE q >= m
    <3>1. n * q >= n * m /\ n * m = m * n
      BY <1>3, <1>4, <2>1
    <3>2. n * q \in Nat /\ n * m \in Nat
      BY <1>4
    <3> QED
      BY <1>3, <1>4, <3>1, <3>2
  <2> QED
    BY <1>4, <2>1
<1> QED
  BY <1>3, <1>4, <1>5 DEF x, q, r

\* Before puts each value in front of each combination, the combinations varying fastest.
LEMMA BeforeIs ==
    ASSUME NEW values \in Seq(Nat), NEW some \in Seq(Seq(Nat))
    PROVE  /\ Before(values, some) \in Seq(Seq(Nat))
           /\ Len(Before(values, some)) = Len(values) * Len(some)
           /\ \A k \in 1..(Len(values) * Len(some)) :
                LET c == Before(values, some)[k]
                    q == (k - 1) \div Len(some)
                    s == some[((k - 1) % Len(some)) + 1] IN
                /\ c \in Seq(Nat) /\ Len(c) = Len(s) + 1 /\ c[1] = values[q + 1]
                /\ \A i \in 1..Len(s) : c[i + 1] = s[i]
<1> DEFINE m == Len(values)
           n == Len(some)
           c(k) == <<values[((k - 1) \div n) + 1]>> \o some[((k - 1) % n) + 1]
<1>1. m \in Nat /\ n \in Nat /\ m * n \in Nat
  OBVIOUS
<1>2. ASSUME NEW k \in 1..(m * n)
      PROVE  LET s == some[((k - 1) % n) + 1] IN
             /\ c(k) \in Seq(Nat) /\ Len(c(k)) = Len(s) + 1
             /\ c(k)[1] = values[(k - 1) \div n + 1]
             /\ \A i \in 1..Len(s) : c(k)[i + 1] = s[i]
  <2> DEFINE x == values[(k - 1) \div n + 1]
             s == some[((k - 1) % n) + 1]
  <2>1. x \in Nat /\ s \in Seq(Nat)
    <3>1. (k - 1) \div n + 1 \in 1..m /\ ((k - 1) % n) + 1 \in 1..n
      <4> HIDE DEF m, n
      <4> QED
        BY <1>1, RowsOf
    <3>2. \A i \in 1..m : values[i] \in Nat
      OBVIOUS
    <3>3. \A i \in 1..n : some[i] \in Seq(Nat)
      OBVIOUS
    <3> HIDE DEF m, n
    <3> QED
      BY <3>1, <3>2, <3>3
  <2> HIDE DEF x, s
  <2>2. <<x>> \in Seq(Nat) /\ Len(<<x>>) = 1 /\ <<x>>[1] = x
    BY <2>1
  <2>3. /\ <<x>> \o s \in Seq(Nat) /\ Len(<<x>> \o s) = 1 + Len(s)
        /\ \A i \in 1..(1 + Len(s)) : (<<x>> \o s)[i] = IF i <= 1 THEN <<x>>[i] ELSE s[i - 1]
    BY <2>1, <2>2, ConcatProperties
  <2>4. Len(s) \in Nat
    BY <2>1
  <2>5. (<<x>> \o s)[1] = x
    BY <2>2, <2>3, <2>4
  <2>6. \A i \in 1..Len(s) : (<<x>> \o s)[i + 1] = s[i]
    BY <2>3, <2>4
  <2> QED
    BY <2>3, <2>4, <2>5, <2>6 DEF x, s
<1>3. Before(values, some) = [k \in 1..(m * n) |-> c(k)]
  BY DEF Before
<1> HIDE DEF c, m, n
<1>4. \A k \in 1..(m * n) : c(k) \in Seq(Nat)
  BY <1>2
<1>5. Before(values, some) \in [1..(m * n) -> Seq(Nat)]
  BY <1>3, <1>4
<1>6. Before(values, some) \in Seq(Seq(Nat)) /\ Len(Before(values, some)) = m * n
  BY <1>1, <1>5
<1>7. \A k \in 1..(m * n) : Before(values, some)[k] = c(k)
  BY <1>3
<1> QED
  BY <1>2, <1>6, <1>7 DEF m, n

\* Counted from the last, an axis is an axis ...
LEMMA FromLastIs ==
    ASSUME NEW axes \in Seq(Edge), NEW n \in 1..Len(axes)
    PROVE  FromLast(axes, n) \in Edge /\ FromLast(axes, n).values \in Seq(Nat)
<1>1. Len(axes) - n + 1 \in 1..Len(axes)
  OBVIOUS
<1>2. FromLast(axes, n) \in Edge
  BY <1>1 DEF FromLast
<1> QED
  BY <1>2 DEF Edge

\* ... and the same one without the first.
LEMMA FromLastOfTail ==
    ASSUME NEW axes \in Seq(Edge), axes # <<>>
    PROVE  /\ \A n \in 1..(Len(axes) - 1) : FromLast(Tail(axes), n) = FromLast(axes, n)
           /\ FromLast(axes, Len(axes)) = axes[1]
<1>1. /\ Len(Tail(axes)) = Len(axes) - 1 /\ Len(axes) \in Nat \ {0}
      /\ \A i \in 1..(Len(axes) - 1) : Tail(axes)[i] = axes[i + 1]
  BY AfterFirst
<1>2. ASSUME NEW n \in 1..(Len(axes) - 1) PROVE FromLast(Tail(axes), n) = FromLast(axes, n)
  <2>1. Len(axes) - n \in 1..(Len(axes) - 1) /\ (Len(axes) - 1) - n + 1 = Len(axes) - n
    BY <1>1
  <2> QED
    BY <1>1, <2>1 DEF FromLast
<1>3. Len(axes) - Len(axes) + 1 = 1
  BY <1>1
<1> QED
  BY <1>2, <1>3 DEF FromLast

\* Counting from the last axis, and combining from it.
CountsFrom(f, axes) ==
    /\ f \in [0..Len(axes) -> Nat] /\ f[0] = 1
    /\ \A n \in 1..Len(axes) : f[n] = Len(FromLast(axes, n).values) * f[n - 1]
CombinesFrom(f, axes) ==
    /\ f \in [0..Len(axes) -> Seq(Seq(Nat))] /\ f[0] = << <<>> >>
    /\ \A n \in 1..Len(axes) : f[n] = Before(FromLast(axes, n).values, f[n - 1])

LEMMA TotalUnfolds ==
    ASSUME NEW axes \in Seq(Edge)
    PROVE  \E f : CountsFrom(f, axes) /\ Total(axes) = f[Len(axes)]
<1> DEFINE N == Len(axes)
           A == Nat
           G == [z \in Nat \X A |->
                   IF z[1] + 1 <= N THEN Len(FromLast(axes, z[1] + 1).values) * z[2] ELSE z[2]]
<1>1. N \in Nat /\ 1 \in A
  OBVIOUS
<1>2. ASSUME NEW n \in 1..N, NEW s \in A PROVE Len(FromLast(axes, n).values) * s \in A
  <2>1. FromLast(axes, n).values \in Seq(Nat)
    BY FromLastIs
  <2> QED
    BY <2>1
<1>3. PICK H \in [Nat \X A -> A] :
        \A n \in Nat, s \in A : n + 1 <= N => H[<<n, s>>] = Len(FromLast(axes, n + 1).values) * s
  <2> HIDE DEF A
  <2>1. ASSUME NEW n \in Nat, NEW s \in A, n + 1 <= N PROVE Len(FromLast(axes, n + 1).values) * s \in A
    <3>1. n + 1 \in 1..N
      BY <1>1, <2>1
    <3> QED
      BY <1>2, <3>1
  <2>2. G \in [Nat \X A -> A]
    BY <2>1
  <2>3. \A n \in Nat, s \in A : n + 1 <= N => G[<<n, s>>] = Len(FromLast(axes, n + 1).values) * s
    OBVIOUS
  <2> HIDE DEF G
  <2> QED
    BY <2>2, <2>3, Zenon
<1> HIDE DEF A, N
<1>4. PICK g \in [Nat -> A] : g[0] = 1 /\ \A n \in Nat : g[n + 1] = H[<<n, g[n]>>]
  <2>1. \E g \in [Nat -> A] : Iterates(g, 1, H)
    BY <1>1, RecursionWorks, Zenon
  <2> QED
    BY <2>1 DEF Iterates
<1>5. \A n \in Nat : n + 1 <= N => g[n + 1] = Len(FromLast(axes, n + 1).values) * g[n]
  BY <1>3, <1>4
<1> DEFINE f == [n \in 0..N |-> g[n]]
           Rule(h) == [n \in 0..N |-> IF n = 0 THEN 1 ELSE Len(FromLast(axes, n).values) * h[n - 1]]
<1>6. f = Rule(f)
  <2>1. ASSUME NEW n \in 0..N
        PROVE  f[n] = IF n = 0 THEN 1 ELSE Len(FromLast(axes, n).values) * f[n - 1]
    <3>1. CASE n = 0
      BY <1>1, <1>4, <3>1
    <3>2. CASE n # 0
      <4>1. n - 1 \in Nat /\ n - 1 \in 0..N /\ (n - 1) + 1 = n /\ n <= N
        BY <1>1, <3>2
      <4>2. g[n] = Len(FromLast(axes, n).values) * g[n - 1]
        BY <1>5, <4>1
      <4>3. f[n - 1] = g[n - 1] /\ f[n] = g[n]
        BY <4>1
      <4> QED
        BY <3>2, <4>2, <4>3
    <3> QED
      BY <3>1, <3>2
  <2> QED
    BY <2>1
<1>7. PICK w : w = CHOOSE h : h = Rule(h)
  OBVIOUS
<1>8. w = Rule(w)
  BY <1>6, <1>7, Zenon
<1>9. Total(axes) = w[N]
  BY <1>7 DEF Total, N
<1>10. \A n \in 0..N : w[n] = IF n = 0 THEN 1 ELSE Len(FromLast(axes, n).values) * w[n - 1]
  BY <1>8
<1>11. DOMAIN w = 0..N
  BY <1>8
<1>12. w[0] = 1 /\ \A n \in 1..N : w[n] = Len(FromLast(axes, n).values) * w[n - 1]
  <2>1. 0 \in 0..N /\ \A n \in 1..N : n \in 0..N /\ n # 0
    BY <1>1
  <2> QED
    BY <1>10, <2>1
<1>13. \A n \in 0..N : w[n] \in A
  <2> DEFINE T == {k \in Nat : k <= N => w[k] \in A}
  <2>1. 0 \in T
    BY <1>1, <1>12
  <2>2. ASSUME NEW k \in T PROVE k + 1 \in T
    <3> SUFFICES ASSUME k + 1 <= N PROVE w[k + 1] \in A
      OBVIOUS
    <3>0. k \in Nat /\ k + 1 <= N
      OBVIOUS
    <3>1. k + 1 \in 1..N /\ (k + 1) - 1 = k /\ k <= N
      <4> HIDE DEF T
      <4> QED
        BY <1>1, <3>0
    <3>2. w[k] \in A
      BY <3>1
    <3>3. w[k + 1] = Len(FromLast(axes, k + 1).values) * w[k]
      BY <1>12, <3>1
    <3> QED
      BY <1>2, <3>1, <3>2, <3>3
  <2>3. T \subseteq Nat
    OBVIOUS
  <2> HIDE DEF T
  <2>4. T = Nat
    BY <2>1, <2>2, <2>3, EveryNumber
  <2>5. ASSUME NEW n \in 0..N PROVE w[n] \in A
    <3>1. n \in T /\ n <= N
      BY <1>1, <2>4
    <3> QED
      BY <3>1 DEF T
  <2> QED
    BY <2>5
<1>14. w = [n \in 0..N |-> w[n]]
  BY <1>8
<1>15. w \in [0..N -> A]
  BY <1>13, <1>14
<1> QED
  BY <1>9, <1>12, <1>15 DEF CountsFrom, N, A

\* The combinations are built from the last axis.
LEMMA CombinationsUnfold ==
    ASSUME NEW axes \in Seq(Edge)
    PROVE  \E f : CombinesFrom(f, axes) /\ Combinations(axes) = f[Len(axes)]
<1> DEFINE N == Len(axes)
           A == Seq(Seq(Nat))
           G == [z \in Nat \X A |->
                   IF z[1] + 1 <= N THEN Before(FromLast(axes, z[1] + 1).values, z[2]) ELSE z[2]]
<1>1. N \in Nat /\ << <<>> >> \in A
  OBVIOUS
<1>2. ASSUME NEW n \in 1..N, NEW s \in A PROVE Before(FromLast(axes, n).values, s) \in A
  <2>1. FromLast(axes, n).values \in Seq(Nat)
    BY FromLastIs
  <2> QED
    BY <2>1, BeforeIs
<1>3. PICK H \in [Nat \X A -> A] :
        \A n \in Nat, s \in A : n + 1 <= N => H[<<n, s>>] = Before(FromLast(axes, n + 1).values, s)
  <2> HIDE DEF A
  <2>1. ASSUME NEW n \in Nat, NEW s \in A, n + 1 <= N PROVE Before(FromLast(axes, n + 1).values, s) \in A
    <3>1. n + 1 \in 1..N
      BY <1>1, <2>1
    <3> QED
      BY <1>2, <3>1
  <2>2. G \in [Nat \X A -> A]
    BY <2>1
  <2>3. \A n \in Nat, s \in A : n + 1 <= N => G[<<n, s>>] = Before(FromLast(axes, n + 1).values, s)
    OBVIOUS
  <2> HIDE DEF G
  <2> QED
    BY <2>2, <2>3, Zenon
<1> HIDE DEF A, N
<1>4. PICK g \in [Nat -> A] : g[0] = << <<>> >> /\ \A n \in Nat : g[n + 1] = H[<<n, g[n]>>]
  <2>1. \E g \in [Nat -> A] : Iterates(g, << <<>> >>, H)
    BY <1>1, RecursionWorks, Zenon
  <2> QED
    BY <2>1 DEF Iterates
<1>5. \A n \in Nat : n + 1 <= N => g[n + 1] = Before(FromLast(axes, n + 1).values, g[n])
  BY <1>3, <1>4
<1> DEFINE f == [n \in 0..N |-> g[n]]
           Rule(h) == [n \in 0..N |-> IF n = 0 THEN << <<>> >> ELSE Before(FromLast(axes, n).values, h[n - 1])]
<1>6. f = Rule(f)
  <2>1. ASSUME NEW n \in 0..N
        PROVE  f[n] = IF n = 0 THEN << <<>> >> ELSE Before(FromLast(axes, n).values, f[n - 1])
    <3>1. CASE n = 0
      BY <1>1, <1>4, <3>1
    <3>2. CASE n # 0
      <4>1. n - 1 \in Nat /\ n - 1 \in 0..N /\ (n - 1) + 1 = n /\ n <= N
        BY <1>1, <3>2
      <4>2. g[n] = Before(FromLast(axes, n).values, g[n - 1])
        BY <1>5, <4>1
      <4>3. f[n - 1] = g[n - 1] /\ f[n] = g[n]
        BY <4>1
      <4> QED
        BY <3>2, <4>2, <4>3
    <3> QED
      BY <3>1, <3>2
  <2> QED
    BY <2>1
<1>7. PICK w : w = CHOOSE h : h = Rule(h)
  OBVIOUS
<1>8. w = Rule(w)
  BY <1>6, <1>7, Zenon
<1>9. Combinations(axes) = w[N]
  BY <1>7 DEF Combinations, N
<1>10. \A n \in 0..N : w[n] = IF n = 0 THEN << <<>> >> ELSE Before(FromLast(axes, n).values, w[n - 1])
  BY <1>8
<1>11. DOMAIN w = 0..N
  BY <1>8
<1>12. w[0] = << <<>> >> /\ \A n \in 1..N : w[n] = Before(FromLast(axes, n).values, w[n - 1])
  <2>1. 0 \in 0..N /\ \A n \in 1..N : n \in 0..N /\ n # 0
    BY <1>1
  <2> QED
    BY <1>10, <2>1
<1>13. \A n \in 0..N : w[n] \in A
  <2> DEFINE T == {k \in Nat : k <= N => w[k] \in A}
  <2>1. 0 \in T
    BY <1>1, <1>12
  <2>2. ASSUME NEW k \in T PROVE k + 1 \in T
    <3> SUFFICES ASSUME k + 1 <= N PROVE w[k + 1] \in A
      OBVIOUS
    <3>0. k \in Nat /\ k + 1 <= N
      OBVIOUS
    <3>1. k + 1 \in 1..N /\ (k + 1) - 1 = k /\ k <= N
      <4> HIDE DEF T
      <4> QED
        BY <1>1, <3>0
    <3>2. w[k] \in A
      BY <3>1
    <3>3. w[k + 1] = Before(FromLast(axes, k + 1).values, w[k])
      BY <1>12, <3>1
    <3> QED
      BY <1>2, <3>1, <3>2, <3>3
  <2>3. T \subseteq Nat
    OBVIOUS
  <2> HIDE DEF T
  <2>4. T = Nat
    BY <2>1, <2>2, <2>3, EveryNumber
  <2>5. ASSUME NEW n \in 0..N PROVE w[n] \in A
    <3>1. n \in T /\ n <= N
      BY <1>1, <2>4
    <3> QED
      BY <3>1 DEF T
  <2> QED
    BY <2>5
<1>14. w = [n \in 0..N |-> w[n]]
  BY <1>8
<1>15. w \in [0..N -> A]
  BY <1>13, <1>14
<1> QED
  BY <1>9, <1>12, <1>15 DEF CombinesFrom, N, A

\* The number of combinations, and the combinations, from those without the first axis.
LEMMA TotalIs ==
    ASSUME NEW axes \in Seq(Edge)
    PROVE  /\ Total(axes) \in Nat
           /\ axes = <<>> => Total(axes) = 1
           /\ axes # <<>> => Total(axes) = Len(axes[1].values) * Total(Tail(axes))
<1>1. PICK f : CountsFrom(f, axes) /\ Total(axes) = f[Len(axes)]
  BY TotalUnfolds
<1>2. Len(axes) \in Nat /\ Total(axes) \in Nat
  BY <1>1 DEF CountsFrom
<1>3. axes = <<>> => Total(axes) = 1
  BY <1>1 DEF CountsFrom
<1>4. ASSUME axes # <<>> PROVE Total(axes) = Len(axes[1].values) * Total(Tail(axes))
  <2> DEFINE N == Len(axes)
  <2>1. Tail(axes) \in Seq(Edge) /\ N \in Nat \ {0} /\ Len(Tail(axes)) = N - 1
    BY <1>4, AfterFirst
  <2>2. PICK g : CountsFrom(g, Tail(axes)) /\ Total(Tail(axes)) = g[N - 1]
    BY <2>1, TotalUnfolds
  <2>3. \A n \in 1..(N - 1) : FromLast(Tail(axes), n) = FromLast(axes, n)
    BY <1>4, FromLastOfTail
  <2> DEFINE T == {n \in Nat : n <= N - 1 => f[n] = g[n]}
  <2>4. 0 \in T
    BY <1>1, <2>2 DEF CountsFrom
  <2>5. ASSUME NEW n \in T PROVE n + 1 \in T
    <3> SUFFICES ASSUME n + 1 <= N - 1 PROVE f[n + 1] = g[n + 1]
      OBVIOUS
    <3>1. n + 1 \in 1..(N - 1) /\ n + 1 \in 1..N /\ (n + 1) - 1 = n /\ f[n] = g[n]
      BY <2>1
    <3>2. f[n + 1] = Len(FromLast(axes, n + 1).values) * f[n]
      BY <1>1, <3>1 DEF CountsFrom
    <3>3. g[n + 1] = Len(FromLast(Tail(axes), n + 1).values) * g[n]
      BY <2>1, <2>2, <3>1 DEF CountsFrom
    <3> QED
      BY <2>3, <3>1, <3>2, <3>3
  <2>6. T \subseteq Nat
    OBVIOUS
  <2> HIDE DEF T
  <2>11. T = Nat
    BY <2>4, <2>5, <2>6, EveryNumber
  <2>7. N - 1 \in T
    BY <2>1, <2>11
  <2>8. f[N - 1] = g[N - 1]
    BY <2>1, <2>7 DEF T
  <2>9. N \in 1..N /\ f[N] = Len(FromLast(axes, N).values) * f[N - 1]
    BY <1>1, <2>1 DEF CountsFrom
  <2>10. FromLast(axes, N) = axes[1]
    BY <1>4, FromLastOfTail
  <2> QED
    BY <1>1, <2>2, <2>8, <2>9, <2>10
<1> QED
  BY <1>2, <1>3, <1>4

LEMMA CombinationsIs ==
    ASSUME NEW axes \in Seq(Edge)
    PROVE  /\ Combinations(axes) \in Seq(Seq(Nat))
           /\ axes = <<>> => Combinations(axes) = << <<>> >>
           /\ axes # <<>> =>
                  Combinations(axes) = Before(axes[1].values, Combinations(Tail(axes)))
<1>1. PICK f : CombinesFrom(f, axes) /\ Combinations(axes) = f[Len(axes)]
  BY CombinationsUnfold
<1>2. Len(axes) \in Nat /\ Combinations(axes) \in Seq(Seq(Nat))
  BY <1>1 DEF CombinesFrom
<1>3. axes = <<>> => Combinations(axes) = << <<>> >>
  BY <1>1 DEF CombinesFrom
<1>4. ASSUME axes # <<>>
      PROVE  Combinations(axes) = Before(axes[1].values, Combinations(Tail(axes)))
  <2> DEFINE N == Len(axes)
  <2>1. Tail(axes) \in Seq(Edge) /\ N \in Nat \ {0} /\ Len(Tail(axes)) = N - 1
    BY <1>4, AfterFirst
  <2>2. PICK g : CombinesFrom(g, Tail(axes)) /\ Combinations(Tail(axes)) = g[N - 1]
    BY <2>1, CombinationsUnfold
  <2>3. \A n \in 1..(N - 1) : FromLast(Tail(axes), n) = FromLast(axes, n)
    BY <1>4, FromLastOfTail
  <2> DEFINE T == {n \in Nat : n <= N - 1 => f[n] = g[n]}
  <2>4. 0 \in T
    BY <1>1, <2>2 DEF CombinesFrom
  <2>5. ASSUME NEW n \in T PROVE n + 1 \in T
    <3> SUFFICES ASSUME n + 1 <= N - 1 PROVE f[n + 1] = g[n + 1]
      OBVIOUS
    <3>1. n + 1 \in 1..(N - 1) /\ n + 1 \in 1..N /\ (n + 1) - 1 = n /\ f[n] = g[n]
      BY <2>1
    <3>2. f[n + 1] = Before(FromLast(axes, n + 1).values, f[n])
      BY <1>1, <3>1 DEF CombinesFrom
    <3>3. g[n + 1] = Before(FromLast(Tail(axes), n + 1).values, g[n])
      BY <2>1, <2>2, <3>1 DEF CombinesFrom
    <3> QED
      BY <2>3, <3>1, <3>2, <3>3
  <2>6. T \subseteq Nat
    OBVIOUS
  <2> HIDE DEF T
  <2>11. T = Nat
    BY <2>4, <2>5, <2>6, EveryNumber
  <2>7. N - 1 \in T
    BY <2>1, <2>11
  <2>8. f[N - 1] = g[N - 1]
    BY <2>1, <2>7 DEF T
  <2>9. N \in 1..N /\ f[N] = Before(FromLast(axes, N).values, f[N - 1])
    BY <1>1, <2>1 DEF CombinesFrom
  <2>10. FromLast(axes, N) = axes[1]
    BY <1>4, FromLastOfTail
  <2> QED
    BY <1>1, <2>2, <2>8, <2>9, <2>10
<1> QED
  BY <1>2, <1>3, <1>4

\* The row and the place in it of the k-th of some things in rows of n.
RowAt(k, n) == ((k - 1) \div n) + 1
Place(k, n) == ((k - 1) % n) + 1

\* What combination c of some axes is, with the combination s of all but the first.
Extends(c, s, v) ==
    /\ c \in Seq(Nat) /\ Len(c) = Len(s) + 1 /\ c[1] = v
    /\ \A i \in 1..Len(s) : c[i + 1] = s[i]

\* The combinations in rows: a value of the first axis for each row, and in it
\* each combination of the other axes at its place.
LEMMA CombosAfterFirst ==
    ASSUME NEW axes \in Seq(Edge), axes # <<>>
    PROVE  LET rest == Combinations(Tail(axes))
               m == Len(axes[1].values) IN
           /\ rest \in Seq(Seq(Nat)) /\ m \in Nat /\ Len(rest) \in Nat
           /\ Combinations(axes) \in Seq(Seq(Nat))
           /\ Len(Combinations(axes)) = m * Len(rest)
           /\ \A k \in 1..(m * Len(rest)) :
                /\ RowAt(k, Len(rest)) \in 1..m /\ Place(k, Len(rest)) \in 1..Len(rest)
                /\ k = Len(rest) * (RowAt(k, Len(rest)) - 1) + Place(k, Len(rest))
                /\ Extends(Combinations(axes)[k], rest[Place(k, Len(rest))],
                           axes[1].values[RowAt(k, Len(rest))])
<1> DEFINE rest == Combinations(Tail(axes))
           m == Len(axes[1].values)
           n == Len(rest)
<1>1. Tail(axes) \in Seq(Edge) /\ axes[1].values \in Seq(Nat)
  BY AfterFirst
<1>2. rest \in Seq(Seq(Nat)) /\ Combinations(axes) = Before(axes[1].values, rest)
  BY <1>1, CombinationsIs
<1> HIDE DEF rest
<1>3. m \in Nat /\ n \in Nat
  BY <1>1, <1>2
<1>4. Combinations(axes) \in Seq(Seq(Nat)) /\ Len(Combinations(axes)) = m * n
  BY <1>1, <1>2, BeforeIs
<1>5. ASSUME NEW k \in 1..(m * n)
      PROVE  /\ RowAt(k, n) \in 1..m /\ Place(k, n) \in 1..n
             /\ k = n * (RowAt(k, n) - 1) + Place(k, n)
             /\ Extends(Combinations(axes)[k], rest[Place(k, n)], axes[1].values[RowAt(k, n)])
  <2> DEFINE q == (k - 1) \div n
             r == (k - 1) % n
  <2>1. /\ q + 1 \in 1..m /\ r + 1 \in 1..n /\ k - 1 = n * q + r
    <3> HIDE DEF m, n
    <3> QED
      BY <1>3, RowsOf
  <2>2. Extends(Combinations(axes)[k], rest[r + 1], axes[1].values[q + 1])
    <3>1. /\ Before(axes[1].values, rest)[k] \in Seq(Nat)
          /\ Len(Before(axes[1].values, rest)[k]) = Len(rest[r + 1]) + 1
          /\ Before(axes[1].values, rest)[k][1] = axes[1].values[q + 1]
          /\ \A i \in 1..Len(rest[r + 1]) : Before(axes[1].values, rest)[k][i + 1] = rest[r + 1][i]
      BY <1>1, <1>2, BeforeIs
    <3> HIDE DEF q, r, m, n
    <3> QED
      BY <1>2, <3>1 DEF Extends
  <2>3. k \in Int
    <3>1. m * n \in Int
      <4> HIDE DEF m, n
      <4> QED
        BY <1>3
    <3> QED
      BY <3>1
  <2>4. RowAt(k, n) = q + 1 /\ Place(k, n) = r + 1
    BY DEF RowAt, Place
  <2> HIDE DEF q, r, m, n
  <2>5. q \in Int /\ r \in Int /\ (q + 1) - 1 = q /\ n * q \in Int
    <3>1. q + 1 \in Int /\ r + 1 \in Int
      BY <1>3, <2>1
    <3>2. n \in Nat /\ n > 0
      BY <1>3, <2>1
    <3>3. q \in Int /\ r \in Int
      BY <2>3, <3>2 DEF q, r
    <3> QED
      BY <1>3, <3>3
  <2>6. k = n * q + (r + 1)
    BY <2>1, <2>3, <2>5
  <2> QED
    BY <2>1, <2>2, <2>4, <2>5, <2>6
<1> QED
  BY <1>2, <1>3, <1>4, <1>5 DEF rest

\* A member of each list of values.
OnAxes(c, axes) ==
    /\ c \in Seq(Nat) /\ Len(c) = Len(axes)
    /\ \A i \in 1..Len(axes) : \E j \in 1..Len(axes[i].values) : c[i] = axes[i].values[j]

\* There are Total combinations, each with a value of each axis.
LEMMA CombosAre ==
    ASSUME NEW axes \in Seq(Edge)
    PROVE  /\ Len(Combinations(axes)) = Total(axes)
           /\ \A k \in 1..Total(axes) : OnAxes(Combinations(axes)[k], axes)
<1> DEFINE AllThere(a) == /\ Len(Combinations(a)) = Total(a)
                      /\ \A k \in 1..Total(a) : OnAxes(Combinations(a)[k], a)
           T == {n \in Nat : \A a \in Seq(Edge) : Len(a) = n => AllThere(a)}
<1>1. 0 \in T
  <2> SUFFICES ASSUME NEW a \in Seq(Edge), Len(a) = 0 PROVE AllThere(a)
    OBVIOUS
  <2>1. a = <<>>
    BY EmptySeq
  <2>2. Combinations(a) = << <<>> >> /\ Total(a) = 1
    BY <2>1, CombinationsIs, TotalIs
  <2>3. Len(<< <<>> >>) = 1 /\ << <<>> >>[1] = <<>>
    OBVIOUS
  <2>4. OnAxes(<<>>, a)
    BY <2>1 DEF OnAxes
  <2> QED
    BY <2>2, <2>3, <2>4
<1>2. ASSUME NEW n \in T PROVE n + 1 \in T
  <2> SUFFICES ASSUME NEW a \in Seq(Edge), Len(a) = n + 1 PROVE AllThere(a)
    OBVIOUS
  <2> DEFINE rest == Combinations(Tail(a))
             m == Len(a[1].values)
  <2>1. a # <<>> /\ Tail(a) \in Seq(Edge) /\ Len(Tail(a)) = n /\ n \in Nat
    <3>1. n \in Nat /\ a # <<>>
      BY EmptySeq
    <3> QED
      BY <3>1, AfterFirst
  <2>2. AllThere(Tail(a))
    BY <2>1
  <2>3. Len(rest) = Total(Tail(a)) /\ \A k \in 1..Len(rest) : OnAxes(rest[k], Tail(a))
    BY <2>2
  <2>4. Total(a) = m * Len(rest)
    BY <2>1, <2>3, TotalIs
  <2> HIDE DEF AllThere, T
  <2>5. Len(Combinations(a)) = m * Len(rest)
    BY <2>1, CombosAfterFirst
  <2>6. ASSUME NEW k \in 1..(m * Len(rest)) PROVE OnAxes(Combinations(a)[k], a)
    <3> DEFINE q == RowAt(k, Len(rest))
               r == Place(k, Len(rest))
               c == Combinations(a)[k]
    <3>1. q \in 1..m /\ r \in 1..Len(rest) /\ Extends(c, rest[r], a[1].values[q])
      BY <2>1, CombosAfterFirst
    <3> HIDE DEF q, r, c, rest, m
    <3>2. OnAxes(rest[r], Tail(a))
      BY <2>3, <3>1
    <3>3. /\ c \in Seq(Nat) /\ Len(c) = n + 1 /\ c[1] = a[1].values[q]
          /\ \A i \in 1..n : c[i + 1] = rest[r][i]
      BY <2>1, <3>1, <3>2 DEF OnAxes, Extends
    <3>4. ASSUME NEW i \in 1..(n + 1) PROVE \E j \in 1..Len(a[i].values) : c[i] = a[i].values[j]
      <4>1. CASE i = 1
        BY <3>1, <3>3, <4>1 DEF m
      <4>2. CASE i # 1
        <5>1. i - 1 \in 1..n /\ (i - 1) + 1 = i
          BY <2>1, <4>2
        <5>2. Tail(a)[i - 1] = a[i]
          <6>1. \A h \in 1..(Len(a) - 1) : Tail(a)[h] = a[h + 1]
            BY <2>1, AfterFirst
          <6>2. Len(a) - 1 = n
            BY <2>1
          <6> QED
            BY <5>1, <6>1, <6>2
        <5>3. c[i] = rest[r][i - 1]
          BY <3>3, <5>1
        <5>4. \E j \in 1..Len(Tail(a)[i - 1].values) : rest[r][i - 1] = Tail(a)[i - 1].values[j]
          BY <2>1, <3>2, <5>1 DEF OnAxes
        <5> QED
          BY <5>2, <5>3, <5>4
      <4> QED
        BY <4>1, <4>2
    <3> QED
      BY <3>3, <3>4 DEF OnAxes, c
  <2> QED
    BY <2>4, <2>5, <2>6 DEF AllThere
<1>3. T \subseteq Nat
  OBVIOUS
<1> HIDE DEF T
<1>4. T = Nat
  BY <1>1, <1>2, <1>3, EveryNumber
<1>5. Len(axes) \in T
  BY <1>4
<1> QED
  BY <1>5 DEF T

\* Ascending numbers differ.
LEMMA AscendingDiffer ==
    ASSUME NEW s \in Seq(Int), Ascending(s), NEW i \in 1..Len(s), NEW j \in 1..Len(s),
           s[i] = s[j]
    PROVE  i = j
<1>1. DOMAIN s = 1..Len(s) /\ s[i] \in Int /\ i \in Int /\ j \in Int
  OBVIOUS
<1>2. ~(i < j) /\ ~(j < i)
  BY <1>1 DEF Ascending
<1> QED
  BY <1>1, <1>2

\* Where the values of each axis ascend, no combination comes twice.
LEMMA CombosDiffer ==
    ASSUME NEW axes \in Seq(Edge), \A i \in 1..Len(axes) : Ascending(axes[i].values)
    PROVE  \A k, l \in 1..Total(axes) : Combinations(axes)[k] = Combinations(axes)[l] => k = l
<1> DEFINE Rising(a) == \A i \in 1..Len(a) : Ascending(a[i].values)
           Once(a) == \A k, l \in 1..Total(a) : Combinations(a)[k] = Combinations(a)[l] => k = l
           T == {n \in Nat : \A a \in Seq(Edge) : Len(a) = n /\ Rising(a) => Once(a)}
<1>1. 0 \in T
  <2> SUFFICES ASSUME NEW a \in Seq(Edge), Len(a) = 0 PROVE Once(a)
    OBVIOUS
  <2>1. a = <<>>
    BY EmptySeq
  <2>2. Total(a) = 1
    BY <2>1, TotalIs
  <2> QED
    BY <2>2
<1>2. ASSUME NEW n \in T PROVE n + 1 \in T
  <2> SUFFICES ASSUME NEW a \in Seq(Edge), Len(a) = n + 1, Rising(a) PROVE Once(a)
    OBVIOUS
  <2> DEFINE rest == Combinations(Tail(a))
             m == Len(a[1].values)
  <2>1. a # <<>> /\ Tail(a) \in Seq(Edge) /\ Len(Tail(a)) = n /\ n \in Nat
    <3>1. n \in Nat /\ a # <<>>
      BY EmptySeq
    <3> QED
      BY <3>1, AfterFirst
  <2>2. Rising(Tail(a))
    <3>1. \A h \in 1..(Len(a) - 1) : Tail(a)[h] = a[h + 1]
      BY <2>1, AfterFirst
    <3>2. Len(a) - 1 = n
      BY <2>1
    <3>3. ASSUME NEW i \in 1..n PROVE Ascending(Tail(a)[i].values)
      <4>1. Tail(a)[i] = a[i + 1] /\ i + 1 \in 1..Len(a)
        BY <2>1, <3>1, <3>2
      <4> QED
        BY <4>1
    <3> QED
      BY <2>1, <3>3
  <2>3. Once(Tail(a))
    BY <2>1, <2>2
  <2>4. Len(rest) = Total(Tail(a)) /\ Total(a) = m * Len(rest)
    BY <2>1, CombosAre, TotalIs
  <2>5. \A k, l \in 1..Len(rest) : rest[k] = rest[l] => k = l
    BY <2>3, <2>4
  <2>6. Ascending(a[1].values) /\ a[1].values \in Seq(Nat)
    <3>1. 1 \in 1..Len(a)
      BY <2>1
    <3> QED
      BY <2>1, <3>1, AfterFirst
  <2>7. \A k \in 1..Len(rest) : OnAxes(rest[k], Tail(a))
    BY <2>1, <2>4, CombosAre
  <2> HIDE DEF Rising, Once, T
  <2>8. ASSUME NEW k \in 1..(m * Len(rest)), NEW l \in 1..(m * Len(rest)),
               Combinations(a)[k] = Combinations(a)[l]
        PROVE  k = l
    <3> DEFINE q(z) == RowAt(z, Len(rest))
               r(z) == Place(z, Len(rest))
               c(z) == Combinations(a)[z]
    <3>1. ASSUME NEW z \in 1..(m * Len(rest))
          PROVE  /\ q(z) \in 1..m /\ r(z) \in 1..Len(rest) /\ z = Len(rest) * (q(z) - 1) + r(z)
                 /\ Extends(c(z), rest[r(z)], a[1].values[q(z)])
      BY <2>1, CombosAfterFirst
    <3> HIDE DEF q, r, c, rest, m
    <3>2. c(k) = c(l)
      BY <2>8 DEF c
    <3>3. a[1].values[q(k)] = a[1].values[q(l)]
      BY <3>1, <3>2 DEF Extends
    <3>4. q(k) = q(l)
      <4>1. q(k) \in 1..Len(a[1].values) /\ q(l) \in 1..Len(a[1].values)
        BY <3>1 DEF m
      <4>2. a[1].values \in Seq(Int)
        BY <2>6
      <4> QED
        BY <2>6, <3>3, <4>1, <4>2, AscendingDiffer
    <3>5. rest[r(k)] = rest[r(l)]
      <4>1. /\ rest[r(k)] \in Seq(Nat) /\ Len(rest[r(k)]) = n
            /\ rest[r(l)] \in Seq(Nat) /\ Len(rest[r(l)]) = n
        BY <2>1, <2>7, <3>1 DEF OnAxes
      <4>2. \A i \in 1..n : rest[r(k)][i] = c(k)[i + 1] /\ rest[r(l)][i] = c(l)[i + 1]
        BY <3>1, <4>1 DEF Extends
      <4>3. \A i \in 1..n : rest[r(k)][i] = rest[r(l)][i]
        BY <3>2, <4>2
      <4> QED
        BY <4>1, <4>3, SeqEqual
    <3>6. r(k) = r(l)
      BY <2>5, <3>1, <3>5
    <3> QED
      BY <3>1, <3>4, <3>6
  <2> QED
    BY <2>4, <2>8 DEF Once
<1>3. T \subseteq Nat
  OBVIOUS
<1> HIDE DEF T
<1>4. T = Nat
  BY <1>1, <1>2, <1>3, EveryNumber
<1>5. Len(axes) \in T
  BY <1>4
<1> QED
  BY <1>5 DEF T

-----------------------------------------------------------------------------
(* The bodies of studies: grids *)

\* No two axes vary the same parameter.
OnePerParameter(axes) ==
    \A i, j \in 1..Len(axes) : axes[i].parameter = axes[j].parameter => i = j

\* The axes of a legal grid.
GridAxes(axes) ==
    /\ axes \in Seq(Edge) /\ axes # <<>>
    /\ \A i \in 1..Len(axes) : Ascending(axes[i].values)
    /\ OnePerParameter(axes)

\* A named combination has each axis's value under its parameter.
LEMMA NamedIs ==
    ASSUME NEW axes, axes \in Seq(Edge), OnePerParameter(axes), NEW c
    PROVE  /\ \A p : p \in DOMAIN Named(axes, c) <=> \E i \in 1..Len(axes) : p = axes[i].parameter
           /\ \A i \in 1..Len(axes) : Named(axes, c)[axes[i].parameter] = c[i]
<1>1. DOMAIN axes = 1..Len(axes)
  OBVIOUS
<1>2. ASSUME NEW i \in 1..Len(axes) PROVE Named(axes, c)[axes[i].parameter] = c[i]
  <2>1. (CHOOSE h \in DOMAIN axes : axes[h].parameter = axes[i].parameter) = i
    BY <1>1 DEF OnePerParameter
  <2> QED
    BY <1>1, <2>1 DEF Named
<1>3. DOMAIN Named(axes, c) = {axes[i].parameter : i \in 1..Len(axes)}
  BY <1>1 DEF Named
<1> QED
  BY <1>2, <1>3

\* The other axes of a grid.
LEMMA RestOfGrid ==
    ASSUME NEW axes, GridAxes(axes)
    PROVE  LET rest == Tail(axes) IN
           /\ rest \in Seq(Edge) /\ Len(rest) = Len(axes) - 1 /\ Len(axes) \in Nat \ {0}
           /\ \A i \in 1..Len(rest) : rest[i] = axes[i + 1] /\ i + 1 \in 1..Len(axes)
           /\ \A i \in 1..Len(rest) : Ascending(rest[i].values)
           /\ OnePerParameter(rest)
<1> DEFINE rest == Tail(axes)
<1>1. /\ rest \in Seq(Edge) /\ Len(rest) = Len(axes) - 1 /\ Len(axes) \in Nat \ {0}
      /\ \A i \in 1..(Len(axes) - 1) : rest[i] = axes[i + 1]
  BY AfterFirst DEF GridAxes
<1> HIDE DEF rest
<1>2. \A i \in 1..Len(rest) : rest[i] = axes[i + 1] /\ i + 1 \in 1..Len(axes)
  BY <1>1
<1>3. \A i \in 1..Len(rest) : Ascending(rest[i].values)
  BY <1>2 DEF GridAxes
<1>4. ASSUME NEW i \in 1..Len(rest), NEW j \in 1..Len(rest), rest[i].parameter = rest[j].parameter
      PROVE  i = j
  <2>1. i + 1 = j + 1
    BY <1>2, <1>4 DEF GridAxes, OnePerParameter
  <2> QED
    BY <2>1
<1> QED
  BY <1>1, <1>2, <1>3, <1>4 DEF rest, OnePerParameter

\* The points of a grid are its named combinations.
LEMMA GridPoints ==
    ASSUME NEW b, GridAxes(b.axes)
    PROVE  LET all == SweepPoints(b)
               N == Total(b.axes) IN
           /\ N \in Nat /\ DOMAIN all = 1..N /\ Len(all) = N
           /\ \A k \in 1..N, i \in 1..Len(b.axes) :
                all[k][b.axes[i].parameter] = Combinations(b.axes)[k][i]
           /\ \A k \in 1..N : \A p : p \in DOMAIN all[k] <=>
                \E i \in 1..Len(b.axes) : p = b.axes[i].parameter
<1> DEFINE all == SweepPoints(b)
           N == Total(b.axes)
           C == Combinations(b.axes)
<1>0. b.axes \in Seq(Edge) /\ b.axes # <<>>
  BY DEF GridAxes
<1>1. N \in Nat /\ C \in Seq(Seq(Nat)) /\ Len(C) = N
  BY <1>0, TotalIs, CombinationsIs, CombosAre
<1>2. DOMAIN C = 1..N
  <2> HIDE DEF C, N
  <2> QED
    BY <1>1
<1>3. all = [k \in 1..N |-> Named(b.axes, C[k])]
  BY <1>0, <1>2 DEF SweepPoints
<1> HIDE DEF all, N, C
<1>4. DOMAIN all = 1..N /\ Len(all) = N /\ \A k \in 1..N : all[k] = Named(b.axes, C[k])
  <2>1. DOMAIN all = 1..N /\ \A k \in 1..N : all[k] = Named(b.axes, C[k])
    BY <1>3
  <2> DEFINE X == {Named(b.axes, C[k]) : k \in 1..N}
  <2>2. all \in [1..N -> X]
    BY <1>3
  <2> HIDE DEF X
  <2>3. all \in Seq(X) /\ Len(all) = N
    BY <1>1, <2>2
  <2> QED
    BY <2>1, <2>3
<1>5. OnePerParameter(b.axes)
  BY DEF GridAxes
<1>6. ASSUME NEW k \in 1..N
      PROVE  /\ \A i \in 1..Len(b.axes) : all[k][b.axes[i].parameter] = C[k][i]
             /\ \A p : p \in DOMAIN all[k] <=> \E i \in 1..Len(b.axes) : p = b.axes[i].parameter
  <2>1. all[k] = Named(b.axes, C[k])
    BY <1>4
  <2>2. \A i \in 1..Len(b.axes) : Named(b.axes, C[k])[b.axes[i].parameter] = C[k][i]
    BY <1>0, <1>5, NamedIs
  <2>3. \A p : p \in DOMAIN Named(b.axes, C[k]) <=> \E i \in 1..Len(b.axes) : p = b.axes[i].parameter
    BY <1>0, <1>5, NamedIs
  <2> QED
    BY <2>1, <2>2, <2>3
<1> QED
  BY <1>1, <1>4, <1>6 DEF all, N, C

\* Two combinations that agree on every axis are one.
LEMMA CombosAgree ==
    ASSUME NEW axes \in Seq(Edge), \A i \in 1..Len(axes) : Ascending(axes[i].values),
           NEW k \in 1..Total(axes), NEW l \in 1..Total(axes),
           \A i \in 1..Len(axes) : Combinations(axes)[k][i] = Combinations(axes)[l][i]
    PROVE  k = l
<1>1. OnAxes(Combinations(axes)[k], axes) /\ OnAxes(Combinations(axes)[l], axes)
  BY CombosAre
<1>2. Combinations(axes)[k] = Combinations(axes)[l]
  BY <1>1, SeqEqual DEF OnAxes
<1> QED
  BY <1>2, CombosDiffer

\* The points of a legal grid are all the combinations, each once.
LEMMA GridIsGood ==
    ASSUME GridAxes(body.axes)
    PROVE  GridIsWhole
<1> DEFINE all == SweepPoints(body)
           N == Total(body.axes)
           C == Combinations(body.axes)
           axes == body.axes
<1>1. /\ N \in Nat /\ DOMAIN all = 1..N /\ Len(all) = N
      /\ \A k \in 1..N, i \in 1..Len(axes) : all[k][axes[i].parameter] = C[k][i]
  BY GridPoints
<1>2. axes \in Seq(Edge) /\ DOMAIN axes = 1..Len(axes)
  BY DEF GridAxes
<1>3. IsInjective(all)
  <2> SUFFICES ASSUME NEW k \in 1..N, NEW l \in 1..N, all[k] = all[l] PROVE k = l
    BY <1>1 DEF IsInjective
  <2>1. \A i \in 1..Len(axes) : C[k][i] = C[l][i]
    BY <1>1
  <2>2. \A i \in 1..Len(axes) : Ascending(axes[i].values)
    BY DEF GridAxes
  <2> QED
    BY <1>2, <2>1, <2>2, CombosAgree
<1>4. ASSUME NEW k \in DOMAIN all, NEW i \in DOMAIN axes
      PROVE  all[k][axes[i].parameter] \in Range(axes[i].values)
  <2>1. k \in 1..N /\ i \in 1..Len(axes) /\ OnAxes(C[k], axes)
    BY <1>1, <1>2, CombosAre
  <2>2. PICK j \in 1..Len(axes[i].values) : C[k][i] = axes[i].values[j]
    BY <2>1 DEF OnAxes
  <2>3. axes[i].values \in Seq(Nat)
    <3>1. axes[i] \in Edge
      BY <1>2, <2>1
    <3> QED
      BY <3>1 DEF Edge
  <2>4. j \in DOMAIN axes[i].values
    BY <2>3
  <2>5. all[k][axes[i].parameter] = C[k][i]
    BY <1>1, <2>1
  <2> HIDE DEF all, C, axes
  <2> QED
    BY <2>2, <2>4, <2>5 DEF Range
<1> QED
  BY <1>1, <1>3, <1>4 DEF GridIsWhole

\* The answers on a line are those at its place in the rows.
LEMMA OnLineIs ==
    ASSUME GridAxes(body.axes), NEW c \in 1..Total(Tail(body.axes))
    PROVE  OnLine(c) = {k \in 1..Total(body.axes) :
                          answers[k] # NoAnswer /\ Place(k, Total(Tail(body.axes))) = c}
<1> DEFINE axes == body.axes
           rest == Tail(axes)
           R == Total(rest)
           N == Total(axes)
           all == SweepPoints(body)
           C == Combinations(axes)
           D == Combinations(rest)
           held == Named(rest, D[c])
<1>1. /\ N \in Nat /\ DOMAIN all = 1..N
      /\ \A k \in 1..N, i \in 1..Len(axes) : all[k][axes[i].parameter] = C[k][i]
  BY GridPoints
<1>2. /\ rest \in Seq(Edge) /\ Len(rest) = Len(axes) - 1 /\ Len(axes) \in Nat \ {0}
      /\ \A i \in 1..Len(rest) : rest[i] = axes[i + 1] /\ i + 1 \in 1..Len(axes)
      /\ \A i \in 1..Len(rest) : Ascending(rest[i].values)
      /\ OnePerParameter(rest)
  BY RestOfGrid
<1>3. /\ \A p : p \in DOMAIN held <=> \E i \in 1..Len(rest) : p = rest[i].parameter
      /\ \A i \in 1..Len(rest) : held[rest[i].parameter] = D[c][i]
  <2> HIDE DEF rest, D
  <2>1. PICK d : d = D[c]
    OBVIOUS
  <2>2. rest \in Seq(Edge) /\ OnePerParameter(rest)
    BY <1>2
  <2>3. \A i \in 1..Len(rest) : Named(rest, d)[rest[i].parameter] = d[i]
    BY <2>2, NamedIs
  <2>4. \A p : p \in DOMAIN Named(rest, d) <=> \E i \in 1..Len(rest) : p = rest[i].parameter
    BY <2>2, NamedIs
  <2> QED
    BY <2>1, <2>3, <2>4
<1>4. axes \in Seq(Edge) /\ axes # <<>>
  BY DEF GridAxes
<1>5. R = Len(D) /\ N = Len(axes[1].values) * R
  BY <1>2, <1>4, CombosAre, TotalIs
<1>6. ASSUME NEW k \in 1..N
      PROVE  Place(k, R) \in 1..R /\ Extends(C[k], D[Place(k, R)], axes[1].values[RowAt(k, R)])
  BY <1>4, <1>5, CombosAfterFirst
<1>10. c \in 1..R
  OBVIOUS
<1>7. OnLine(c) = {k \in DOMAIN all : answers[k] # NoAnswer /\ \A p \in DOMAIN held : all[k][p] = held[p]}
  BY DEF OnLine
<1> HIDE DEF axes, rest, R, N, all, C, D, held
<1>8. ASSUME NEW k \in 1..N
      PROVE  (\A p \in DOMAIN held : all[k][p] = held[p]) <=> Place(k, R) = c
  <2> DEFINE r == Place(k, R)
  <2>1. r \in 1..R /\ Extends(C[k], D[r], axes[1].values[RowAt(k, R)])
    BY <1>6
  <2>2. OnAxes(D[r], rest)
    BY <1>2, <2>1, CombosAre DEF R, D
  <2>3. \A i \in 1..Len(rest) : C[k][i + 1] = D[r][i]
    BY <2>1, <2>2 DEF Extends, OnAxes
  <2>4. \A i \in 1..Len(rest) : all[k][rest[i].parameter] = D[r][i]
    <3> TAKE i \in 1..Len(rest)
    <3>1. all[k][axes[i + 1].parameter] = C[k][i + 1]
      BY <1>1, <1>2
    <3> QED
      BY <1>2, <2>3, <3>1
  <2> HIDE DEF r
  <2>5. ASSUME r = c PROVE \A p \in DOMAIN held : all[k][p] = held[p]
    BY <1>3, <2>4, <2>5
  <2>6. ASSUME \A p \in DOMAIN held : all[k][p] = held[p] PROVE r = c
    <3>1. \A i \in 1..Len(rest) : D[r][i] = D[c][i]
      BY <1>3, <2>4, <2>6
    <3> QED
      BY <1>2, <1>10, <2>1, <3>1, CombosAgree DEF D, R
  <2> QED
    BY <2>5, <2>6 DEF r
<1>9. OnLine(c) = {k \in 1..N : answers[k] # NoAnswer /\ Place(k, R) = c}
  BY <1>1, <1>7, <1>8
<1> QED
  BY <1>9 DEF N, R, rest, axes

-----------------------------------------------------------------------------
(* The bodies of studies: curves *)

\* The trace of a line has the answers on it in order.
LEMMA TraceIs ==
    ASSUME GridAxes(body.axes), NEW c \in 1..Total(Tail(body.axes))
    PROVE  LET S == OnLine(c)
               n == Cardinality(S)
               all == SweepPoints(body) IN
           /\ S \subseteq 1..Total(body.axes) /\ n \in 0..Total(body.axes)
           /\ InOrder(S) \in [1..n -> S]
           /\ \A i, j \in 1..n : i < j => InOrder(S)[i] < InOrder(S)[j]
           /\ \A k \in S : \E i \in 1..n : InOrder(S)[i] = k
           /\ DOMAIN Trace(c).x = 1..n
           /\ \A i \in 1..n : /\ Trace(c).x[i] = all[InOrder(S)[i]][body.axes[1].parameter]
                              /\ Trace(c).values[i] = answers[InOrder(S)[i]]
<1> DEFINE S == OnLine(c)
           n == Cardinality(S)
           N == Total(body.axes)
           all == SweepPoints(body)
<1>1. N \in Nat
  BY TotalIs DEF GridAxes
<1>2. S \subseteq 1..N
  BY OnLineIs
<1> HIDE DEF N
<1>3. IsFiniteSet(1..N) /\ Cardinality(1..N) = N
  BY <1>1, FS_Interval
<1>4. IsFiniteSet(S) /\ n \in Nat /\ n <= N
  <2> HIDE DEF S
  <2> QED
    BY <1>2, <1>3, FS_Subset, FS_CardinalityType
<1>5. S \subseteq Int
  BY <1>1, <1>2
<1>6. /\ InOrder(S) \in [1..n -> S]
      /\ \A i, j \in 1..n : i < j => InOrder(S)[i] < InOrder(S)[j]
      /\ \A k \in S : \E i \in 1..n : InOrder(S)[i] = k
  <2> HIDE DEF S
  <2> QED
    BY <1>4, <1>5, InOrderIs
<1>7. DOMAIN InOrder(S) = 1..n
  BY <1>6
<1>8. /\ Trace(c).x = [i \in DOMAIN InOrder(S) |-> all[InOrder(S)[i]][body.axes[1].parameter]]
      /\ Trace(c).values = [i \in DOMAIN InOrder(S) |-> answers[InOrder(S)[i]]]
  BY DEF Trace
<1> HIDE DEF S, n, all
<1>9. /\ DOMAIN Trace(c).x = 1..n
      /\ \A i \in 1..n : /\ Trace(c).x[i] = all[InOrder(S)[i]][body.axes[1].parameter]
                         /\ Trace(c).values[i] = answers[InOrder(S)[i]]
  BY <1>7, <1>8
<1> QED
  BY <1>1, <1>2, <1>4, <1>6, <1>9 DEF S, n, N, all

Lines == {c \in 1..Total(Tail(body.axes)) : OnLine(c) # {}}

\* The curves of a grid are the traces of the lines that have answers.
LEMMA CurvesAre ==
    ASSUME GridAxes(body.axes)
    PROVE  LET n == Cardinality(Lines)
               order == InOrder(Lines)
               R == Total(Tail(body.axes)) IN
           /\ R \in Nat /\ n \in 0..R
           /\ order \in [1..n -> Lines]
           /\ \A i, j \in 1..n : order[i] = order[j] => i = j
           /\ \A c \in Lines : \E i \in 1..n : order[i] = c
           /\ DOMAIN Curves = 1..n /\ Len(Curves) = n
           /\ \A i \in 1..n : Curves[i] = Trace(order[i])
<1> DEFINE n == Cardinality(Lines)
           order == InOrder(Lines)
           R == Total(Tail(body.axes))
<1>1. /\ Tail(body.axes) \in Seq(Edge) /\ body.axes # <<>>
  BY RestOfGrid DEF GridAxes
<1>2. R \in Nat /\ Len(Combinations(Tail(body.axes))) = R
      /\ Combinations(Tail(body.axes)) \in Seq(Seq(Nat))
  BY <1>1, TotalIs, CombosAre, CombinationsIs
<1>3. DOMAIN Combinations(Tail(body.axes)) = 1..R
  <2> HIDE DEF R
  <2> QED
    BY <1>2
<1>4. Lines \subseteq 1..R /\ Lines = {c \in DOMAIN Combinations(Tail(body.axes)) : OnLine(c) # {}}
  BY <1>3 DEF Lines
<1>5. Curves = [i \in DOMAIN order |-> Trace(order[i])]
  BY <1>1, <1>4 DEF Curves
<1> HIDE DEF R
<1>6. IsFiniteSet(1..R) /\ Cardinality(1..R) = R
  BY <1>2, FS_Interval
<1>7. IsFiniteSet(Lines) /\ n \in Nat /\ n <= R /\ Lines \subseteq Int
  BY <1>2, <1>4, <1>6, FS_Subset, FS_CardinalityType
<1>8. /\ order \in [1..n -> Lines]
      /\ \A i, j \in 1..n : i < j => order[i] < order[j]
      /\ \A c \in Lines : \E i \in 1..n : order[i] = c
  BY <1>7, InOrderIs
<1> HIDE DEF n, order
<1>9. ASSUME NEW i \in 1..n, NEW j \in 1..n, order[i] = order[j] PROVE i = j
  <2>1. order[i] \in Int /\ order[j] \in Int
    BY <1>7, <1>8
  <2>2. ~(i < j) /\ ~(j < i)
    BY <1>8, <1>9, <2>1
  <2> QED
    BY <1>7, <2>2
<1>10. DOMAIN Curves = 1..n /\ \A i \in 1..n : Curves[i] = Trace(order[i])
  BY <1>5, <1>8
<1>11. Len(Curves) = n
  <2> DEFINE X == {Trace(order[i]) : i \in 1..n}
  <2>1. DOMAIN order = 1..n
    BY <1>8
  <2>2. Curves \in [1..n -> X]
    BY <1>5, <2>1
  <2> HIDE DEF X
  <2> QED
    BY <1>7, <2>2
<1> QED
  BY <1>2, <1>7, <1>8, <1>9, <1>10, <1>11 DEF n, order, R

\* The answers of a grid, and where each is drawn.
AnsweredPoints == {k \in 1..Total(body.axes) : answers[k] # NoAnswer}
Drawn == {d \in (1..Len(Curves)) \X (1..Total(body.axes)) : d[2] \in DOMAIN Curves[d[1]].x}
AnswerAt(i, j) == InOrder(OnLine(InOrder(Lines)[i]))[j]

\* What is drawn at each place of a curve.
LEMMA DrawnIs ==
    ASSUME GridAxes(body.axes), NEW i \in 1..Len(Curves), NEW j \in DOMAIN Curves[i].x
    PROVE  /\ j \in 1..Total(body.axes) /\ AnswerAt(i, j) \in AnsweredPoints
           /\ Place(AnswerAt(i, j), Total(Tail(body.axes))) = InOrder(Lines)[i]
           /\ Curves[i].x[j] = SweepPoints(body)[AnswerAt(i, j)][body.axes[1].parameter]
           /\ Curves[i].values[j] = answers[AnswerAt(i, j)]
           /\ \A h \in DOMAIN Curves[i].x : j < h => AnswerAt(i, j) < AnswerAt(i, h)
<1> DEFINE n == Cardinality(Lines)
           order == InOrder(Lines)
           R == Total(Tail(body.axes))
           c == order[i]
           S == OnLine(c)
           N == Total(body.axes)
<1>1. i \in 1..n /\ c \in Lines /\ Curves[i] = Trace(c)
  BY CurvesAre
<1>2. c \in 1..R
  BY <1>1 DEF Lines
<1>3. S = {k \in 1..N : answers[k] # NoAnswer /\ Place(k, R) = c}
  BY <1>2, OnLineIs
<1> HIDE DEF order, R, N, n
<1>4. /\ Cardinality(S) \in 0..N /\ N \in Nat
      /\ InOrder(S) \in [1..Cardinality(S) -> S]
      /\ \A g, h \in 1..Cardinality(S) : g < h => InOrder(S)[g] < InOrder(S)[h]
      /\ DOMAIN Trace(c).x = 1..Cardinality(S)
      /\ \A h \in 1..Cardinality(S) :
           /\ Trace(c).x[h] = SweepPoints(body)[InOrder(S)[h]][body.axes[1].parameter]
           /\ Trace(c).values[h] = answers[InOrder(S)[h]]
  <2>1. N \in Nat
    BY TotalIs DEF GridAxes, N
  <2> QED
    BY <1>2, <2>1, TraceIs DEF R, N
<1>5. j \in 1..Cardinality(S)
  BY <1>1, <1>4
<1>6. InOrder(S)[j] \in S /\ j \in 1..N
  BY <1>4, <1>5
<1>7. InOrder(S)[j] = AnswerAt(i, j) /\ \A h : InOrder(S)[h] = AnswerAt(i, h)
  BY DEF AnswerAt, order
<1> HIDE DEF S, c
<1>8. /\ AnswerAt(i, j) \in 1..N /\ answers[AnswerAt(i, j)] # NoAnswer
      /\ Place(AnswerAt(i, j), R) = c
  BY <1>3, <1>6, <1>7
<1>9. /\ Curves[i].x[j] = SweepPoints(body)[AnswerAt(i, j)][body.axes[1].parameter]
      /\ Curves[i].values[j] = answers[AnswerAt(i, j)]
  BY <1>1, <1>4, <1>5, <1>7
<1>10. \A h \in DOMAIN Curves[i].x : j < h => AnswerAt(i, j) < AnswerAt(i, h)
  BY <1>1, <1>4, <1>5, <1>7
<1>11. j \in 1..Total(body.axes) /\ AnswerAt(i, j) \in AnsweredPoints
  BY <1>6, <1>8 DEF AnsweredPoints, N
<1>12. Place(AnswerAt(i, j), Total(Tail(body.axes))) = InOrder(Lines)[i]
  BY <1>8 DEF R, c, order
<1> QED
  BY <1>9, <1>10, <1>11, <1>12

\* Every answer is drawn.
LEMMA AnsweredIsDrawn ==
    ASSUME GridAxes(body.axes), NEW k \in AnsweredPoints
    PROVE  \E d \in Drawn : AnswerAt(d[1], d[2]) = k
<1> DEFINE R == Total(Tail(body.axes))
           N == Total(body.axes)
           c == Place(k, R)
           S == OnLine(c)
<1>1. k \in 1..N /\ answers[k] # NoAnswer
  BY DEF AnsweredPoints
<1>2. c \in 1..R
  <2>1. /\ Tail(body.axes) \in Seq(Edge) /\ body.axes \in Seq(Edge) /\ body.axes # <<>>
    BY RestOfGrid DEF GridAxes
  <2>2. N = Len(body.axes[1].values) * R /\ Len(Combinations(Tail(body.axes))) = R
    BY <2>1, TotalIs, CombosAre
  <2> QED
    BY <1>1, <2>1, <2>2, CombosAfterFirst
<1>3. S = {h \in 1..N : answers[h] # NoAnswer /\ Place(h, R) = c}
  BY <1>2, OnLineIs
<1>4. k \in S /\ c \in Lines
  <2>1. k \in S
    BY <1>1, <1>3
  <2> QED
    BY <1>2, <2>1 DEF Lines
<1> HIDE DEF R, N, c
<1>5. PICK i \in 1..Len(Curves) : InOrder(Lines)[i] = c /\ Curves[i] = Trace(c)
  BY <1>4, CurvesAre
<1>6. /\ Cardinality(S) \in 0..N /\ DOMAIN Trace(c).x = 1..Cardinality(S)
      /\ \E j \in 1..Cardinality(S) : InOrder(S)[j] = k
  BY <1>2, <1>4, TraceIs DEF R, N
<1>7. PICK j \in DOMAIN Curves[i].x : InOrder(S)[j] = k
  BY <1>5, <1>6
<1>8. AnswerAt(i, j) = k
  BY <1>5, <1>7 DEF AnswerAt
<1>9. j \in 1..N
  BY DrawnIs DEF N
<1>10. <<i, j>> \in Drawn
  BY <1>9 DEF Drawn, N
<1> QED
  BY <1>8, <1>10

\* No answer is drawn twice.
LEMMA DrawnOnce ==
    ASSUME GridAxes(body.axes), NEW d \in Drawn, NEW e \in Drawn,
           AnswerAt(d[1], d[2]) = AnswerAt(e[1], e[2])
    PROVE  d = e
<1>1. /\ d[1] \in 1..Len(Curves) /\ d[2] \in DOMAIN Curves[d[1]].x /\ d = <<d[1], d[2]>>
      /\ e[1] \in 1..Len(Curves) /\ e[2] \in DOMAIN Curves[e[1]].x /\ e = <<e[1], e[2]>>
  BY DEF Drawn
<1>2. InOrder(Lines)[d[1]] = InOrder(Lines)[e[1]]
  BY <1>1, DrawnIs
<1>3. d[1] = e[1]
  BY <1>1, <1>2, CurvesAre
<1>4. d[2] \in Nat /\ e[2] \in Nat /\ AnswerAt(d[1], d[2]) \in Nat
  <2>1. Total(body.axes) \in Nat
    BY TotalIs DEF GridAxes
  <2> QED
    BY <1>1, <2>1, DrawnIs DEF AnsweredPoints
<1>5. ~(d[2] < e[2])
  BY <1>1, <1>3, <1>4, DrawnIs
<1>6. ~(e[2] < d[2])
  BY <1>1, <1>3, <1>4, DrawnIs
<1> QED
  BY <1>1, <1>3, <1>4, <1>5, <1>6

LEMMA GridSize ==
    ASSUME GridAxes(body.axes)
    PROVE  LET R == Total(Tail(body.axes))
               m == Len(body.axes[1].values) IN
           /\ Tail(body.axes) \in Seq(Edge) /\ body.axes \in Seq(Edge) /\ body.axes # <<>>
           /\ 1 \in 1..Len(body.axes)
           /\ R \in Nat /\ m \in Nat /\ Total(body.axes) = m * R
           /\ body.axes[1].values \in Seq(Nat)
<1>1. /\ Tail(body.axes) \in Seq(Edge) /\ body.axes \in Seq(Edge) /\ body.axes # <<>>
      /\ 1 \in 1..Len(body.axes)
  BY RestOfGrid DEF GridAxes
<1>2. body.axes[1].values \in Seq(Nat)
  BY <1>1, AfterFirst
<1>3. Total(Tail(body.axes)) \in Nat
  BY <1>1, TotalIs
<1>4. Total(body.axes) = Len(body.axes[1].values) * Total(Tail(body.axes))
  BY <1>1, TotalIs
<1> QED
  BY <1>1, <1>2, <1>3, <1>4

\* The abscissa of the k-th point of a grid is the value of its row.
LEMMA AbscissaIs ==
    ASSUME GridAxes(body.axes), NEW k \in 1..Total(body.axes)
    PROVE  LET R == Total(Tail(body.axes))
               m == Len(body.axes[1].values) IN
           /\ R \in Nat /\ m \in Nat /\ Total(body.axes) = m * R
           /\ RowAt(k, R) \in 1..m /\ Place(k, R) \in 1..R /\ k = R * (RowAt(k, R) - 1) + Place(k, R)
           /\ SweepPoints(body)[k][body.axes[1].parameter] = body.axes[1].values[RowAt(k, R)]
<1> DEFINE R == Total(Tail(body.axes))
           m == Len(body.axes[1].values)
           D == Combinations(Tail(body.axes))
<1>1. /\ Tail(body.axes) \in Seq(Edge) /\ body.axes \in Seq(Edge) /\ body.axes # <<>>
      /\ 1 \in 1..Len(body.axes) /\ Total(body.axes) = m * R /\ m \in Nat /\ R \in Nat
  BY GridSize
<1>2. Len(D) = R
  BY <1>1, CombosAre
<1>3. /\ RowAt(k, R) \in 1..m /\ Place(k, R) \in 1..R /\ k = R * (RowAt(k, R) - 1) + Place(k, R)
      /\ Extends(Combinations(body.axes)[k], D[Place(k, R)], body.axes[1].values[RowAt(k, R)])
  BY <1>1, <1>2, CombosAfterFirst
<1>4. SweepPoints(body)[k][body.axes[1].parameter] = Combinations(body.axes)[k][1]
  BY <1>1, GridPoints
<1> HIDE DEF R, m, D
<1>5. SweepPoints(body)[k][body.axes[1].parameter] = body.axes[1].values[RowAt(k, R)]
  BY <1>3, <1>4 DEF Extends
<1> QED
  BY <1>1, <1>3, <1>5 DEF R, m

\* A curve runs from left to right.
LEMMA CurvesRise ==
    ASSUME GridAxes(body.axes), NEW i \in 1..Len(Curves)
    PROVE  Ascending(Curves[i].x)
<1> DEFINE R == Total(Tail(body.axes))
           v == body.axes[1].values
<1> SUFFICES ASSUME NEW j \in DOMAIN Curves[i].x, NEW h \in DOMAIN Curves[i].x, j < h
             PROVE  Curves[i].x[j] < Curves[i].x[h]
  BY DEF Ascending
<1>1. PICK k, l : k = AnswerAt(i, j) /\ l = AnswerAt(i, h)
  OBVIOUS
<1>2. /\ k \in 1..Total(body.axes) /\ l \in 1..Total(body.axes) /\ k < l
      /\ Place(k, R) = Place(l, R)
      /\ Curves[i].x[j] = SweepPoints(body)[k][body.axes[1].parameter]
      /\ Curves[i].x[h] = SweepPoints(body)[l][body.axes[1].parameter]
  BY <1>1, DrawnIs DEF AnsweredPoints
<1>3. /\ R \in Nat /\ Len(v) \in Nat
      /\ RowAt(k, R) \in 1..Len(v) /\ k = R * (RowAt(k, R) - 1) + Place(k, R) /\ Place(k, R) \in 1..R
      /\ RowAt(l, R) \in 1..Len(v) /\ l = R * (RowAt(l, R) - 1) + Place(l, R)
      /\ Curves[i].x[j] = v[RowAt(k, R)] /\ Curves[i].x[h] = v[RowAt(l, R)]
  BY <1>2, AbscissaIs
<1> DEFINE q == RowAt(k, R) - 1
           r == RowAt(l, R) - 1
           p == Place(k, R)
<1>4. q \in Nat /\ r \in Nat /\ p \in Nat
  <2>1. RowAt(k, R) \in 1..Len(v) /\ RowAt(l, R) \in 1..Len(v) /\ Place(k, R) \in 1..R
    BY <1>3
  <2> HIDE DEF R, v
  <2> QED
    BY <2>1
<1>8. k = R * q + p /\ l = R * r + p
  BY <1>2, <1>3
<1>5. v \in Seq(Nat) /\ Ascending(v)
  BY GridSize DEF GridAxes
<1> HIDE DEF R, v, q, r, p
<1>6. q < r
  <2> SUFFICES ASSUME r <= q PROVE FALSE
    BY <1>4
  <2>1. PICK e \in Nat : q = r + e
    <3>1. q - r \in Nat /\ q = r + (q - r)
      BY <1>4
    <3> QED
      BY <3>1
  <2>2. R * q = R * r + R * e /\ R * e \in Nat /\ R * r \in Nat
    BY <1>3, <1>4, <2>1
  <2>3. k >= l
    BY <1>4, <1>8, <2>2
  <2>4. k \in Int /\ l \in Int
    BY <1>4, <1>8, <2>2
  <2> QED
    BY <1>2, <2>3, <2>4
<1>7. RowAt(k, R) < RowAt(l, R)
  BY <1>3, <1>6 DEF q, r
<1>9. DOMAIN v = 1..Len(v)
  BY <1>5
<1>10. v[RowAt(k, R)] < v[RowAt(l, R)]
  BY <1>3, <1>5, <1>7, <1>9 DEF Ascending
<1> QED
  BY <1>3, <1>10

\* Unless two values of an axis print alike, the curves have different names.
LEMMA NamesDiffer ==
    ASSUME GridAxes(body.axes), ~PrintAlike,
           NEW i \in 1..Len(Curves), NEW j \in 1..Len(Curves), Curves[i].name = Curves[j].name
    PROVE  i = j
<1> DEFINE axes == body.axes
           rest == Tail(axes)
           D == Combinations(rest)
           R == Total(rest)
           order == InOrder(Lines)
<1>1. /\ rest \in Seq(Edge) /\ Len(rest) = Len(axes) - 1 /\ Len(axes) \in Nat \ {0}
      /\ \A h \in 1..Len(rest) : rest[h] = axes[h + 1] /\ h + 1 \in 1..Len(axes)
      /\ \A h \in 1..Len(rest) : Ascending(rest[h].values)
      /\ OnePerParameter(rest)
  BY RestOfGrid
<1>2. PICK c, d : c = order[i] /\ d = order[j]
  OBVIOUS
<1>3. c \in 1..R /\ d \in 1..R /\ Curves[i] = Trace(c) /\ Curves[j] = Trace(d)
  BY <1>2, CurvesAre DEF Lines
<1> DEFINE f == Named(rest, D[c])
           g == Named(rest, D[d])
<1>4. Trace(c).name = [p \in DOMAIN f |-> Printed(f[p])] /\ Trace(d).name = [p \in DOMAIN g |-> Printed(g[p])]
  BY DEF Trace
<1>5. ASSUME NEW h \in 1..Len(rest) PROVE D[c][h] = D[d][h]
  <2> DEFINE p == rest[h].parameter
             w == rest[h].values
  <2>1. /\ p \in DOMAIN f /\ f[p] = D[c][h]
        /\ p \in DOMAIN g /\ g[p] = D[d][h]
    <3>1. PICK x, y : x = D[c] /\ y = D[d]
      OBVIOUS
    <3> HIDE DEF rest, D
    <3>2. rest \in Seq(Edge) /\ OnePerParameter(rest)
      BY <1>1
    <3>3. p \in DOMAIN Named(rest, x) /\ Named(rest, x)[p] = x[h]
      BY <3>2, NamedIs
    <3>4. p \in DOMAIN Named(rest, y) /\ Named(rest, y)[p] = y[h]
      BY <3>2, NamedIs
    <3> QED
      BY <3>1, <3>3, <3>4
  <2>2. D[c][h] \in Range(w) /\ D[d][h] \in Range(w)
    <3>1. OnAxes(D[c], rest) /\ OnAxes(D[d], rest)
      BY <1>1, <1>3, CombosAre
    <3>2. w \in Seq(Nat)
      <4> HIDE DEF rest
      <4>1. rest[h] \in Edge
        BY <1>1
      <4> QED
        BY <4>1 DEF Edge
    <3> HIDE DEF rest, D, w
    <3>3. \A y \in 1..Len(w) : w[y] \in Range(w)
      <4>1. DOMAIN w = 1..Len(w)
        BY <3>2
      <4> QED
        BY <4>1 DEF Range
    <3> QED
      BY <3>1, <3>3 DEF OnAxes, w
  <2>3. w = axes[h + 1].values /\ h + 1 \in 2..Len(axes)
    BY <1>1
  <2> HIDE DEF f, g, p
  <2>4. Printed(f[p]) = Printed(g[p])
    <3>1. Trace(c).name = Trace(d).name
      BY <1>3
    <3> QED
      BY <1>4, <2>1, <3>1
  <2> HIDE DEF w, axes, rest, D
  <2>5. \A x, y \in Range(w) : x # y => Printed(x) # Printed(y)
    BY <2>3 DEF PrintAlike, axes
  <2> QED
    BY <2>1, <2>2, <2>4, <2>5
<1>6. c = d
  BY <1>1, <1>3, <1>5, CombosAgree
<1> QED
  BY <1>2, <1>6, CurvesAre

\* The sweep is drawn as it should be.
LEMMA SweepIsGood ==
    ASSUME GridAxes(body.axes), Len(body.axes[1].values) >= 2,
           Total(body.axes) <= MaxSweepPoints
    PROVE  SweepIsDrawn
<1> DEFINE all == SweepPoints(body)
           N == Total(body.axes)
           drawn == {d \in (1..Len(Curves)) \X (1..Len(all)) : d[2] \in DOMAIN Curves[d[1]].x}
           answered == {k \in DOMAIN all : answers[k] # NoAnswer}
           x0 == body.axes[1].parameter
<1>1. N \in Nat /\ DOMAIN all = 1..N /\ Len(all) = N
  BY GridPoints
<1>2. drawn = Drawn /\ answered = AnsweredPoints
  BY <1>1 DEF Drawn, AnsweredPoints
<1>3. \A d \in Drawn : AnswerAt(d[1], d[2]) \in AnsweredPoints
  BY DrawnIs DEF Drawn
<1>4. Cardinality(Drawn) = Cardinality(AnsweredPoints)
  <2> DEFINE F == [d \in Drawn |-> AnswerAt(d[1], d[2])]
  <2>1. F \in [Drawn -> AnsweredPoints] /\ \A d \in Drawn : F[d] = AnswerAt(d[1], d[2])
    BY <1>3
  <2> HIDE DEF F
  <2>2. F \in Injection(Drawn, AnsweredPoints)
    BY <2>1, DrawnOnce DEF Injection, IsInjective
  <2>3. F \in Surjection(Drawn, AnsweredPoints)
    BY <2>1, AnsweredIsDrawn DEF Surjection
  <2>4. F \in Bijection(Drawn, AnsweredPoints)
    BY <2>2, <2>3 DEF Bijection
  <2>5. IsFiniteSet(Drawn)
    <3>1. Len(Curves) \in Nat
      BY CurvesAre
    <3>2. IsFiniteSet(1..Len(Curves)) /\ IsFiniteSet(1..N)
      BY <1>1, <3>1, FS_Interval
    <3>3. IsFiniteSet((1..Len(Curves)) \X (1..N))
      BY <3>2, FS_Product
    <3>4. Drawn \subseteq (1..Len(Curves)) \X (1..N)
      BY DEF Drawn
    <3> QED
      BY <3>3, <3>4, FS_Subset
  <2> QED
    BY <2>4, <2>5, FS_Bijection DEF ExistsBijection
<1>5. ASSUME NEW k \in AnsweredPoints
      PROVE  \E d \in Drawn : Curves[d[1]].x[d[2]] = all[k][x0] /\ Curves[d[1]].values[d[2]] = answers[k]
  <2>1. PICK d \in Drawn : AnswerAt(d[1], d[2]) = k
    BY AnsweredIsDrawn
  <2>2. d[1] \in 1..Len(Curves) /\ d[2] \in DOMAIN Curves[d[1]].x
    BY DEF Drawn
  <2> QED
    BY <2>1, <2>2, DrawnIs
<1>6. DOMAIN Curves = 1..Len(Curves) /\ Len(Curves) \in 0..Total(Tail(body.axes))
  BY CurvesAre
<1>7. \A i \in DOMAIN Curves : Ascending(Curves[i].x)
  BY <1>6, CurvesRise
<1>8. Len(Curves) <= MaxSeriesTraces
  <2> DEFINE R == Total(Tail(body.axes))
             m == Len(body.axes[1].values)
             M == MaxSweepPoints
  <2>1. N = m * R /\ R \in Nat /\ m \in Nat /\ m >= 2
    BY GridSize
  <2>2. M \in Nat /\ N <= M
    BY StudyTablesAssumption
  <2> HIDE DEF R, m, N, M
  <2>3. 2 * R <= m * R /\ m * R \in Nat
    <3>1. m - 2 \in Nat
      BY <2>1
    <3>2. (m - 2) * R \in Nat /\ m * R = (m - 2) * R + 2 * R
      BY <2>1, <3>1
    <3> QED
      BY <2>1, <3>2
  <2>4. 2 * R <= M
    BY <2>1, <2>2, <2>3
  <2>5. R <= M \div 2
    BY <2>1, <2>2, <2>4
  <2>6. Len(Curves) <= R /\ Len(Curves) \in Nat
    BY <1>6, <2>1 DEF R
  <2>7. MaxSeriesTraces = M \div 2
    BY DEF MaxSeriesTraces, M
  <2>8. M \div 2 \in Nat
    BY <2>2
  <2> QED
    BY <2>1, <2>5, <2>6, <2>7, <2>8
<1>9. Drawable(Curves) \/ PrintAlike
  BY <1>6, <1>8, NamesDiffer DEF Drawable
<1> HIDE DEF all, drawn, answered, x0
<1>10. Cardinality(drawn) = Cardinality(answered)
  BY <1>2, <1>4
<1>11. \A k \in DOMAIN all : answers[k] # NoAnswer =>
         \E d \in drawn : Curves[d[1]].x[d[2]] = all[k][x0] /\ Curves[d[1]].values[d[2]] = answers[k]
  <2>1. \A k \in DOMAIN all : answers[k] # NoAnswer => k \in AnsweredPoints
    BY <1>2 DEF answered
  <2> QED
    BY <1>2, <1>5, <2>1
<1> QED
  BY <1>7, <1>9, <1>10, <1>11 DEF SweepIsDrawn, all, drawn, answered, x0

-----------------------------------------------------------------------------
(* The bodies of studies: the readout *)

\* Lists of bounded length are sequences.
LEMMA BoundedIsSeq ==
    ASSUME NEW S, NEW n \in Nat
    PROVE  BoundedSeq(S, n) \subseteq Seq(S)
BY DEF BoundedSeq, SeqOf

\* Sequences over a smaller set are sequences over a larger one.
LEMMA WiderSeq ==
    ASSUME NEW S, NEW T, S \subseteq T
    PROVE  Seq(S) \subseteq Seq(T)
<1> SUFFICES ASSUME NEW s \in Seq(S) PROVE s \in Seq(T)
  OBVIOUS
<1>1. Len(s) \in Nat /\ s \in [1..Len(s) -> S]
  OBVIOUS
<1>2. s \in [1..Len(s) -> T]
  BY <1>1
<1> QED
  BY <1>1, <1>2

\* A legal grid.
LEMMA LegalGrid ==
    ASSUME body \in StudyBodies, body.kind = "sweep", LegalBody(body), body.axes # <<>>
    PROVE  /\ GridAxes(body.axes) /\ Len(body.axes[1].values) >= 2
           /\ Total(body.axes) <= MaxSweepPoints
<1>1. body \in Sweeps
  BY DEF StudyBodies, Ladders
<1>2. body.axes \in BoundedSeq(Axis, MaxAxes)
  BY <1>1 DEF Sweeps
<1>3. Longest \in Nat /\ MaxAxes \in Nat /\ Values \subseteq Nat
  BY StudyTablesAssumption
<1>4. body.axes \in Seq(Axis)
  BY <1>2, <1>3, BoundedIsSeq
<1>5. Lists \subseteq Seq(Nat)
  <2>1. Lists \subseteq Seq(Values)
    BY <1>3, BoundedIsSeq DEF Lists
  <2>2. Seq(Values) \subseteq Seq(Nat)
    BY <1>3, WiderSeq
  <2> QED
    BY <2>1, <2>2
<1>6. Axis \subseteq Edge
  BY <1>5 DEF Axis, Edge
<1>7. body.axes \in Seq(Edge) /\ DOMAIN body.axes = 1..Len(body.axes)
  BY <1>4, <1>6
<1>8. LegalSweep(body)
  BY DEF LegalBody
<1>9. GridAxes(body.axes)
  BY <1>7, <1>8 DEF LegalSweep, GridAxes, OnePerParameter
<1> QED
  BY <1>8, <1>9 DEF LegalSweep

\* Answers there is room for.
AnswersFit ==
    LegalBody(body) => answers \in [1..HowMany(body) -> Measures \cup {NoAnswer}]

TableInv == body \in StudyBodies /\ AnswersFit

\* A legal ladder settles where its report says.
LEMMA LadderIsGood ==
    ASSUME TableInv, LegalBody(body), body.kind # "sweep"
    PROVE  LadderIsRight
<1> DEFINE v == body.values
           n == Len(v)
           Settled == {i \in 1..(Len(answers) - 1) : \A j \in i..(Len(answers) - 1) : Small(j)}
           within(lo) == \A i \in DOMAIN v : i < n /\ v[i + 1] >= lo => Small(i)
           candidates == {x \in Range(Tail(v)) : within(x)}
<1>1. v \in Seq(Nat) /\ NoAnswer \notin Int
  <2>1. body \in Ladders /\ Longest \in Nat /\ Values \subseteq Nat /\ NoAnswer \notin Int
    BY StudyTablesAssumption DEF TableInv, StudyBodies, Sweeps
  <2>2. v \in Lists
    BY <2>1 DEF Ladders
  <2>3. v \in Seq(Values)
    BY <2>1, <2>2, BoundedIsSeq DEF Lists
  <2> QED
    BY <2>1, <2>3, WiderSeq
<1>2. n >= 2 /\ Ascending(v)
  BY DEF LegalBody, LegalLadder
<1>3. n \in Nat /\ DOMAIN v = 1..n
  BY <1>1
<1>4. Len(answers) = n
  <2>1. answers \in [1..n -> Measures \cup {NoAnswer}]
    BY DEF TableInv, AnswersFit, HowMany
  <2> HIDE DEF n
  <2> QED
    BY <1>3, <2>1
<1>5. Settled = {i \in 1..(n - 1) : \A j \in i..(n - 1) : Small(j)}
  BY <1>4
<1>6. Range(Tail(v)) = {v[i + 1] : i \in 1..(n - 1)}
  <2>1. /\ v # <<>> /\ Tail(v) \in Seq(Nat) /\ Len(Tail(v)) = n - 1
        /\ \A i \in 1..(n - 1) : Tail(v)[i] = v[i + 1]
    <3>1. v # <<>>
      BY <1>2
    <3> QED
      BY <1>1, <3>1, HeadTailProperties
  <2>2. DOMAIN Tail(v) = 1..(n - 1)
    BY <2>1
  <2> HIDE DEF v, n
  <2> QED
    BY <2>1, <2>2 DEF Range
<1>7. SettledAt = IF Settled = {} THEN NoAnswer ELSE v[Min(Settled) + 1]
  BY DEF SettledAt
<1>8. ASSUME SettledAt = NoAnswer => candidates = {},
             SettledAt # NoAnswer =>
               SettledAt \in candidates /\ \A x \in candidates : SettledAt <= x
      PROVE  LadderIsRight
  BY <1>8 DEF LadderIsRight
<1> HIDE DEF v, n, Settled
<1>9. ASSUME NEW i \in 1..(n - 1), within(v[i + 1]) PROVE i \in Settled
  <2>1. ASSUME NEW j \in i..(n - 1) PROVE Small(j)
    <3>1. j \in 1..n /\ j < n /\ j + 1 \in 1..n /\ i + 1 \in 1..n /\ i \in Int /\ j \in Int
      BY <1>3
    <3>2. v[j + 1] >= v[i + 1]
      <4>1. v[i + 1] \in Nat /\ v[j + 1] \in Nat
        BY <1>1, <1>3, <3>1
      <4>2. i + 1 = j + 1 \/ i + 1 < j + 1
        BY <2>1
      <4> QED
        BY <1>2, <1>3, <3>1, <4>1, <4>2 DEF Ascending
    <3> QED
      BY <1>3, <1>9, <3>1, <3>2
  <2> QED
    BY <1>5, <2>1
<1>10. ASSUME NEW i \in Settled PROVE v[i + 1] \in candidates /\ v[i + 1] \in Nat
  <2>1. i \in 1..(n - 1) /\ \A j \in i..(n - 1) : Small(j)
    BY <1>5
  <2>2. i + 1 \in 1..n /\ v[i + 1] \in Nat
    BY <1>1, <1>3, <2>1
  <2>3. ASSUME NEW j \in DOMAIN v, j < n, v[j + 1] >= v[i + 1] PROVE Small(j)
    <3>1. j \in 1..n /\ j + 1 \in 1..n
      BY <1>3, <2>3
    <3>2. v[j + 1] \in Nat
      BY <1>1, <1>3, <3>1
    <3>3. ~(j + 1 < i + 1)
      BY <1>2, <1>3, <2>2, <2>3, <3>1, <3>2 DEF Ascending
    <3>4. j \in i..(n - 1)
      BY <1>3, <2>1, <2>3, <3>1, <3>3
    <3> QED
      BY <2>1, <3>4
  <2> QED
    BY <1>6, <2>1, <2>2, <2>3
<1>11. \A x \in candidates : \E i \in Settled : x = v[i + 1]
  BY <1>6, <1>9
<1> HIDE DEF candidates, within
<1>12. CASE Settled = {}
  <2>1. SettledAt = NoAnswer /\ candidates = {}
    BY <1>7, <1>11, <1>12
  <2> QED
    BY <1>8, <2>1
<1>13. CASE Settled # {}
  <2>1. Settled \subseteq Nat
    BY <1>3, <1>5
  <2>2. Min(Settled) \in Settled /\ \A i \in Settled : Min(Settled) <= i
    BY <1>13, <2>1, LeastOf
  <2>3. PICK m \in Settled : m = Min(Settled)
    BY <2>2
  <2>4. SettledAt = v[m + 1] /\ SettledAt \in candidates /\ SettledAt \in Nat
    BY <1>7, <1>10, <1>13, <2>3
  <2>5. ASSUME NEW x \in candidates PROVE SettledAt <= x
    <3>1. PICK i \in Settled : x = v[i + 1]
      BY <1>11
    <3>2. m <= i /\ m \in 1..(n - 1) /\ i \in 1..(n - 1)
      BY <1>5, <2>2, <2>3
    <3>3. m + 1 \in 1..n /\ i + 1 \in 1..n /\ (m + 1 = i + 1 \/ m + 1 < i + 1)
      BY <1>3, <3>2
    <3>4. v[m + 1] \in Nat /\ v[i + 1] \in Nat
      BY <1>10
    <3> QED
      BY <1>2, <1>3, <2>4, <3>1, <3>3, <3>4 DEF Ascending
  <2>6. SettledAt # NoAnswer
    BY <1>1, <2>4
  <2> QED
    BY <1>8, <2>4, <2>5, <2>6
<1> QED
  BY <1>12, <1>13

\* What the body says and the room for its answers give the readout.
LEMMA ReadoutFollows ==
    ASSUME TableInv
    PROVE  ReadoutIsRight
<1> SUFFICES ASSUME LegalBody(body)
             PROVE  IF body.kind = "sweep" THEN GridIsWhole /\ SweepIsDrawn ELSE LadderIsRight
  BY DEF ReadoutIsRight
<1>1. CASE body.kind = "sweep" /\ body.axes # <<>>
  <2>1. /\ GridAxes(body.axes) /\ Len(body.axes[1].values) >= 2
        /\ Total(body.axes) <= MaxSweepPoints
    BY <1>1, LegalGrid DEF TableInv
  <2> QED
    BY <1>1, <2>1, GridIsGood, SweepIsGood
<1>2. CASE body.kind = "sweep" /\ body.axes = <<>>
  BY <1>2 DEF GridIsWhole, SweepIsDrawn
<1>3. CASE body.kind # "sweep"
  BY <1>3, LadderIsGood
<1> QED
  BY <1>1, <1>2, <1>3

\* The answers fit from the start, and as they come.
LEMMA AnswersCome ==
    TableInv /\ [VariationAnswers]_tableVars => TableInv'
<1> SUFFICES ASSUME TableInv, [VariationAnswers]_tableVars PROVE TableInv'
  OBVIOUS
<1>1. CASE VariationAnswers
  <2>1. body' = body
    BY <1>1 DEF VariationAnswers
  <2>2. PICK k \in DOMAIN answers, m \in Measures : answers' = [answers EXCEPT ![k] = m]
    BY <1>1 DEF VariationAnswers
  <2>3. HowMany(body)' = HowMany(body) /\ LegalBody(body)' = LegalBody(body)
    BY <2>1
  <2>4. AnswersFit'
    BY <2>2, <2>3 DEF TableInv, AnswersFit
  <2> QED
    BY <2>1, <2>4 DEF TableInv
<1>2. CASE UNCHANGED tableVars
  <2>1. body' = body /\ answers' = answers
    BY <1>2 DEF tableVars
  <2>2. HowMany(body)' = HowMany(body) /\ LegalBody(body)' = LegalBody(body)
    BY <2>1
  <2> QED
    BY <2>1, <2>2 DEF TableInv, AnswersFit
<1> QED
  BY <1>1, <1>2

\* Whatever answers have come, and in whatever order, a ladder's report says where
\* it settled, a grid is whole, and its curves draw every answer once (studies.py).
THEOREM ReadoutSound == TableSpec => []ReadoutIsRight
<1>1. TableInit => TableInv
  BY DEF TableInit, TableInv, AnswersFit, Unanswered
<1> QED
  BY <1>1, AnswersCome, ReadoutFollows, PTL DEF TableSpec

=============================================================================
