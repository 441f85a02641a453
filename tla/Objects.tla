------------------------------ MODULE Objects ------------------------------
(***************************************************************************)
(* Workspace objects of one type: the files of ObjectFileStore             *)
(* (objects.py) and the operations of Workspace over them                  *)
(* (core/workspace.py).  Several callers, which may be threads or          *)
(* processes sharing the data directory (the API, the RPC server, a        *)
(* script), create and patch objects at once.  Nothing locks: mkdir and    *)
(* O_EXCL decide who wins.  A caller can fail between any two calls to     *)
(* the file system (its process dies, the disk is full), and what it did   *)
(* so far stays.                                                           *)
(***************************************************************************)
EXTENDS Naturals, FiniteSets, FiniteSetsExt, ObjectBodies

CONSTANTS
    Callers,
    MaxObjects,      \* ids in use (a bound)
    MaxRevisions,    \* revisions of one object (a bound)
    NoFile           \* what a path holds before its file exists

ASSUME ObjectsAssumption ==
    /\ IsFiniteSet(Callers)
    /\ MaxObjects \in Nat /\ MaxRevisions \in Nat \ {0}

Numbers   == 1..MaxObjects
Revisions == 1..MaxRevisions

\* A revision file.  From the open to the end of the write it is not whole, and
\* whoever reads it fails to parse it.
File == [version : Version, whole : BOOLEAN]

ASSUME FileAssumption == NoFile \notin File

VARIABLES
    directories,   \* the ids whose directory exists
    files,         \* what each revision file of each id holds
    call           \* what each caller is in the middle of

vars == <<directories, files, call>>

Idle == [doing |-> "idle"]

Call ==
    [doing : {"idle"}]
    \cup [doing : {"allocating"}, number : Numbers, version : Version]
    \cup [doing : {"reading"}, number : Numbers, revision : Revisions \cup {0}, owner : Owners]
    \cup [doing : {"opening", "filling"}, number : Numbers, revision : Revisions,
          version : Version]

\* The revision files an object has (head_revision's glob).
Written(n) == {r \in Revisions : files[n][r] # NoFile}

\* ObjectFileStore.head_revision; 0 for none.
HeadRevision(n) == IF Written(n) = {} THEN 0 ELSE Max(Written(n))

Init ==
    /\ directories = {}
    /\ files = [n \in Numbers |-> [r \in Revisions |-> NoFile]]
    /\ call = [c \in Callers |-> Idle]

-----------------------------------------------------------------------------
(* Workspace.create *)

\* ObjectFileStore._next_number: scan the directory for the highest.
NextNumber == Max({0} \cup directories) + 1

Allocating == {c \in Callers : call[c].doing = "allocating"}

\* The body is valid; scan for a number.
StartCreate(c) ==
    /\ call[c] = Idle
    /\ NextNumber + Cardinality(Allocating) <= MaxObjects
    /\ \E v \in Version :
         call' = [call EXCEPT ![c] = [doing |-> "allocating", number |-> NextNumber,
                                      version |-> v]]
    /\ UNCHANGED <<directories, files>>

\* MakeDirectory that tries the same number again.
MakeDirectoryInsisting(c) ==
    /\ call[c].doing = "allocating"
    /\ call[c].number \notin directories
    /\ directories' = directories \cup {call[c].number}
    /\ call' = [call EXCEPT ![c] = [doing |-> "opening", number |-> @.number,
                                    revision |-> 1, version |-> @.version]]
    /\ UNCHANGED files

\* mkdir; when somebody else has the number, the next one.
MakeDirectory(c) ==
    /\ call[c].doing = "allocating"
    /\ IF call[c].number \in directories
       THEN /\ call' = [call EXCEPT ![c].number = @ + 1]
            /\ UNCHANGED directories
       ELSE /\ directories' = directories \cup {call[c].number}
            /\ call' = [call EXCEPT ![c] = [doing |-> "opening", number |-> @.number,
                                            revision |-> 1, version |-> @.version]]
    /\ UNCHANGED files

-----------------------------------------------------------------------------
(* Workspace.patch *)

\* The reference is not pinned; find the head.
StartPatch(c, n) ==
    /\ call[c] = Idle
    /\ \E w \in Owners :
         call' = [call EXCEPT ![c] = [doing |-> "reading", number |-> n,
                                      revision |-> HeadRevision(n), owner |-> w]]
    /\ UNCHANGED <<directories, files>>

\* ApplyPatch numbering the result after what is there by now ...
ApplyPatchAtNewest(c) ==
    /\ call[c].doing = "reading"
    /\ call[c].revision # 0
    /\ LET n == call[c].number
           f == files[n][call[c].revision] IN
         /\ f.whole
         /\ f.version.owner = call[c].owner
         /\ HeadRevision(n) < MaxRevisions
         /\ \E b \in PatchedFrom(f.version.body) :
              call' = [call EXCEPT ![c] = [doing |-> "opening", number |-> n,
                                           revision |-> HeadRevision(n) + 1,
                                           version |-> [owner |-> @.owner, body |-> b]]]
    /\ UNCHANGED <<directories, files>>

\* ... or without asking whose object it is.
ApplyPatchOfAnyone(c) ==
    /\ call[c].doing = "reading"
    /\ call[c].revision \in 1..(MaxRevisions - 1)
    /\ LET n == call[c].number
           f == files[n][call[c].revision] IN
         /\ f.whole
         /\ \E b \in PatchedFrom(f.version.body) :
              call' = [call EXCEPT ![c] = [doing |-> "opening", number |-> n,
                                           revision |-> @.revision + 1,
                                           version |-> [owner |-> @.owner, body |-> b]]]
    /\ UNCHANGED <<directories, files>>

\* Read the revision found, apply the patch, number the result one higher.  A
\* file that is not whole does not parse; another owner's is not found.
ApplyPatch(c) ==
    /\ call[c].doing = "reading"
    /\ call[c].revision \in 1..(MaxRevisions - 1)
    /\ LET n == call[c].number
           f == files[n][call[c].revision] IN
         /\ f.whole
         /\ f.version.owner = call[c].owner
         /\ \E b \in PatchedFrom(f.version.body) :
              call' = [call EXCEPT ![c] = [doing |-> "opening", number |-> n,
                                           revision |-> @.revision + 1,
                                           version |-> [owner |-> @.owner, body |-> b]]]
    /\ UNCHANGED <<directories, files>>

-----------------------------------------------------------------------------
(* ObjectFileStore._write *)

\* OpenRevision without O_EXCL.
OpenRevisionTruncating(c) ==
    /\ call[c].doing = "opening"
    /\ files' = [files EXCEPT ![call[c].number][call[c].revision] =
                    [version |-> call[c].version, whole |-> FALSE]]
    /\ call' = [call EXCEPT ![c].doing = "filling"]
    /\ UNCHANGED directories

\* Exclusive create: whoever is second fails.
OpenRevision(c) ==
    /\ call[c].doing = "opening"
    /\ IF files[call[c].number][call[c].revision] # NoFile
       THEN /\ call' = [call EXCEPT ![c] = Idle]
            /\ UNCHANGED files
       ELSE /\ files' = [files EXCEPT ![call[c].number][call[c].revision] =
                            [version |-> call[c].version, whole |-> FALSE]]
            /\ call' = [call EXCEPT ![c].doing = "filling"]
    /\ UNCHANGED directories

\* The content is written and the call returns.
FillRevision(c) ==
    /\ call[c].doing = "filling"
    /\ files' = [files EXCEPT ![call[c].number][call[c].revision] =
                    [version |-> call[c].version, whole |-> TRUE]]
    /\ call' = [call EXCEPT ![c] = Idle]
    /\ UNCHANGED directories

\* The call ends early.  A patch may be refused (nothing there, not the
\* caller's, it does not apply, changes nothing or breaks the schema), and any
\* call may die between two steps, leaving what it created.
GiveUp(c) ==
    /\ call[c] # Idle
    /\ call' = [call EXCEPT ![c] = Idle]
    /\ UNCHANGED <<directories, files>>

-----------------------------------------------------------------------------
WriteStep(c) == MakeDirectory(c) \/ OpenRevision(c) \/ FillRevision(c)

Next ==
    \E c \in Callers :
        \/ StartCreate(c) \/ WriteStep(c) \/ ApplyPatch(c) \/ GiveUp(c)
        \/ \E n \in Numbers : StartPatch(c, n)

Spec == Init /\ [][Next]_vars

\* A caller's thread goes on.
FairSpec == Spec /\ \A c \in Callers : WF_vars(WriteStep(c))

-----------------------------------------------------------------------------
(* Properties *)

TypeOK ==
    /\ directories \subseteq Numbers
    /\ files \in [Numbers -> [Revisions -> File \cup {NoFile}]]
    /\ call \in [Callers -> Call]

\* Revisions are dense, and only the head can be torn: whatever died when, every
\* revision under the head reads back.
OnlyTheHeadIsTorn ==
    \A n \in Numbers : \A r \in Written(n) :
        /\ n \in directories
        /\ \A q \in 1..(r - 1) : files[n][q] # NoFile /\ files[n][q].whole

\* A pinned reference names the same content for ever: a revision that was
\* written is never rewritten (test_a_revision_file_is_never_rewritten).
RevisionIsFrozen ==
    [][\A n \in Numbers, r \in Revisions :
         files[n][r] # NoFile /\ files[n][r].whole => files'[n][r] = files[n][r]]_vars

\* The revisions of an object that read back, from the first on.
Whole(n) == {r \in Revisions : \A q \in 1..r : files[n][q] # NoFile /\ files[n][q].whole}

Kept == [n \in Numbers |-> [r \in Whole(n) |-> files[n][r].version]]

\* The files implement an object's history: no edit is lost, nobody writes into
\* another's object, two creators never share an id.
History == INSTANCE ObjectHistory WITH history <- Kept
HistorySpec == History!Spec

\* mkdir lets a creator take a number in the end, however many it loses.
AllocationEnds == \A c \in Callers : call[c].doing = "allocating" ~> call[c].doing # "allocating"
=============================================================================
