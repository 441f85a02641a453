--------------------------- MODULE ObjectHistory ---------------------------
(***************************************************************************)
(* What the workspace promises of its objects (core/workspace.py): each    *)
(* has a growing sequence of revisions that are never rewritten, all of    *)
(* one owner, and each revision is the previous one with a patch applied,  *)
(* so no edit is lost to a concurrent one.                                 *)
(***************************************************************************)
EXTENDS Naturals, Sequences, ObjectBodies

CONSTANT Numbers    \* the ids an object may have

VARIABLE history    \* the revisions of each object, oldest first

Init == history = [n \in Numbers |-> <<>>]

Create(n) ==
    /\ history[n] = <<>>
    /\ \E v \in Version : history' = [history EXCEPT ![n] = <<v>>]

Patch(n) ==
    /\ history[n] # <<>>
    /\ LET last == history[n][Len(history[n])] IN
         \E b \in PatchedFrom(last.body) :
            history' = [history EXCEPT ![n] = Append(@, [last EXCEPT !.body = b])]

Next == \E n \in Numbers : Create(n) \/ Patch(n)

Spec == Init /\ [][Next]_history
=============================================================================
