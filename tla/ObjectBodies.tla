---------------------------- MODULE ObjectBodies ----------------------------
(***************************************************************************)
(* What a workspace object is made of (objects.py: ObjectRecord) and what  *)
(* a JSON patch does to it (core/workspace.py: patch).  A body is the set  *)
(* of the parts it has; an operation of a patch adds a part or removes it. *)
(***************************************************************************)
CONSTANTS Owners, Parts

Bodies == SUBSET Parts

\* One revision's content.
Version == [owner : Owners, body : Bodies]

Edits == [op : {"add", "remove"}, part : Parts]

\* RFC 6902: a part that is not there cannot be removed.
Applies(e, b) == e.op = "remove" => e.part \in b

Applied(e, b) == IF e.op = "add" THEN b \cup {e.part} ELSE b \ {e.part}

\* What a patch of this body may leave: it applies, and it changes something.
PatchedFrom(b) == {Applied(e, b) : e \in {x \in Edits : Applies(x, b)}} \ {b}
=============================================================================
