---------------------------- MODULE GeometryEditor ----------------------------
(***************************************************************************)
(* The profile editor of the web client (geometry-2d/src/element.ts): its  *)
(* control points, its undo and redo stacks, and the handlers that one     *)
(* user's pointer and keyboard and the page's own code call in any order,  *)
(* the middle of a drag included.                                          *)
(*                                                                         *)
(* A point is one coordinate and the domain is 1..bounds: enough to tell a *)
(* point inside from one outside, and one outline from another.            *)
(***************************************************************************)
EXTENDS Naturals, Sequences, SequencesExt, FiniteSetsExt

CONSTANTS
    Widths,         \* domains the page may set
    HistoryLimit,   \* HISTORY_LIMIT
    MaxPoints,      \* points of an outline (a bound)
    MaxEdits        \* calls that change something (a bound)

ASSUME GeometryEditorAssumption ==
    /\ Widths \subseteq Nat \ {0} /\ \E b \in Widths : \A c \in Widths : c <= b
    /\ HistoryLimit \in Nat \ {0}
    /\ MaxPoints \in Nat \ 0..2 /\ MaxEdits \in Nat

VARIABLES
    bounds, points, undo, redo,
    dragging,   \* the handle held down; 0 for none
    dragMoved,
    readonly,
    edits,      \* calls so far
    line,       \* history: the outlines the user went through, in order,
    here,       \* where in them the editor is,
    spoilt      \* and whether a call fell into a drag, or a click onto a full stack

editorVars ==
    <<bounds, points, undo, redo, dragging, dragMoved, readonly, edits, line, here, spoilt>>

\* A slot of a JavaScript array that was never assigned.
Hole == 0

Clamp(x, b) == IF x > b THEN b ELSE x

ClampAll(s, b) == [i \in DOMAIN s |-> Clamp(s[i], b)]

\* points[i] = x, wherever i is.
Put(s, i, x) ==
    [k \in 1..Max({Len(s), i}) |-> IF k = i THEN x ELSE IF k <= Len(s) THEN s[k] ELSE Hole]

\* push, and shift when the stack has grown past its limit.
Pushed(stack, s) == LET t == Append(stack, s) IN IF Len(t) > HistoryLimit THEN Tail(t) ELSE t

\* Outlines the page may set (a bound: of three points).
Outlines(b) == [1..3 -> 1..b]

EditorInit ==
    /\ bounds = Max(Widths)
    /\ points = <<1, 1, 1>>
    /\ undo = <<>> /\ redo = <<>>
    /\ dragging = 0 /\ dragMoved = FALSE
    /\ readonly = FALSE
    /\ edits = 0
    /\ line = <<points>> /\ here = 1 /\ spoilt = FALSE

\* Another call.  One that comes while a handle is held spoils the drag.
Called ==
    /\ edits < MaxEdits /\ Hole \notin Range(points)
    /\ edits' = edits + 1
    /\ spoilt' = (spoilt \/ dragging # 0)

\* The user's outlines with one more after this one.
Onward(s) ==
    LET past == SubSeq(line, 1, here)
        kept == IF here > HistoryLimit THEN Tail(past) ELSE past IN
    line' = Append(kept, s) /\ here' = Len(kept) + 1

\* Nothing before it is to come back.
Afresh(s) == line' = <<s>> /\ here' = 1

-----------------------------------------------------------------------------
(* Calls *)

\* Commit that leaves what was undone to be redone.
CommitKeepingRedo(s) ==
    /\ undo' = Pushed(undo, points)
    /\ points' = ClampAll(s, bounds)
    /\ Onward(points')
    /\ UNCHANGED <<bounds, redo, dragging, dragMoved, readonly>>

\* #commit
Commit(s) ==
    /\ undo' = Pushed(undo, points)
    /\ redo' = <<>>
    /\ points' = ClampAll(s, bounds)
    /\ Onward(points')
    /\ UNCHANGED <<bounds, dragging, dragMoved, readonly>>

\* The page sets `value`, which validateGeometry has let through.
SetValue ==
    /\ Called
    /\ \E b \in Widths : \E s \in Outlines(b) : bounds' = b /\ points' = s
    /\ undo' = <<>> /\ redo' = <<>>
    /\ Afresh(points')
    /\ UNCHANGED <<dragging, dragMoved, readonly>>

\* The page sets `bounds`: what is outside moves in, what was done is forgotten.
SetBounds ==
    /\ Called
    /\ \E b \in Widths : bounds' = b
    /\ points' = ClampAll(points, bounds')
    /\ undo' = <<>> /\ redo' = <<>>
    /\ Afresh(points')
    /\ UNCHANGED <<dragging, dragMoved, readonly>>

\* The page sets `controlPoints`, wherever they are.
SetControlPoints ==
    /\ Called
    /\ \E s \in Outlines(Max(Widths)) : Commit(s)

InsertPointAfter(i) ==
    /\ Called /\ i \in DOMAIN points /\ Len(points) < MaxPoints
    /\ LET b == points[(i % Len(points)) + 1] IN
         Commit(InsertAt(points, i + 1, (points[i] + b) \div 2))

RemovePoint(i) ==
    /\ Called /\ i \in DOMAIN points /\ Len(points) > 3
    /\ Commit(RemoveAt(points, i))

\* An arrow key on a handle.
MovePoint(i) ==
    /\ Called /\ ~readonly /\ i \in DOMAIN points
    /\ \E x \in {points[i] + 1} \cup {Max({1, points[i] - 1})} :
         Commit([points EXCEPT ![i] = x])

Undo ==
    /\ Called /\ undo # <<>>
    /\ undo' = Front(undo)
    /\ redo' = Append(redo, points)
    /\ points' = Last(undo)
    /\ here' = Max({here - 1, 1})
    /\ UNCHANGED <<bounds, dragging, dragMoved, readonly, line>>

Redo ==
    /\ Called /\ redo # <<>>
    /\ redo' = Front(redo)
    /\ undo' = Append(undo, points)
    /\ points' = Last(redo)
    /\ here' = Min({here + 1, Len(line)})
    /\ UNCHANGED <<bounds, dragging, dragMoved, readonly, line>>

SetReadOnly ==
    /\ Called
    /\ readonly' = ~readonly
    /\ UNCHANGED <<bounds, points, undo, redo, dragging, dragMoved, line, here>>

-----------------------------------------------------------------------------
(* The pointer *)

\* OnPointerDown: one drag, one step back.  What was undone can still be redone.
PointerDown(i) ==
    /\ dragging = 0 /\ ~readonly /\ i \in DOMAIN points
    /\ edits < MaxEdits /\ edits' = edits + 1 /\ Hole \notin Range(points)
    /\ dragging' = i /\ dragMoved' = FALSE
    /\ undo' = Pushed(undo, points)
    /\ UNCHANGED <<bounds, points, redo, readonly, line, here, spoilt>>

\* OnPointerMove: the first move makes the drag an edit.
PointerMove ==
    /\ dragging # 0 /\ Hole \notin Range(points)
    /\ redo' = IF dragMoved THEN redo ELSE <<>>
    /\ dragMoved' = TRUE
    /\ \E x \in 1..(bounds + 1) : points' = Put(points, dragging, Clamp(x, bounds))
    /\ IF dragMoved
       THEN line' = [line EXCEPT ![here] = points'] /\ UNCHANGED here
       ELSE Onward(points')
    /\ UNCHANGED <<bounds, undo, dragging, readonly, edits, spoilt>>

\* Whether pressing the handle pushed the oldest step off a full stack.
Full == here > HistoryLimit

\* OnPointerUp, and pointercancel: a click that moved nothing takes its step back.
PointerUp ==
    /\ dragging # 0
    /\ dragging' = 0 /\ dragMoved' = FALSE
    /\ undo' = IF dragMoved \/ undo = <<>> THEN undo ELSE Front(undo)
    /\ spoilt' = (spoilt \/ (~dragMoved /\ Full))
    /\ UNCHANGED <<bounds, points, redo, readonly, edits, line, here>>

-----------------------------------------------------------------------------
EditorNext ==
    \/ SetValue \/ SetBounds \/ SetControlPoints \/ SetReadOnly
    \/ \E i \in 1..MaxPoints :
         InsertPointAfter(i) \/ RemovePoint(i) \/ MovePoint(i) \/ PointerDown(i)
    \/ Undo \/ Redo \/ PointerMove \/ PointerUp

EditorSpec == EditorInit /\ [][EditorNext]_editorVars

-----------------------------------------------------------------------------
(* Properties *)

Inside(s) == \A i \in DOMAIN s : s[i] <= bounds

\* Nothing the editor shows or can bring back lies outside the domain, whatever
\* was resized, undone or assigned in between.
InBounds == \A s \in {points} \cup Range(undo) \cup Range(redo) : Inside(s)

\* The outline has three points or more, and no gap unless a drag was spoilt.
WholeOutline == Len(points) >= 3 /\ (~spoilt => Hole \notin Range(points))

\* Undo goes back through the outlines in order, one drag or call a step, as far
\* as HISTORY_LIMIT reaches, and redo forward again; a click is no step.
LinearHistory ==
    ~spoilt /\ (dragging = 0 \/ dragMoved) =>
        /\ points = line[here]
        /\ undo = SubSeq(line, 1, here - 1)
        /\ redo = Reverse(SubSeq(line, here + 1, Len(line)))

\* What the editor's user can count on, drags interleaved with everything else.
EditorIsSound == InBounds /\ WholeOutline /\ LinearHistory
=============================================================================
