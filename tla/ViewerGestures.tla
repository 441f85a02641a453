--------------------------- MODULE ViewerGestures ---------------------------
(***************************************************************************)
(* The pointer gestures of <fs-viewer> (viewer/src/element.ts): the        *)
(* pointers it holds, a pan, a section being drawn, the pinch a second     *)
(* finger makes of either, and the page's own writes in between.           *)
(*                                                                         *)
(* The browser is external: a mouse hovers and leaves only with no button  *)
(* down (the element captures it); lifting a finger is followed at once by *)
(* a leave.  Two fingers at most touch the surface.                        *)
(***************************************************************************)
EXTENDS Naturals, FiniteSets

CONSTANTS
    Fingers,      \* the fingers of a touch screen
    Mouse,        \* the pointer of a mouse
    Lines,        \* sections a drag may reach or a page assign
    NoLine,       \* no section
    MaxGestures   \* pointers put down (a bound)

ASSUME GestureAssumption ==
    /\ Mouse \notin Fingers /\ NoLine \notin Lines /\ MaxGestures \in Nat

VARIABLES
    touching,      \* external: the pointers that are down
    pointers,      \* #pointers: those whose gesture is claimed
    panning,       \* #dragFrom is set
    drag,          \* #sectionDrag: <<>> or <<the section before it>>
    section,       \* #section
    surface,       \* the attributes `mode` and `interactive`
    begun,         \* pointers put down so far
    kept           \* history: the section last committed or assigned

gestureVars == <<touching, pointers, panning, drag, section, surface, begun, kept>>

Modes == {"probe", "pan", "section", "none"}

GesturesInit ==
    /\ touching = {} /\ pointers = {} /\ panning = FALSE /\ drag = <<>>
    /\ section = NoLine /\ kept = NoLine /\ begun = 0
    /\ surface \in [mode : Modes, interactive : {TRUE}]

\* One device at a time: a second finger only beside a finger, and no third.
Reachable(p) ==
    /\ p \notin touching
    /\ IF p = Mouse THEN touching = {} ELSE Mouse \notin touching /\ Cardinality(touching) < 2

\* #cancelSectionDrag
CancelDrag ==
    /\ drag' = <<>>
    /\ section' = IF drag = <<>> THEN section ELSE drag[1]

\* #onPointerDown.  A finger or button put down while no gesture is claimed is
\* not held; a second one held makes a pinch and abandons the drag.
TouchDown(p) ==
    /\ Reachable(p) /\ begun < MaxGestures
    /\ begun' = begun + 1 /\ touching' = touching \union {p}
    /\ IF ~surface.interactive \/ surface.mode = "none"
       THEN UNCHANGED <<pointers, panning, drag, section>>
       ELSE /\ pointers' = pointers \union {p}
            /\ \/ Cardinality(pointers') = 2 /\ panning' = FALSE /\ CancelDrag
               \/ /\ Cardinality(pointers') # 2 /\ surface.mode = "pan"
                  /\ panning' = TRUE /\ UNCHANGED <<drag, section>>
               \/ /\ Cardinality(pointers') # 2 /\ surface.mode = "section"
                  /\ drag' = <<section>> /\ section' \in Lines /\ UNCHANGED panning
               \/ /\ Cardinality(pointers') # 2 /\ surface.mode = "probe"
                  /\ UNCHANGED <<panning, drag, section>>
    /\ UNCHANGED <<surface, kept>>

\* #onPointerMove, from any pointer: only a drawn section is state here.
TouchMove ==
    /\ Cardinality(pointers) # 2 /\ ~panning /\ drag # <<>> /\ section # NoLine
    /\ section' \in Lines
    /\ UNCHANGED <<touching, pointers, panning, drag, surface, begun, kept>>

\* #onPointerUp commits a drag; #onPointerLeave comes right behind for a finger.
TouchUp(p) ==
    /\ p \in touching /\ touching' = touching \ {p}
    /\ pointers' = IF p = Mouse THEN pointers \ {p} ELSE {}
    /\ panning' = FALSE /\ drag' = <<>>
    /\ kept' = IF drag = <<>> THEN kept ELSE section
    /\ UNCHANGED <<section, surface, begun>>

\* #onPointerCancel, and the leave behind it.
TouchCancel(p) ==
    /\ p \in touching /\ touching' = touching \ {p}
    /\ pointers' = IF p = Mouse THEN pointers \ {p} ELSE {}
    /\ panning' = FALSE /\ CancelDrag
    /\ UNCHANGED <<surface, begun, kept>>

\* #onPointerLeave of a hovering mouse: the section drag is not touched.
TouchLeave ==
    /\ touching = {} /\ pointers' = {} /\ panning' = FALSE
    /\ UNCHANGED <<touching, drag, section, surface, begun, kept>>

\* `set section`, clearSection and the Escape key: ends a drag in flight.
AssignSection(line) ==
    /\ drag' = <<>> /\ section' = line /\ kept' = line
    /\ UNCHANGED <<touching, pointers, panning, surface, begun>>

\* attributeChangedCallback of `mode` and `interactive`: a gesture in flight
\* goes on as it was.
SetSurface(s) ==
    /\ s # surface /\ surface' = s
    /\ UNCHANGED <<touching, pointers, panning, drag, section, begun, kept>>

GesturesNext ==
    \/ \E p \in Fingers \union {Mouse} :
          TouchDown(p) \/ TouchUp(p) \/ TouchCancel(p)
    \/ TouchMove \/ TouchLeave
    \/ \E line \in Lines \union {NoLine} : AssignSection(line)
    \/ \E m \in Modes, i \in BOOLEAN : SetSurface([mode |-> m, interactive |-> i])

GesturesSpec == GesturesInit /\ [][GesturesNext]_gestureVars

(***************************************************************************)
(* What is on screen with no drag in flight is what was last committed or  *)
(* assigned, and a drag in flight remembers exactly that: whatever is      *)
(* abandoned is put back, whatever the pointers and the page did in        *)
(* between (#cancelSectionDrag).  A pinch leaves neither a pan nor a drag  *)
(* behind, and no pointer works both at once.                              *)
(***************************************************************************)
AbandonedIsPutBack == IF drag = <<>> THEN section = kept ELSE drag[1] = kept
OneGesture == /\ panning => drag = <<>>
              /\ Cardinality(pointers) = 2 => ~panning /\ drag = <<>>
GestureIsSound == AbandonedIsPutBack /\ OneGesture
=============================================================================
