--------------------------- MODULE DesignResolution ---------------------------
(***************************************************************************)
(* From a design's reference to what a solve is given:                     *)
(* Workspace.resolve_design (core/workspace.py), merge_load_cases and      *)
(* check_conditions (core/conditions.py), as submit_design calls them      *)
(* (core/service.py).                                                      *)
(*                                                                         *)
(* A design names its geometry and its load cases, each pinned to a        *)
(* revision or not.  The references are followed one after the other, each *)
(* by a read of its own, and nothing keeps other callers from patching the *)
(* objects in between.                                                     *)
(***************************************************************************)
EXTENDS Naturals, Sequences, Functions, FiniteSets

CONSTANTS
    LoadCases,     \* the load_case objects of this principal
    Stranger,      \* a reference to no load case of theirs
    CaseBodies,    \* load-case bodies: functions from [boundary, key] to a value
    Shapes,        \* geometry bodies, as the set of boundaries they declare
    Drafts,        \* design bodies: [geometry, cases], references as below
    AcceptedKeys,  \* the condition keys the capability reads
    MaxPatches     \* patches (a bound)

ASSUME ResolutionAssumption ==
    /\ Stranger \notin LoadCases /\ MaxPatches \in Nat
    /\ \A b \in CaseBodies : \A s \in DOMAIN b : DOMAIN s = {"boundary", "key"}
    /\ Drafts \subseteq
         [geometry : Nat, cases : Seq([of : LoadCases \cup {Stranger}, revision : Nat])]

VARIABLES
    designs,    \* the revisions of the design, of the geometry and of each load
    shapes,     \* case, oldest first; none is ever rewritten
    cases,
    patches,
    resolving   \* the submission that resolves the design

resolutionVars == <<designs, shapes, cases, patches, resolving>>

NotResolving ==
    [at |-> "idle", plan |-> [geometry |-> 0, cases |-> <<>>], design |-> 0, geometry |-> 0,
     shape |-> {}, pins |-> <<>>, bodies |-> <<>>, conditions |-> <<>>, begun |-> <<>>,
     verdict |-> "none"]

ResolutionInit ==
    /\ \E d \in Drafts, s \in Shapes, b \in CaseBodies :
         designs = <<d>> /\ shapes = <<s>> /\ cases = [c \in LoadCases |-> <<b>>]
    /\ patches = 0
    /\ resolving = NotResolving

-----------------------------------------------------------------------------
(* Other callers *)

\* Workspace.patch of one of the objects; a patch that changes nothing is refused.
\* (Patches made after the answer touch no revision that exists: left out.)
PatchObject ==
    /\ resolving.at # "answered" /\ patches < MaxPatches /\ patches' = patches + 1
    /\ \/ /\ \E d \in Drafts \ {designs[Len(designs)]} : designs' = Append(designs, d)
          /\ UNCHANGED <<shapes, cases>>
       \/ /\ \E s \in Shapes \ {shapes[Len(shapes)]} : shapes' = Append(shapes, s)
          /\ UNCHANGED <<designs, cases>>
       \/ /\ \E c \in LoadCases : \E b \in CaseBodies \ {cases[c][Len(cases[c])]} :
               cases' = [cases EXCEPT ![c] = Append(@, b)]
          /\ UNCHANGED <<designs, shapes>>
    /\ UNCHANGED resolving

-----------------------------------------------------------------------------
(* resolve_design *)

\* Which revision a reference means now; 0 where it means none.
RevisionOf(history, revision) ==
    CASE revision = 0            -> Len(history)
      [] revision \in DOMAIN history -> revision
      [] OTHER                   -> 0

Refuse(why) == resolving' = [resolving EXCEPT !.at = "answered", !.verdict = why]

ReadDesign ==
    /\ resolving.at = "idle"
    /\ resolving' = [resolving EXCEPT
           !.at = "geometry", !.design = Len(designs), !.plan = designs[Len(designs)],
           !.begun = [c \in LoadCases |-> Len(cases[c])]]
    /\ UNCHANGED <<designs, shapes, cases, patches>>

ReadGeometry ==
    /\ resolving.at = "geometry"
    /\ LET r == RevisionOf(shapes, resolving.plan.geometry) IN
         IF r = 0 THEN Refuse("not found")
         ELSE resolving' = [resolving EXCEPT !.at = "cases", !.geometry = r,
                                             !.shape = shapes[r]]
    /\ UNCHANGED <<designs, shapes, cases, patches>>

\* _record of the next load case the design names: pinned and read in one.
ReadCase ==
    /\ resolving.at = "cases"
    /\ Len(resolving.pins) < Len(resolving.plan.cases)
    /\ LET named == resolving.plan.cases[Len(resolving.pins) + 1] IN
         IF named.of = Stranger \/ RevisionOf(cases[named.of], named.revision) = 0
         THEN Refuse("not found")
         ELSE LET r == RevisionOf(cases[named.of], named.revision) IN
              resolving' = [resolving EXCEPT
                  !.pins = Append(@, [of |-> named.of, revision |-> r]),
                  !.bodies = Append(@, cases[named.of][r])]
    /\ UNCHANGED <<designs, shapes, cases, patches>>

\* Two of the load cases set the same key on the same boundary.
Conflicting(bodies) ==
    \E i, j \in DOMAIN bodies : i < j /\ DOMAIN bodies[i] \cap DOMAIN bodies[j] # {}

SetBy(bodies) == UNION {DOMAIN bodies[i] : i \in DOMAIN bodies}

\* merge_load_cases of bodies that do not conflict.
MergeOf(bodies) ==
    [s \in SetBy(bodies) |->
        bodies[CHOOSE i \in DOMAIN bodies : s \in DOMAIN bodies[i]][s]]

\* MergeCases of what the load cases hold by the time it is called ...
MergeCasesReadAgain ==
    /\ resolving.at = "cases" /\ Len(resolving.pins) = Len(resolving.plan.cases)
    /\ LET bodies == [i \in DOMAIN resolving.pins |->
                         LET history == cases[resolving.pins[i].of] IN history[Len(history)]]
       IN IF Conflicting(bodies) THEN Refuse("conflict")
          ELSE resolving' = [resolving EXCEPT !.at = "checking",
                                              !.conditions = MergeOf(bodies)]
    /\ UNCHANGED <<designs, shapes, cases, patches>>

\* ... and of the very bodies that were pinned; a disagreement is refused.
MergeCases ==
    /\ resolving.at = "cases" /\ Len(resolving.pins) = Len(resolving.plan.cases)
    /\ IF Conflicting(resolving.bodies) THEN Refuse("conflict")
       ELSE resolving' = [resolving EXCEPT !.at = "checking",
                                           !.conditions = MergeOf(resolving.bodies)]
    /\ UNCHANGED <<designs, shapes, cases, patches>>

\* check_conditions: boundaries first, then keys.
CheckConditions ==
    /\ resolving.at = "checking"
    /\ LET inForce == DOMAIN resolving.conditions IN
         Refuse(IF \E s \in inForce : s.boundary \notin resolving.shape THEN "unknown boundary"
                ELSE IF \E s \in inForce : s.key \notin AcceptedKeys THEN "unknown key"
                ELSE "accepted")
    /\ UNCHANGED <<designs, shapes, cases, patches>>

ResolutionNext ==
    \/ PatchObject \/ ReadDesign \/ ReadGeometry \/ ReadCase \/ MergeCases \/ CheckConditions

ResolutionSpec == ResolutionInit /\ [][ResolutionNext]_resolutionVars

-----------------------------------------------------------------------------
(* Properties *)

\* The bodies the pins name, whatever the workspace holds by now.
PinnedBodies ==
    [i \in DOMAIN resolving.pins |-> cases[resolving.pins[i].of][resolving.pins[i].revision]]

\* What the job records is what it runs with: the revisions it names, read back
\* at any later time, give the shape and exactly the conditions the solve was
\* given, each set by one load case and nothing dropped; and a job that was
\* refused would be refused again for the same reason by the same revisions.
ProvenanceReproduces ==
    CASE resolving.verdict = "accepted" ->
            /\ resolving.shape = shapes[resolving.geometry]
            /\ DOMAIN resolving.conditions = SetBy(PinnedBodies)
            /\ \A i \in DOMAIN PinnedBodies : \A s \in DOMAIN PinnedBodies[i] :
                 /\ resolving.conditions[s] = PinnedBodies[i][s]
                 /\ s.boundary \in shapes[resolving.geometry] /\ s.key \in AcceptedKeys
      [] resolving.verdict = "conflict" -> Conflicting(PinnedBodies)
      [] resolving.verdict = "unknown boundary" ->
            \E s \in SetBy(PinnedBodies) : s.boundary \notin shapes[resolving.geometry]
      [] OTHER -> TRUE

\* A reference the design pins is followed as it is; one it does not pin never
\* goes back behind the revision that was the head when the call began.
PinsAreObeyed ==
    \A i \in DOMAIN resolving.pins :
        LET named == designs[resolving.design].cases[i]
            taken == resolving.pins[i] IN
        /\ taken.of = named.of
        /\ IF named.revision # 0 THEN taken.revision = named.revision
           ELSE taken.revision >= resolving.begun[named.of]

\* What a design resolves to is what its references say, and stays so.
ResolutionIsSound == ProvenanceReproduces /\ PinsAreObeyed
=============================================================================
