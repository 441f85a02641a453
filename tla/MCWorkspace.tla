----------------------------- MODULE MCWorkspace -----------------------------
(***************************************************************************)
(* Objects, and what is done with three kinds of them: designs, studies and *)
(* optimizations.  The parts share no state (but for the jobs of Search and *)
(* Study, which never run in one behaviour here): `part` is chosen at the   *)
(* start, that part runs, and the others stay in an initial state, where    *)
(* none of the steps that fairness asks for is enabled.                     *)
(***************************************************************************)
EXTENDS Objects, Search, Study, GoldenSection, StudyTables, DesignResolution

VARIABLE part

\* Load cases for a beam: nothing, the root held, the tip loaded, both, and a
\* mistyped key.  Designs that name two load cases, one of them pinned, the same
\* one twice, and one that is not theirs.
Held   == [boundary |-> "root", key |-> "fixed"]
Loaded == [boundary |-> "tip", key |-> "load"]
Typo   == [boundary |-> "root", key |-> "fixd"]
BeamCases == {[s \in S |-> 1] : S \in {{}, {Held}, {Loaded}, {Held, Loaded}, {Typo}}}
Ref(c, r) == [of |-> c, revision |-> r]
Designs ==
    LET one == CHOOSE c \in LoadCases : TRUE
        two == CHOOSE c \in LoadCases : c # one IN
    {[geometry |-> 0, cases |-> <<Ref(one, 0), Ref(two, 0)>>],
     [geometry |-> 1, cases |-> <<Ref(one, 0), Ref(two, 1)>>],
     [geometry |-> 0, cases |-> <<Ref(one, 0), Ref(one, 1)>>],
     [geometry |-> 0, cases |-> <<Ref(two, 0), Ref(Stranger, 0)>>]}

SearchOnly == <<budget, searches, stops, tasks, crashes, ran>>
StudyOnly  == <<pinned, head, submitting, studyRuns, receipt>>

partsVars == <<part, vars, SearchOnly, StudyOnly, jobVars, goldenVars, tableVars,
              resolutionVars>>

PartsInit ==
    /\ part \in {"objects", "search", "study", "golden", "tables", "design"}
    /\ Init
    /\ SearchInit /\ (part # "search" => budget = CHOOSE b \in Budgets : TRUE)
    /\ StudyInit /\ (part # "study" => pinned) /\ (part \notin {"search", "study"} => cacheable)
    /\ GoldenInit /\ (part # "golden" => objective = CHOOSE o \in Objectives : TRUE)
    /\ body \in IF part = "tables" THEN StudyBodies ELSE {CHOOSE b \in Ladders : LegalLadder(b)}
    /\ answers = Unanswered
    /\ IF part = "design" THEN ResolutionInit
       ELSE /\ designs = <<>> /\ shapes = <<>> /\ cases = <<>> /\ patches = 0
            /\ resolving = NotResolving

PartsNext ==
    /\ UNCHANGED part
    /\ IF part = "objects" THEN Next ELSE UNCHANGED vars
    /\ CASE part = "search" -> SearchNext /\ UNCHANGED StudyOnly
         [] part = "study"  -> StudyNext /\ UNCHANGED SearchOnly
         [] OTHER           -> UNCHANGED <<SearchOnly, StudyOnly, jobVars>>
    /\ IF part = "golden" THEN GoldenNext ELSE UNCHANGED goldenVars
    /\ IF part = "tables" THEN VariationAnswers ELSE UNCHANGED tableVars
    /\ IF part = "design" THEN ResolutionNext ELSE UNCHANGED resolutionVars

PartsSpec ==
    /\ PartsInit /\ [][PartsNext]_partsVars
    /\ \A c \in Callers : WF_vars(WriteStep(c))
    /\ SearchFairness
=============================================================================
