------------------------------- MODULE MCEdges -------------------------------
(***************************************************************************)
(* What lies around the core: the JSON-RPC connection, the TypeScript      *)
(* client's event stream, the solvers, the geometry editor, the viewer,    *)
(* the reads of a job, questions about its fields, and the boundaries of a *)
(* geometry.  The parts share no state: `part` is chosen at the start,     *)
(* that part runs, and the others stay in an initial state, where none of  *)
(* the steps that fairness asks for is enabled.  The calls that read a job *)
(* and the poller of its log do not act on each other, and are two parts.  *)
(***************************************************************************)
EXTENDS RpcConnection, ClientStream, SolverLoops, GeometryEditor, Viewer, JobReads, MCSamples

VARIABLE part

\* Two levels of detail of one job on a grid, and the triangles of another.
Shown ==
    {[job |-> 1, data |-> 1, bounds |-> 1, grid |-> TRUE, fields |-> {1, 2}, vectors |-> TRUE],
     [job |-> 1, data |-> 2, bounds |-> 1, grid |-> TRUE, fields |-> {1, 2}, vectors |-> TRUE],
     [job |-> 2, data |-> 3, bounds |-> 2, grid |-> FALSE, fields |-> {2}, vectors |-> FALSE]}

partsVars ==
    <<part, rpcVars, clientVars, loopVars, editorVars, pictureVars, gestureVars,
      readsVars, fieldVars, boundaryVars>>

PartsInit ==
    /\ part \in {"rpc", "client", "loops", "editor", "picture", "gestures", "reads",
                "pages", "fields", "boundaries"}
    /\ RpcInit /\ ClientInit /\ EditorInit /\ PictureInit /\ ReadsInit
    /\ GesturesInit /\ (part # "gestures" => surface.mode = "none")
    /\ FieldsInit /\ (part # "fields" => solved = CHOOSE p \in Payloads : TRUE)
    /\ BoundariesInit /\ (part # "boundaries" => drawn = Blank)
    /\ LoopsInit /\ (part # "loops" => solver = "mock.heat2d"
                                       /\ params = CHOOSE p \in Params : TRUE)

PartsNext ==
    /\ UNCHANGED part
    /\ IF part = "rpc" THEN RpcNext ELSE UNCHANGED rpcVars
    /\ IF part = "client" THEN ClientNext ELSE UNCHANGED clientVars
    /\ IF part = "loops" THEN LoopsNext ELSE UNCHANGED loopVars
    /\ IF part = "editor" THEN EditorNext ELSE UNCHANGED editorVars
    /\ IF part = "picture" THEN PictureNext ELSE UNCHANGED pictureVars
    /\ IF part = "gestures" THEN GesturesNext ELSE UNCHANGED gestureVars
    /\ CASE part = "reads" -> ReadsNext /\ UNCHANGED poller
         [] part = "pages" -> ReadsNext /\ UNCHANGED reader
         [] OTHER          -> UNCHANGED readsVars
    /\ IF part = "fields" THEN FieldsNext ELSE UNCHANGED fieldVars
    /\ IF part = "boundaries" THEN BoundariesNext ELSE UNCHANGED boundaryVars

PartsSpec ==
    PartsInit /\ [][PartsNext]_partsVars /\ RpcFairness /\ ClientFairness
=============================================================================
