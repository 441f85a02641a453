------------------------------ MODULE MCJobRun ------------------------------
(***************************************************************************)
(* Instances of JobRun for TLC.  Two jobs on a pool of one thread make a   *)
(* solve wait for a slot and a timed-out thread hold one; progress events  *)
(* make order and loss visible; one restart lands everywhere.  Jobs are    *)
(* interchangeable, so safety runs may identify them.                      *)
(***************************************************************************)
EXTENDS JobRun

JobSymmetry == Permutations(Jobs)
=============================================================================
