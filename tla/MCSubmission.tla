---------------------------- MODULE MCSubmission ----------------------------
(* Submission over small sets of processes, owners and keys. *)
EXTENDS Submission, TLC

Symmetry == Permutations(Processes)
=============================================================================
