----------------------------- MODULE MCArqWorkers -----------------------------
(***************************************************************************)
(* Instances of ArqWorkers for TLC.  A worker that dies comes back and is   *)
(* offered the job again, one death and one fault land at every step of    *)
(* every process, and two progress events can overtake each other on the   *)
(* way to Redis.                                                           *)
(***************************************************************************)
EXTENDS ArqWorkers
=============================================================================
