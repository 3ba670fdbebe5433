---------------------------- MODULE MCStructOps ----------------------------
(***************************************************************************)
(* Instances of StructOps for TLC.                                         *)
(***************************************************************************)
EXTENDS StructOps, TLC

CONSTANTS a, b, t1, t2

(* A policy that has every member, and one that has a few.                 *)
FullAndPartial ==
  [i \in Instance |-> IF i = a THEN Hooks ELSE {"gpu_block_access", "on_bind"}]

AllSteps == Steps
=============================================================================
