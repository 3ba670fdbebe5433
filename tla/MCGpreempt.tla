----------------------------- MODULE MCGpreempt -----------------------------
(***************************************************************************)
(* Instances of GpreemptTransport for TLC.                                 *)
(***************************************************************************)
EXTENDS GpreemptTransport, TLC

CONSTANTS p1, p2, k1

(* Two processes that have the same number, one after the other.           *)
SameNumber == [p \in Process |-> 7]

AllFaults == FaultNames

(* The two processes differ in nothing.                                    *)
Symmetry == Permutations(Process)
=============================================================================
