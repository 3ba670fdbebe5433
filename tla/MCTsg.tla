-------------------------------- MODULE MCTsg --------------------------------
(***************************************************************************)
(* Instances of TsgPolicy for TLC.                                         *)
(***************************************************************************)
EXTENDS TsgPolicy, TLC

CONSTANTS t1, t2

TsgSymmetry == Permutations({t1, t2})

(* Below the minimum, two in the domain, and one above it.                 *)
FourTimeslices == {1, 2, 5, 1000001}

TwoTimeslices == {2, 5}

Levels == {0, 2, 3}

AllFaults == FaultNames

OneLevel == {2}

(* Every step but those before the task_init hook and the second           *)
(* acquisition of the lock.                                                *)
LateFaults == FaultNames \ {"early", "relock"}
=============================================================================
