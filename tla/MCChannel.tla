------------------------------ MODULE MCChannel ------------------------------
(***************************************************************************)
(* Instances of UvmChannel for TLC.                                        *)
(***************************************************************************)
EXTENDS UvmChannel

CONSTANTS t1, t2

OnePool == {Channel}

TwoPools == {{c} : c \in Channel}

Symmetry == Permutations(Thread)
==============================================================================
