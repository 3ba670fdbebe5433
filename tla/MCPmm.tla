-------------------------------- MODULE MCPmm --------------------------------
(***************************************************************************)
(* Instances of UvmPmm for TLC.                                            *)
(***************************************************************************)
EXTENDS UvmPmm

CONSTANTS b1, b2, b3

(* A policy that is not registered, or does nothing.                       *)
NoPolicy == {no_decision}

(* What a policy callback can leave behind: each of the four moves, no     *)
(* request with the native move suppressed, a conflicting request, an      *)
(* unknown destination, and a move with an action the hook rejects.        *)
decision(action, destination, position, conflict) ==
  [action |-> action,
   request |-> [attempted |-> TRUE, conflict |-> conflict, value |-> <<destination, position>>]]

AnyPolicy ==
  {no_decision,
   [no_decision EXCEPT !.action = ACTION_BYPASS],
   decision(ACTION_DEFAULT, DESTINATION_USED, POSITION_HEAD, TRUE),
   decision(ACTION_DEFAULT, 3, POSITION_HEAD, FALSE),
   decision(ACTION_ENTER_LOOP, DESTINATION_UNUSED, POSITION_HEAD, FALSE)}
  \cup {decision(ACTION_BYPASS, d, q, FALSE) :
          d \in {DESTINATION_USED, DESTINATION_UNUSED}, q \in {POSITION_HEAD, POSITION_TAIL}}

(* The physical range of a callback: all of memory.                        *)
AllMemory == {<<0, 1>>}

(* The first root chunk only.                                              *)
FirstRoot == {<<0, 0>>}

Symmetry == Permutations(Block)
=============================================================================
