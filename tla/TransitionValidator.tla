------------------------- MODULE TransitionValidator -------------------------
(***************************************************************************)
(* The pure decision functions of nv-gpu-transition-validator.h and        *)
(* nv-gpu-timeslice-control.h: what a GPU policy callback may ask of the   *)
(* driver and which of its requests the driver accepts.                    *)
(*                                                                         *)
(* A request is a driver-owned record that starts zeroed.  The kfuncs of   *)
(* a callback only write it through the record_* functions; after the      *)
(* callback has returned, a validate_* function compares the snapshot      *)
(* taken before the callback with the state found after it and says        *)
(* whether the request is applied.  NvU64 arithmetic is taken modulo       *)
(* MaxU64 + 1, so a missing overflow check shows.                          *)
(***************************************************************************)
EXTENDS Integers

CONSTANT MaxU64          \* the largest NvU64 (2^64 - 1 in the code)

ASSUME MaxU64Assumption == MaxU64 \in Nat

U64 == 0 .. MaxU64

add_u64(a, b) == (a + b) % (MaxU64 + 1)

-----------------------------------------------------------------------------
(* Results, actions and effects are the enumerators without their prefix.  *)

ACTION_DEFAULT    == 0
ACTION_BYPASS     == 1
ACTION_ENTER_LOOP == 2

DESTINATION_USED   == 1
DESTINATION_UNUSED == 2
POSITION_HEAD      == 1
POSITION_TAIL      == 2

(* A zeroed request whose value field (a number, or a pair of numbers) is  *)
(* zero.                                                                   *)
no_request(zero) == [attempted |-> FALSE, conflict |-> FALSE, value |-> zero]

(* Mutant: the last request wins.                                          *)
record_u64_LastWins(request, value) ==
  [attempted |-> TRUE, conflict |-> request.attempted /\ request.value # value, value |-> value]

(* The first request is kept, repeating it changes nothing, and any other  *)
(* one makes the request conflict for good.                                *)
record_u64(request, value) ==
  [attempted |-> TRUE,
   conflict  |-> request.conflict \/ (request.attempted /\ request.value # value),
   value     |-> IF request.attempted THEN request.value ELSE value]

record_u32(request, value) == record_u64(request, value)

record_prefetch(decision, first, outer) == record_u64(decision, <<first, outer>>)

record_pmm(request, destination, position) ==
  record_u64(request, <<destination, position>>)

-----------------------------------------------------------------------------
(* Scheduler: timeslice and interleave of a new TSG.                       *)

validate_snapshot(expected, observed) ==
  IF expected.tsg_id # observed.tsg_id \/ expected.runlist_id # observed.runlist_id
    THEN "REJECT_IDENTITY"
  ELSE IF expected.phase # observed.phase THEN "NOOP_STALE"
  ELSE "APPLY"

request_result(request, legal) ==
  IF request.conflict THEN "NOOP_CONFLICT"
  ELSE IF ~request.attempted THEN "NOOP_DEFAULT"
  ELSE IF legal THEN "APPLY" ELSE "REJECT_RANGE"

validate_scheduler(expected, observed, timeslice, interleave, minimum, ts_request, il_request) ==
  LET snapshot == validate_snapshot(expected, observed)
      result(request, legal) ==
        IF snapshot = "APPLY" THEN request_result(request, legal) ELSE snapshot
      ts_result == result(ts_request, ts_request.value >= minimum)
      il_result == result(il_request, il_request.value <= 2)
  IN  [timeslice_result  |-> ts_result,
       interleave_result |-> il_result,
       timeslice  |-> IF ts_result = "APPLY" THEN ts_request.value ELSE timeslice,
       interleave |-> IF il_result = "APPLY" THEN il_request.value ELSE interleave]

-----------------------------------------------------------------------------
(* Timeslice control: overriding the timeslice a client sets on its TSG.   *)

TIMESLICE_CONTROL_PHASE  == 1
TIMESLICE_CONTROL_MAX_US == 1000000

timeslice_control_eligible(value, minimum) ==
  value >= 1 /\ value >= minimum /\ value <= TIMESLICE_CONTROL_MAX_US

(* A context is the identity of the control call: ids of the TSG, its      *)
(* engine, runlist and GPU (abstracted to one field), the client and TSG   *)
(* handles, the requested timeslice and the phase.                         *)
timeslice_control_validate(expected, observed, minimum, request) ==
  LET native == expected.requested_timeslice_us
      result ==
        IF \/ [expected EXCEPT !.phase = observed.phase] # observed
           \/ expected.hclient = 0
           \/ expected.htsg = 0
          THEN "REJECT_IDENTITY"
        ELSE IF expected.phase # TIMESLICE_CONTROL_PHASE \/ expected.phase # observed.phase
          THEN "NOOP_STALE"
        ELSE request_result(request, /\ timeslice_control_eligible(native, minimum)
                                     /\ timeslice_control_eligible(request.value, minimum))
  IN  [result |-> result, effective |-> IF result = "APPLY" THEN request.value ELSE native]

-----------------------------------------------------------------------------
(* Prefetch: the action a callback returns and the region it asks for.     *)

validate_initial_action(raw_action) ==
  IF raw_action \in ACTION_DEFAULT .. ACTION_ENTER_LOOP THEN "APPLY" ELSE "REJECT_ACTION"

validate_iterator_action(raw_action) ==
  IF raw_action \in {ACTION_DEFAULT, ACTION_BYPASS} THEN "APPLY" ELSE "REJECT_ACTION"

prefetch_initial_effect(raw_action, region_result) ==
  IF validate_initial_action(raw_action) # "APPLY" THEN "NATIVE"
  ELSE IF raw_action = ACTION_ENTER_LOOP THEN "ITERATE"
  ELSE IF raw_action = ACTION_BYPASS /\ region_result = "APPLY" THEN "BYPASS"
  ELSE "NATIVE"

prefetch_iterator_effect(raw_action, region_result) ==
  IF /\ validate_iterator_action(raw_action) = "APPLY"
     /\ raw_action = ACTION_BYPASS
     /\ region_result = "APPLY"
  THEN "COMMIT" ELSE "IGNORE"

EmptyRegion == [first |-> 0, outer |-> 0]

(* Mutant: the upper bound is the block's.                                 *)
region_is_legal_BlockBound(g, first, outer) ==
  first < outer /\ first >= g.max_first /\ outer <= g.block_outer

(* g is the geometry of the decision: the region prefetching may touch     *)
(* (max_first, max_outer), the pages of the VA block and the pages the     *)
(* page index type can hold.                                               *)
region_is_legal(g, first, outer) ==
  /\ g.max_first <= g.max_outer
  /\ g.max_outer <= g.block_outer
  /\ g.max_outer <= g.type_outer
  /\ first < outer
  /\ first >= g.max_first
  /\ outer <= g.max_outer

validate_region(decision, g) ==
  LET first == decision.value[1]
      outer == decision.value[2]
      result == request_result(decision,
                    <<first, outer>> = <<0, 0>> \/ region_is_legal(g, first, outer))
  IN  [result |-> result,
       region |-> IF result = "APPLY" THEN [first |-> first, outer |-> outer]
                                      ELSE EmptyRegion]

(* Mutant: the tree offset is forgotten.                                   *)
translate_endpoint_NoOffset(g, relative_endpoint, tree_offset) ==
  LET endpoint == add_u64(g.max_first, relative_endpoint)
  IN  IF endpoint > g.max_outer
      THEN [result |-> "REJECT_RANGE", endpoint |-> 0]
      ELSE [result |-> "APPLY", endpoint |-> endpoint]

(* The bitmap tree starts tree_offset pages before max_first; an endpoint  *)
(* relative to the tree is mapped back to a page index of the block.       *)
translate_endpoint(g, relative_endpoint, tree_offset) ==
  LET widened == add_u64(g.max_first, relative_endpoint)
      endpoint == widened - tree_offset
  IN  IF \/ relative_endpoint > MaxU64 - g.max_first
         \/ widened < tree_offset
         \/ endpoint < g.max_first
         \/ endpoint > g.max_outer
         \/ endpoint > g.block_outer
         \/ endpoint > g.type_outer
      THEN [result |-> "REJECT_RANGE", endpoint |-> 0]
      ELSE [result |-> "APPLY", endpoint |-> endpoint]

translate_region(g, relative_first, relative_outer, tree_offset) ==
  LET first == translate_endpoint(g, relative_first, tree_offset)
      outer == translate_endpoint(g, relative_outer, tree_offset)
  IN  IF first.result = "APPLY" /\ outer.result = "APPLY" /\ first.endpoint < outer.endpoint
      THEN [result |-> "APPLY", region |-> [first |-> first.endpoint, outer |-> outer.endpoint]]
      ELSE [result |-> "REJECT_RANGE", region |-> EmptyRegion]

-----------------------------------------------------------------------------
(* PMM: moving a root chunk within and between the eviction lists.         *)

validate_pmm(expected, observed, request) ==
  IF expected.owner_id # observed.owner_id \/ expected.root_id # observed.root_id
    THEN "REJECT_IDENTITY"
  ELSE IF expected.generation # observed.generation \/ expected.source # observed.source
    THEN "NOOP_STALE"
  ELSE request_result(request,
           /\ request.value[1] \in {DESTINATION_USED, DESTINATION_UNUSED}
           /\ request.value[2] \in {POSITION_HEAD, POSITION_TAIL})

pmm_access_effect(raw_action, result) ==
  IF raw_action \notin {ACTION_DEFAULT, ACTION_BYPASS} THEN "PRESERVE"
  ELSE IF result = "APPLY" THEN "COMMIT"
  ELSE IF result = "NOOP_DEFAULT" /\ raw_action = ACTION_DEFAULT THEN "NATIVE"
  ELSE "PRESERVE"

pmm_activate_effect(result) == IF result = "APPLY" THEN "COMMIT" ELSE "PRESERVE"
=============================================================================
