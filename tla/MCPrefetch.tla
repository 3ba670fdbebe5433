----------------------------- MODULE MCPrefetch -----------------------------
(***************************************************************************)
(* Instances of PrefetchRegion for TLC: a block of eight pages and big     *)
(* pages of two.                                                           *)
(***************************************************************************)
EXTENDS PrefetchRegion

CONSTANTS cpu, gpu

fault_on(proc, first, outer, faulted, resident) ==
  [proc |-> proc, first |-> first, outer |-> outer, faulted |-> faulted, resident |-> resident,
   mapped |-> {}, thrashing |-> {}, first_touch |-> FALSE, asks |-> FALSE]

(* A block that starts one page after a big page boundary, so that its     *)
(* tree has a padding leaf, and subregions of it (HMM).                    *)
PolicyInputs ==
  {fault_on(gpu, 0, 7, {3}, {2}),
   fault_on(gpu, 2, 7, {4}, {}),
   [fault_on(gpu, 1, 6, {1, 5}, {2, 4}) EXCEPT !.thrashing = {1}],
   [fault_on(gpu, 1, 7, {4}, {}) EXCEPT !.first_touch = TRUE]}

(* Every fault on one or two pages of two regions.                         *)
NativeInputs ==
  {fault_on(gpu, r[1], r[2], {a, b}, res) :
     r \in {<<0, 6>>, <<2, 6>>}, a, b \in 2 .. 5, res \in SUBSET {0, 3, 5}}
  \cup {[fault_on(cpu, 0, 6, {a}, {b, 5}) EXCEPT !.mapped = {5}, !.thrashing = {b}] :
          a, b \in 0 .. 3}

AllInputs == NativeInputs \cup {[f EXCEPT !.asks = TRUE] : f \in PolicyInputs}

Halves == {{0, 1, 2, 3}, {4, 5, 6, 7}}
=============================================================================
