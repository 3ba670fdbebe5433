--------------------------- MODULE PrefetchRegion ---------------------------
(***************************************************************************)
(* The prefetch hint of one VA block (uvm_perf_prefetch.c).  A fault on    *)
(* the block builds a bitmap tree of the pages that are or will be at the  *)
(* destination and computes a region around every faulted page.  The       *)
(* policy hooks gpu_page_prefetch (once per page) and                      *)
(* gpu_page_prefetch_iter (once per tree level) can replace the region:    *)
(* their programs call the kfunc bpf_gpu_set_prefetch_region any number of *)
(* times and return an action, and the driver validates both.              *)
(*                                                                         *)
(* Pages are indices within the block.  The whole computation runs under   *)
(* the block's lock; only the policy program is nondeterministic.          *)
(***************************************************************************)
EXTENDS TransitionValidator, FiniteSetsExt

CONSTANTS
  BlockPages,     \* PAGES_PER_UVM_VA_BLOCK
  TypeOuter,      \* (uvm_page_index_t)~0U
  BigPages,       \* pages of a big page
  Misalignment,   \* pages from the big page boundary below the block to its start
  Threshold,      \* g_uvm_perf_prefetch_threshold, in percent
  MinFaults,      \* g_uvm_perf_prefetch_min_faults
  CounterSize,    \* fault_migrations_to_last_proc counts modulo this (2^16)
  Processors, NoProcessor,
  Inputs,         \* the faults: records as in FaultInput
  RangeGroups,    \* the range group ranges of the block, as sets of pages
  Endpoints,      \* the endpoints a policy asks for, \subseteq U64
  Actions         \* the actions a policy returns

Pages == 0 .. BlockPages - 1

(* What a fault brings: the destination, the region prefetching is allowed *)
(* in, the faulted pages, the pages resident at the destination, those of  *)
(* them mapped on the CPU that a migration to the CPU leaves out, the      *)
(* thrashing pages, whether this is the first touch of a block with its    *)
(* preferred location as the destination, and a bound: whether the policy  *)
(* asks for regions while this fault is serviced.                          *)
FaultInput ==
  [proc : Processors, first : Pages, outer : 1 .. BlockPages,
   faulted : SUBSET Pages, resident : SUBSET Pages, mapped : SUBSET Pages,
   thrashing : SUBSET Pages, first_touch : BOOLEAN, asks : BOOLEAN]

ASSUME GeometryAssumption ==
  /\ BlockPages \in Nat \ {0} /\ TypeOuter \in Nat /\ BlockPages <= TypeOuter
  /\ TypeOuter <= MaxU64
  /\ BigPages \in Nat \ {0} /\ Misalignment \in 0 .. BigPages - 1
  /\ Threshold \in 0 .. 100 /\ MinFaults \in Nat /\ CounterSize \in Nat \ {0}
  /\ Endpoints \subseteq U64 /\ Actions \subseteq Int

ASSUME InputAssumption ==
  /\ Inputs \subseteq FaultInput
  /\ \A f \in Inputs :
       /\ f.first < f.outer
       /\ Misalignment + f.outer <= BlockPages     \* the block ends at the next block boundary
       /\ f.faulted \subseteq f.first .. f.outer - 1

(* No processor has the identifier UVM_ID_INVALID.                         *)
ASSUME ProcessorAssumption == NoProcessor \notin Processors

VARIABLES
  pc,
  fault,       \* the input of the fault being serviced
  tree,        \* the bitmap tree
  todo,        \* the faulted pages not computed yet
  page,        \* page_index
  level,       \* level_idx of the traversal
  request,     \* the decision record of the callback that runs
  asked,       \* history: the first two different regions this callback asked for
  effect,      \* initial_effect
  region,      \* prefetch_region
  mask,        \* out_prefetch_mask
  info,        \* va_block->prefetch_info
  total,       \* history: the faults since the destination last changed, up to MaxTotal
  hint         \* out_hint

vars == <<pc, fault, tree, todo, page, level, request, asked, effect, region, mask, info, total, hint>>

-----------------------------------------------------------------------------
(* The bitmap tree.                                                        *)

geometry ==
  [max_first |-> fault.first, max_outer |-> fault.outer,
   block_outer |-> BlockPages, type_outer |-> TypeOuter]

(* ilog2(roundup_pow_of_two(n)) + 1.                                       *)
level_count(n) == 1 + Min({k \in 0 .. n : n <= 2^k})

(* uvm_va_block_big_page_region_subset: the whole big pages of the region, *)
(* {0, 0} if there is none.                                                *)
big_page_region(f) ==
  LET boundary(i) == (i + Misalignment) % BigPages = 0
      firsts == {i \in f.first .. f.outer : boundary(i)}
  IN  IF \E i \in firsts : i + BigPages <= f.outer
      THEN [first |-> Min(firsts), outer |-> Max(firsts)]
      ELSE EmptyRegion

(* The tree is moved so that its leaves line up with big pages.            *)
tree_offset_of(f) ==
  LET big == big_page_region(f)
  IN  IF big.first > f.first THEN BigPages - (big.first - f.first) ELSE 0

(* grow_fault_granularity: the parts of the region (the pages before the   *)
(* first big page, each big page, the pages after the last) that hold a    *)
(* fault and no thrashing page are filled.                                 *)
grow_fault_granularity(f) ==
  LET big == big_page_region(f)
      part(i) == IF big.outer = 0 THEN {f.first}
                 ELSE IF i < big.first THEN {f.first}
                 ELSE IF i >= big.outer THEN {big.outer}
                 ELSE {i - ((i + Misalignment) % BigPages)}
      same(i) == {j \in f.first .. f.outer - 1 : part(j) = part(i)}
  IN  {i \in f.first .. f.outer - 1 :
         same(i) \cap f.faulted # {} /\ same(i) \cap f.thrashing = {}}

init_bitmap_tree(f) ==
  LET offset == tree_offset_of(f)
      leaf_count == f.outer - f.first + offset
      filled == {i \in f.resident \cup f.faulted : i >= f.first} \cup grow_fault_granularity(f)
  IN  [pages |-> {i - f.first + offset : i \in filled},
       offset |-> offset,
       leaf_count |-> leaf_count,
       level_count |-> level_count(leaf_count)]

node_idx == page - fault.first + tree.offset

(* uvm_perf_prefetch_bitmap_tree_iter_get_range and _get_count.            *)
iter_get_range(l) ==
  LET leaves == 2^(tree.level_count - 1 - l)
      start == node_idx - (node_idx % leaves)
  IN  [first |-> start,
       outer |-> IF start + leaves < tree.leaf_count THEN start + leaves ELSE tree.leaf_count]

iter_get_count(l) ==
  LET range == iter_get_range(l)
  IN  Cardinality({i \in tree.pages : range.first <= i /\ i < range.outer})

over_threshold(l) ==
  LET range == iter_get_range(l)
  IN  iter_get_count(l) * 100 > (range.outer - range.first) * Threshold

translated(l) ==
  translate_region(geometry, iter_get_range(l).first, iter_get_range(l).outer, tree.offset)

(* The native loop keeps the range of the last level (the widest range)    *)
(* that is over the threshold.                                             *)
native_region ==
  LET levels == {l \in 0 .. tree.level_count - 1 : over_threshold(l)}
  IN  IF levels = {} THEN EmptyRegion ELSE translated(Min(levels)).region

-----------------------------------------------------------------------------
MaxTotal == CounterSize + MinFaults

no_decision == no_request(<<0, 0>>)

no_tree == [pages |-> {}, offset |-> 0, leaf_count |-> 1, level_count |-> 1]

Init ==
  /\ pc = "idle"
  /\ fault \in Inputs
  /\ tree = no_tree
  /\ todo = {}
  /\ page = fault.first
  /\ level = -1
  /\ request = no_decision
  /\ asked = {}
  /\ effect = "NATIVE"
  /\ region = EmptyRegion
  /\ mask = {}
  /\ info = [proc |-> NoProcessor, count |-> 0]
  /\ total = 0
  /\ hint = [proc |-> NoProcessor, pages |-> {}]

(* Mutant: the count is kept when the destination changes.                 *)
counted_Kept(f) == [info EXCEPT !.proc = f.proc]

(* The count starts over when the destination is another one.              *)
counted(f) == IF info.proc # f.proc THEN [proc |-> f.proc, count |-> 0] ELSE info

(* uvm_perf_prefetch_get_hint_va_block up to compute_prefetch_mask.        *)
Fault(f) ==
  /\ pc = "idle"
  /\ fault' = f
  /\ hint' = [proc |-> NoProcessor, pages |-> {}]
  /\ info' = counted(f)
  /\ total' = IF info.proc # f.proc THEN 0 ELSE total
  /\ IF f.first_touch
     THEN /\ mask' = f.first .. f.outer - 1
          /\ tree' = no_tree
          /\ todo' = {}
          /\ pc' = "finish"
     ELSE /\ mask' = {}
          /\ tree' = init_bitmap_tree(f)
          /\ todo' = f.faulted \ f.thrashing
          /\ pc' = "next"
  /\ page' = f.first
  /\ level' = -1
  /\ request' = no_decision
  /\ asked' = {}
  /\ effect' = "NATIVE"
  /\ region' = EmptyRegion

(* compute_prefetch_region of the next faulted page: the initial callback  *)
(* starts with a zeroed decision.                                          *)
NextPage ==
  /\ pc = "next"
  /\ todo # {}
  /\ page' = Min(todo)
  /\ todo' = todo \ {page'}
  /\ request' = no_decision
  /\ asked' = {}
  /\ region' = EmptyRegion
  /\ pc' = "initial"
  /\ UNCHANGED <<fault, tree, level, effect, mask, info, total, hint>>

NextNone ==
  /\ pc = "next"
  /\ todo = {}
  /\ pc' = "finish"
  /\ UNCHANGED <<fault, tree, todo, page, level, request, asked, effect, region, mask, info, total, hint>>

(* bpf_gpu_set_prefetch_region, called by the program that runs.           *)
SetPrefetchRegion(first, outer) ==
  /\ pc \in {"initial", "iter"}
  /\ fault.asks
  /\ request' = record_prefetch(request, first, outer)
  /\ asked' = IF Cardinality(asked) < 2 THEN asked \cup {<<first, outer>>} ELSE asked
  /\ UNCHANGED <<pc, fault, tree, todo, page, level, effect, region, mask, info, total, hint>>

(* The initial callback returns; without a registered policy it makes no   *)
(* request and the action is DEFAULT.                                      *)
InitialReturn(action) ==
  /\ pc = "initial"
  /\ LET validated == validate_region(request, geometry)
     IN  /\ effect' = prefetch_initial_effect(action, validated.result)
         /\ region' = CASE effect' = "BYPASS" -> validated.region
                        [] effect' = "NATIVE" -> native_region
                        [] effect' = "ITERATE" -> EmptyRegion
  /\ pc' = IF effect' = "ITERATE" THEN "level" ELSE "fill"
  /\ level' = IF effect' = "ITERATE" THEN tree.level_count - 1 ELSE -1
  /\ UNCHANGED <<fault, tree, todo, page, request, asked, mask, info, total, hint>>

(* The traversal: a level whose range cannot be translated is skipped, for *)
(* any other one the iterator callback starts with a zeroed decision.      *)
LevelSkip ==
  /\ pc = "level"
  /\ level >= 0
  /\ translated(level).result # "APPLY"
  /\ level' = level - 1
  /\ UNCHANGED <<pc, fault, tree, todo, page, request, asked, effect, region, mask, info, total, hint>>

LevelCall ==
  /\ pc = "level"
  /\ level >= 0
  /\ translated(level).result = "APPLY"
  /\ request' = no_decision
  /\ asked' = {}
  /\ pc' = "iter"
  /\ UNCHANGED <<fault, tree, todo, page, level, effect, region, mask, info, total, hint>>

LevelNone ==
  /\ pc = "level"
  /\ level < 0
  /\ pc' = "fill"
  /\ UNCHANGED <<fault, tree, todo, page, level, request, asked, effect, region, mask, info, total, hint>>

IterReturn(action) ==
  /\ pc = "iter"
  /\ LET validated == validate_region(request, geometry)
     IN  region' = IF prefetch_iterator_effect(action, validated.result) = "COMMIT"
                   THEN validated.region ELSE region
  /\ level' = level - 1
  /\ pc' = "level"
  /\ UNCHANGED <<fault, tree, todo, page, request, asked, effect, mask, info, total, hint>>

(* The body of compute_prefetch_mask after compute_prefetch_region.        *)
Fill ==
  /\ pc = "fill"
  /\ mask' = mask \cup (region.first .. region.outer - 1)
  /\ pc' = IF region.outer = fault.outer THEN "finish" ELSE "next"
  /\ UNCHANGED <<fault, tree, todo, page, level, request, asked, effect, region, info, total, hint>>

(* The end of uvm_perf_prefetch_prenotify_fault_migrations and the hint.   *)
pending == ((mask \ fault.faulted) \ fault.mapped) \ fault.thrashing

count_after == (info.count + Cardinality(fault.faulted)) % CounterSize

(* Range group ranges without a fault are not prefetched.                  *)
hinted == pending \ UNION {g \in RangeGroups : g \cap fault.faulted = {}}

Finish ==
  /\ pc = "finish"
  /\ info' = [info EXCEPT !.count = count_after]
  /\ total' = Min({total + Cardinality(fault.faulted), MaxTotal})
  /\ hint' = IF count_after >= MinFaults /\ pending # {}
             THEN [proc |-> IF hinted # {} THEN info.proc ELSE NoProcessor, pages |-> hinted]
             ELSE [proc |-> NoProcessor, pages |-> pending]
  /\ pc' = "idle"
  /\ tree' = no_tree /\ page' = fault.first /\ level' = -1
  /\ request' = no_decision /\ asked' = {} /\ effect' = "NATIVE"
  /\ region' = EmptyRegion /\ mask' = {} /\ todo' = {}
  /\ UNCHANGED fault

Next ==
  \/ \E f \in Inputs : Fault(f)
  \/ \E first, outer \in Endpoints : SetPrefetchRegion(first, outer)
  \/ NextPage \/ NextNone \/ LevelSkip \/ LevelCall \/ LevelNone \/ Fill \/ Finish
  \/ \E a \in Actions : InitialReturn(a) \/ IterReturn(a)

Spec == Init /\ [][Next]_vars

-----------------------------------------------------------------------------
(* Properties.                                                             *)

allowed_pages == fault.first .. fault.outer - 1

(* Whatever a policy asks for and returns, the region of every page and    *)
(* the accumulated mask stay within the region prefetching is allowed in   *)
(* (compute_prefetch_region), and the hint the fault handler gets has no   *)
(* faulted and no thrashing page.                                          *)
RegionContained ==
  /\ region # EmptyRegion =>
       fault.first <= region.first /\ region.first < region.outer /\ region.outer <= fault.outer
  /\ mask \subseteq allowed_pages
  /\ hint.pages \subseteq allowed_pages \ (fault.faulted \cup fault.thrashing)

(* The driver takes a policy's region only if the program asked for this   *)
(* one and no other during the callback, however many calls it made: the   *)
(* request latches the first one and any disagreement                      *)
(* (nv_gpu_transition_record_prefetch).                                    *)
UnanimousRequest ==
  /\ request.attempted <=> asked # {}
  /\ request.attempted => request.value \in asked
  /\ request.conflict <=> Cardinality(asked) > 1
  /\ pc = "fill" /\ effect = "BYPASS" => asked = {<<region.first, region.outer>>}

(* The pages at the destination once the faults are serviced.              *)
at_destination == fault.resident \cup fault.faulted \cup grow_fault_granularity(fault)

within(r) == r.first .. r.outer - 1

(* Tree coordinates are mapped back to the right pages, padding leaves     *)
(* included: the region an iterator callback is shown, and the native      *)
(* region, lie around the faulted page, and more than the threshold of the *)
(* native region's pages are at the destination.                           *)
RegionAroundFault ==
  /\ pc = "iter" => page \in within(translated(level).region)
  /\ pc = "fill" /\ effect = "NATIVE" /\ region # EmptyRegion =>
       /\ page \in within(region)
       /\ Cardinality(at_destination \cap within(region)) * 100
            > Cardinality(within(region)) * Threshold

(* Prefetching is on exactly when the block had MinFaults faults since its *)
(* destination last changed (uvm_perf_prefetch_min_faults), whatever other *)
(* destinations it had before, until the 16 bits of the counter wrap       *)
(* around.                                                                 *)
EnabledByFaults ==
  pc = "idle" /\ hint.pages # {} /\ total < CounterSize =>
    (hint.proc = info.proc <=> total >= MinFaults)

(* What is left to do for the fault: the faulted pages first, then the     *)
(* steps and the levels of the page.                                       *)
remaining ==
  Cardinality(todo) * (2 * BlockPages + 11)
  + CASE pc = "idle" -> 0
      [] pc = "finish" -> 1
      [] pc = "next" -> 2
      [] pc = "fill" -> 3
      [] pc = "iter" -> 4 + 2 * (level + 1)
      [] pc = "level" -> 5 + 2 * (level + 1)
      [] pc = "initial" -> 10 + 2 * BlockPages

(* Every fault is serviced, whichever policy is registered and whatever it *)
(* returns: each step of the driver brings the fault closer to its end     *)
(* (the traversal visits each level once, a page is looked at once), and   *)
(* the verifier admits only programs that make finitely many calls.        *)
FaultServiced ==
  [][\/ pc = "idle"
     \/ pc \in {"initial", "iter"} /\ pc' = pc
     \/ remaining' < remaining]_vars

-----------------------------------------------------------------------------
(* What the comments say and the code does not do.                         *)

(* uvm_perf_prefetch_threshold is the "percentage of children subregions   *)
(* that need to be resident in order to trigger prefetching of the         *)
(* remaining subregions": a subregion over the threshold is prefetched.    *)
ThresholdTriggers ==
  pc = "fill" /\ effect = "NATIVE" /\ (\E l \in 0 .. tree.level_count - 1 : over_threshold(l))
    => region # EmptyRegion

(* uvm_perf_prefetch_min_faults is the "minimum number of faults on a      *)
(* block in order to enable the prefetching logic": after so many faults   *)
(* the pages to prefetch come with a residency, also beyond 2^16 faults.   *)
MinFaultsEnable ==
  pc = "idle" /\ hint.pages # {} /\ total >= MinFaults => hint.proc = info.proc
=============================================================================
