------------------------ MODULE PrefetchRegion_proofs ------------------------
(***************************************************************************)
(* Proofs about PrefetchRegion, for any block geometry, any width of the   *)
(* machine integers, any faults and any policy.                            *)
(***************************************************************************)
EXTENDS PrefetchRegion, DataLemmas

-----------------------------------------------------------------------------
(* The validator.                                                          *)

(* A region is empty, or it lies within the pages first .. outer - 1.      *)
Inside(r, first, outer) ==
  \/ r = EmptyRegion
  \/ /\ r.first \in Int /\ r.outer \in Int
     /\ first <= r.first /\ r.first < r.outer /\ r.outer <= outer

(* A region that passes nv_gpu_transition_validate_region lies within the  *)
(* region of the geometry and is the one of the decision; one that does    *)
(* not pass is empty.                                                      *)
LEMMA ValidatedInside ==
  ASSUME NEW g, NEW decision, decision.value \in U64 \X U64
  PROVE  /\ Inside(validate_region(decision, g).region, g.max_first, g.max_outer)
         /\ validate_region(decision, g).result = "APPLY" =>
              /\ decision.attempted /\ ~decision.conflict
              /\ validate_region(decision, g).region
                   = [first |-> decision.value[1], outer |-> decision.value[2]]
<1>1. decision.value[1] \in Int /\ decision.value[2] \in Int
  BY MaxU64Assumption DEF U64
<1> DEFINE first == decision.value[1]
           outer == decision.value[2]
           legal == <<first, outer>> = <<0, 0>> \/ region_is_legal(g, first, outer)
           result == request_result(decision, legal)
<1>2. /\ validate_region(decision, g).result = result
      /\ validate_region(decision, g).region
           = IF result = "APPLY" THEN [first |-> first, outer |-> outer] ELSE EmptyRegion
  BY DEF validate_region
<1>3. result = "APPLY" => legal /\ decision.attempted /\ ~decision.conflict
  BY DEF request_result
<1> HIDE DEF result
<1>4. legal => Inside([first |-> first, outer |-> outer], g.max_first, g.max_outer)
  BY <1>1 DEF Inside, region_is_legal, EmptyRegion
<1> QED BY <1>2, <1>3, <1>4 DEF Inside

(* An endpoint that nv_gpu_transition_translate_endpoint accepts is moved  *)
(* without a wrap-around, and stays within the region of the geometry.     *)
LEMMA TranslatedEndpoint ==
  ASSUME NEW g, g.max_first \in Nat, g.max_outer \in Int, NEW offset \in Int, NEW e \in Nat,
         translate_endpoint(g, e, offset).result = "APPLY"
  PROVE  /\ translate_endpoint(g, e, offset).endpoint = g.max_first + e - offset
         /\ g.max_first <= g.max_first + e - offset
         /\ g.max_first + e - offset <= g.max_outer
<1> DEFINE widened == add_u64(g.max_first, e)
<1>1. /\ translate_endpoint(g, e, offset).endpoint = widened - offset
      /\ ~(e > MaxU64 - g.max_first)
      /\ ~(widened - offset < g.max_first) /\ ~(widened - offset > g.max_outer)
  BY DEF translate_endpoint
<1>2. MaxU64 + 1 \in Nat \ {0} /\ g.max_first + e \in 0 .. (MaxU64 + 1) - 1
  BY <1>1, MaxU64Assumption
<1>3. widened = g.max_first + e
  BY <1>2, SmallRemainder DEF add_u64
<1> HIDE DEF widened
<1> QED BY <1>1, <1>3

(* The same for a range of the bitmap tree that                            *)
(* nv_gpu_transition_translate_region maps back to page indices.           *)
LEMMA TranslatedRegion ==
  ASSUME NEW g, g.max_first \in Nat, g.max_outer \in Int, NEW offset \in Int,
         NEW f \in Nat, NEW o \in Nat
  PROVE  /\ Inside(translate_region(g, f, o, offset).region, g.max_first, g.max_outer)
         /\ translate_region(g, f, o, offset).result # "APPLY" =>
              translate_region(g, f, o, offset).region = EmptyRegion
         /\ translate_region(g, f, o, offset).result = "APPLY" =>
              /\ translate_region(g, f, o, offset).region
                   = [first |-> g.max_first + f - offset, outer |-> g.max_first + o - offset]
              /\ g.max_first <= g.max_first + f - offset
<1> DEFINE first == translate_endpoint(g, f, offset)
           outer == translate_endpoint(g, o, offset)
           ok == first.result = "APPLY" /\ outer.result = "APPLY" /\ first.endpoint < outer.endpoint
<1>1. /\ translate_region(g, f, o, offset).region
           = IF ok THEN [first |-> first.endpoint, outer |-> outer.endpoint] ELSE EmptyRegion
      /\ translate_region(g, f, o, offset).result = IF ok THEN "APPLY" ELSE "REJECT_RANGE"
  BY DEF translate_region
<1>2. first.result = "APPLY" =>
        /\ first.endpoint = g.max_first + f - offset
        /\ g.max_first <= g.max_first + f - offset
  BY TranslatedEndpoint
<1>3. outer.result = "APPLY" =>
        /\ outer.endpoint = g.max_first + o - offset
        /\ g.max_first + o - offset <= g.max_outer
  BY TranslatedEndpoint
<1> HIDE DEF first, outer
<1> QED BY <1>1, <1>2, <1>3 DEF Inside

-----------------------------------------------------------------------------
(* The bitmap tree.                                                        *)

(* The block of a fault and its pages.                                     *)
LEMMA FaultFields ==
  ASSUME NEW f \in Inputs
  PROVE  /\ f.first \in Nat /\ f.outer \in Nat /\ f.first < f.outer
         /\ f.outer + Misalignment <= BlockPages
         /\ f.faulted \subseteq f.first .. f.outer - 1
         /\ f.proc \in Processors
         /\ f.resident \subseteq Int
<1>1. /\ f \in FaultInput /\ f.first < f.outer /\ f.faulted \subseteq f.first .. f.outer - 1
      /\ Misalignment + f.outer <= BlockPages
  BY InputAssumption
<1>2. /\ f.first \in Pages /\ f.outer \in 1 .. BlockPages /\ f.proc \in Processors
      /\ f.resident \subseteq Pages
  BY <1>1 DEF FaultInput
<1> QED BY <1>1, <1>2, GeometryAssumption DEF Pages

(* The tree has at most one level more than it has leaves.                 *)
LEMMA LevelCount ==
  ASSUME NEW n \in Nat
  PROVE  level_count(n) \in 1 .. n + 1
<1> DEFINE S == {k \in 0 .. n : n <= 2^k}
<1>1. n \in S
  BY PowerOfTwo
<1>2. Min(S) \in S
  BY <1>1, MinOfNaturals
<1>3. Min(S) \in 0 .. n
  BY <1>2
<1> QED BY <1>3 DEF level_count

(* The padding leaves fill the big page that the region starts in: there   *)
(* are as many as there are pages before the region in that big page.      *)
LEMMA TreeOffset ==
  ASSUME NEW f \in Inputs
  PROVE  tree_offset_of(f) \in Nat /\ tree_offset_of(f) <= f.first + Misalignment
<1> DEFINE firsts == {i \in f.first .. f.outer : (i + Misalignment) % BigPages = 0}
           some == \E i \in firsts : i + BigPages <= f.outer
           b == big_page_region(f).first
<1>0. f.first \in Nat /\ f.outer \in Nat /\ BigPages \in Nat \ {0} /\ Misalignment \in Nat
  BY FaultFields, GeometryAssumption
<1>1. b = IF some THEN Min(firsts) ELSE 0
  BY DEF big_page_region, EmptyRegion
<1>2. tree_offset_of(f) = IF b > f.first THEN BigPages - (b - f.first) ELSE 0
  BY DEF tree_offset_of
<1>3. CASE some
  <2>1. firsts \in SUBSET Nat /\ firsts # {}
    BY <1>0, <1>3
  <2>2. Min(firsts) \in firsts /\ (\A y \in firsts : Min(firsts) <= y)
    BY <2>1, MinOfNaturals
  <2>3. b \in f.first .. f.outer /\ (b + Misalignment) % BigPages = 0
    BY <2>2, <1>1, <1>3
  <2>4. b - f.first < BigPages
    <3> SUFFICES ASSUME b - BigPages >= f.first
                 PROVE  FALSE
      BY <2>3, <1>0
    <3> DEFINE x == b + Misalignment
    <3>1. x \in Int /\ b - BigPages + Misalignment = x - BigPages /\ x % BigPages = 0
      BY <2>3, <1>0
    <3> HIDE DEF x
    <3>2. (b - BigPages + Misalignment) % BigPages = 0
      BY <3>1, <1>0, ShiftedRemainder
    <3>3. b - BigPages \in firsts
      BY <3>2, <2>3, <1>0
    <3>4. b <= b - BigPages
      BY <3>3, <2>2, <1>1, <1>3
    <3> QED BY <3>4, <2>3, <1>0
  <2> HIDE DEF b, firsts
  <2>5. CASE b > f.first
    <3> DEFINE q == (b + Misalignment) \div BigPages
    <3>1. b + Misalignment = BigPages * q /\ q \in Int
      BY <2>3, <1>0, Division
    <3> HIDE DEF q
    <3>2. q >= 1
      <4>1. q <= 0 => BigPages * q <= 0
        BY <3>1, <1>0
      <4>2. b + Misalignment > 0
        BY <2>3, <2>5, <1>0
      <4> QED BY <4>1, <4>2, <3>1, <2>3, <1>0
    <3>3. BigPages * q >= BigPages
      BY <3>1, <3>2, <1>0
    <3>4. BigPages - (b - f.first) <= f.first + Misalignment
      BY <3>1, <3>3, <2>3, <1>0
    <3>5. BigPages - (b - f.first) \in Nat
      BY <2>3, <2>4, <1>0
    <3> QED BY <3>4, <3>5, <2>5, <1>2
  <2>6. CASE ~(b > f.first)
    BY <2>6, <1>0, <1>2
  <2> QED BY <2>5, <2>6
<1>4. CASE ~some
  BY <1>0, <1>1, <1>2, <1>4
<1> QED BY <1>3, <1>4

(* The tree of a fault: no more leaves than the block has pages, and each  *)
(* page at the destination at its leaf.                                    *)
LEMMA TreeFields ==
  ASSUME NEW f \in Inputs, NEW t, t = init_bitmap_tree(f)
  PROVE  /\ t.offset \in Nat /\ t.leaf_count \in Nat /\ t.level_count \in Nat
         /\ t.leaf_count = f.outer - f.first + t.offset
         /\ t.leaf_count <= BlockPages
         /\ t.level_count \in 1 .. BlockPages + 1
         /\ t.pages = {i - f.first + t.offset :
                         i \in {i \in f.resident \cup f.faulted : i >= f.first}
                                 \cup grow_fault_granularity(f)}
<1> DEFINE offset == tree_offset_of(f)
           leaf_count == f.outer - f.first + offset
<1>1. /\ t.offset = offset /\ t.leaf_count = leaf_count
      /\ t.level_count = level_count(leaf_count)
      /\ t.pages = {i - f.first + offset :
                      i \in {i \in f.resident \cup f.faulted : i >= f.first}
                              \cup grow_fault_granularity(f)}
  BY DEF init_bitmap_tree
<1>2. offset \in Nat /\ offset <= f.first + Misalignment
  BY TreeOffset
<1> HIDE DEF offset
<1>3. leaf_count \in Nat /\ leaf_count <= BlockPages
  BY <1>2, FaultFields, GeometryAssumption
<1> HIDE DEF leaf_count
<1>4. level_count(leaf_count) \in 1 .. leaf_count + 1
  BY <1>3, LevelCount
<1> HIDE DEF leaf_count
<1>5. t.level_count \in 1 .. BlockPages + 1
  BY <1>1, <1>3, <1>4, GeometryAssumption
<1> QED BY <1>1, <1>2, <1>3, <1>5 DEF leaf_count

-----------------------------------------------------------------------------
(* The ranges of the traversal.                                            *)

(* The traversal of a page of the block, on the tree of the fault.         *)
Traversing ==
  /\ fault \in Inputs
  /\ page \in fault.first .. fault.outer - 1
  /\ tree = init_bitmap_tree(fault)

(* The range of every level is within the tree and holds the page's leaf.  *)
LEMMA RangeOfLevel ==
  ASSUME Traversing, NEW l \in 0 .. tree.level_count - 1
  PROVE  /\ node_idx \in Nat
         /\ iter_get_range(l).first \in Nat /\ iter_get_range(l).outer \in Nat
         /\ iter_get_range(l).first <= node_idx /\ node_idx < iter_get_range(l).outer
         /\ iter_get_range(l).outer <= tree.leaf_count
<1> DEFINE leaves == 2^(tree.level_count - 1 - l)
           rest == node_idx % leaves
           start == node_idx - rest
           last == IF start + leaves < tree.leaf_count THEN start + leaves ELSE tree.leaf_count
<1>1. /\ tree.offset \in Nat /\ tree.leaf_count \in Nat /\ tree.level_count \in Nat
      /\ tree.leaf_count = fault.outer - fault.first + tree.offset
  BY TreeFields DEF Traversing
<1>2. fault.first \in Nat /\ fault.outer \in Nat /\ page \in fault.first .. fault.outer - 1
  BY FaultFields DEF Traversing
<1>3. node_idx \in Nat /\ node_idx < tree.leaf_count
  BY <1>1, <1>2 DEF node_idx
<1>4. tree.level_count - 1 - l \in Nat
  BY <1>1
<1>5. leaves \in Nat \ {0}
  BY <1>4, PowerOfTwo
<1> HIDE DEF leaves
<1>6. rest \in Nat /\ rest <= node_idx /\ rest < leaves
  BY <1>3, <1>5, RemainderBelow
<1>7. iter_get_range(l).first = start /\ iter_get_range(l).outer = last
  BY DEF iter_get_range, leaves
<1> HIDE DEF rest
<1> QED BY <1>1, <1>3, <1>5, <1>6, <1>7

(* The pages of a region can be counted.                                   *)
LEMMA PagesOfRegion ==
  ASSUME NEW a \in Int, NEW b \in Int, a < b
  PROVE  /\ within([first |-> a, outer |-> b]) = a .. b - 1
         /\ IsFiniteSet(within([first |-> a, outer |-> b]))
         /\ Cardinality(within([first |-> a, outer |-> b])) = b - a
<1>1. within([first |-> a, outer |-> b]) = a .. b - 1
  BY DEF within
<1> QED BY <1>1, FS_Interval

(* A range that can be translated is a region around the page; one that    *)
(* cannot gives the empty region.                                          *)
LEMMA RegionOfLevel ==
  ASSUME Traversing, NEW l \in 0 .. tree.level_count - 1
  PROVE  /\ Inside(translated(l).region, fault.first, fault.outer)
         /\ translated(l).result # "APPLY" => translated(l).region = EmptyRegion
         /\ translated(l).result = "APPLY" =>
              /\ translated(l).region
                   = [first |-> fault.first + iter_get_range(l).first - tree.offset,
                      outer |-> fault.first + iter_get_range(l).outer - tree.offset]
              /\ fault.first <= fault.first + iter_get_range(l).first - tree.offset
              /\ page \in within(translated(l).region)
<1> DEFINE f == iter_get_range(l).first
           o == iter_get_range(l).outer
<1>1. /\ node_idx \in Nat /\ f \in Nat /\ o \in Nat
      /\ f <= node_idx /\ node_idx < o
  BY RangeOfLevel
<1>2. fault.first \in Nat /\ fault.outer \in Nat /\ page \in fault.first .. fault.outer - 1
  BY FaultFields DEF Traversing
<1>3. tree.offset \in Nat
  BY TreeFields DEF Traversing
<1>4. geometry.max_first = fault.first /\ geometry.max_outer = fault.outer
  BY DEF geometry
<1>5. translated(l) = translate_region(geometry, f, o, tree.offset)
  BY DEF translated
<1> HIDE DEF f, o
<1>6. /\ Inside(translated(l).region, fault.first, fault.outer)
      /\ translated(l).result # "APPLY" => translated(l).region = EmptyRegion
      /\ translated(l).result = "APPLY" =>
           /\ translated(l).region
                = [first |-> fault.first + f - tree.offset, outer |-> fault.first + o - tree.offset]
           /\ fault.first <= fault.first + f - tree.offset
  BY <1>1, <1>2, <1>3, <1>4, <1>5, TranslatedRegion
<1>7. ASSUME translated(l).result = "APPLY"
      PROVE  page \in within(translated(l).region)
  <2>1. within(translated(l).region)
          = fault.first + f - tree.offset .. fault.first + o - tree.offset - 1
    BY <1>1, <1>2, <1>3, <1>6, <1>7, PagesOfRegion, SMTT(40)
  <2>2. node_idx = page - fault.first + tree.offset
    BY DEF node_idx
  <2>3. page \in Int /\ fault.first + f - tree.offset <= page
        /\ page <= fault.first + o - tree.offset - 1
    BY <1>1, <1>2, <1>3, <2>2
  <2> QED BY <1>1, <1>2, <1>3, <2>1, <2>3
<1> QED BY <1>6, <1>7 DEF f, o

(* The leaves a range counts are pages at the destination.                 *)
LEMMA LeavesArePages ==
  ASSUME Traversing, NEW l \in 0 .. tree.level_count - 1, translated(l).result = "APPLY"
  PROVE  /\ iter_get_count(l) \in Nat
         /\ iter_get_count(l)
              <= Cardinality(at_destination \cap within(translated(l).region))
<1> DEFINE f == iter_get_range(l).first
           o == iter_get_range(l).outer
           leaves == {i \in tree.pages : f <= i /\ i < o}
           there == at_destination \cap within(translated(l).region)
           shift == [i \in leaves |-> i + fault.first - tree.offset]
<1>1. f \in Nat /\ o \in Nat /\ f < o
  BY RangeOfLevel
<1>2. fault.first \in Nat /\ fault.outer \in Nat
  BY FaultFields DEF Traversing
<1>3. tree.offset \in Nat
  BY TreeFields DEF Traversing
<1>4. translated(l).region
        = [first |-> fault.first + f - tree.offset, outer |-> fault.first + o - tree.offset]
  BY RegionOfLevel
<1>5. tree.pages = {i - fault.first + tree.offset :
                      i \in {i \in fault.resident \cup fault.faulted : i >= fault.first}
                              \cup grow_fault_granularity(fault)}
  BY TreeFields DEF Traversing
<1>6. at_destination \subseteq Int
  BY <1>2, FaultFields DEF at_destination, grow_fault_granularity, Traversing
<1> HIDE DEF f, o
<1>7. /\ within(translated(l).region)
           = fault.first + f - tree.offset .. fault.first + o - tree.offset - 1
      /\ IsFiniteSet(within(translated(l).region))
  <2> DEFINE a == fault.first + f - tree.offset
             b == fault.first + o - tree.offset
  <2>1. a \in Int /\ b \in Int /\ a < b /\ translated(l).region = [first |-> a, outer |-> b]
    BY <1>1, <1>2, <1>3, <1>4
  <2> HIDE DEF a, b
  <2>2. within(translated(l).region) = a .. b - 1 /\ IsFiniteSet(within(translated(l).region))
    BY <2>1, PagesOfRegion
  <2> QED BY <1>1, <1>2, <1>3, <2>2 DEF a, b
<1>8. ASSUME NEW i \in leaves
      PROVE  i \in Int /\ shift[i] = i + fault.first - tree.offset /\ shift[i] \in there
  <2>1. PICK j \in at_destination : i = j - fault.first + tree.offset
    BY <1>5 DEF at_destination
  <2>2. j \in Int /\ j = i + fault.first - tree.offset /\ i \in Int
    BY <2>1, <1>2, <1>3, <1>6
  <2>3. shift[i] = j
    BY <2>2
  <2>4. j \in within(translated(l).region)
    BY <2>2, <1>1, <1>2, <1>3, <1>7
  <2> QED BY <2>1, <2>2, <2>3, <2>4
<1>9. shift \in [leaves -> there]
  BY <1>8
<1> HIDE DEF shift
<1>10. shift \in Injection(leaves, there)
  <2>1. \A i, j \in leaves : shift[i] = shift[j] => i = j
    BY <1>2, <1>3, <1>8
  <2> QED BY <1>9, <2>1 DEF Injection, IsInjective
<1> HIDE DEF leaves
<1>11. IsFiniteSet(there)
  BY <1>7, FS_Subset
<1> HIDE DEF there
<1>12. IsFiniteSet(leaves) /\ Cardinality(leaves) <= Cardinality(there)
  BY <1>10, <1>11, FS_Injection
<1>13. Cardinality(leaves) \in Nat
  BY <1>12, FS_CardinalityType
<1>14. iter_get_count(l) = Cardinality(leaves)
  BY DEF iter_get_count, leaves, f, o
<1> QED BY <1>12, <1>13, <1>14 DEF there

(* A region around the page p, more than the threshold of whose pages are  *)
(* at the destination.                                                     *)
Filled(p, r) ==
  /\ p \in within(r)
  /\ Cardinality(at_destination \cap within(r)) * 100 > Cardinality(within(r)) * Threshold

(* So is the region of a level over the threshold, if it can be translated *)
(* at all.                                                                 *)
LEMMA OverThreshold ==
  ASSUME Traversing, NEW l \in 0 .. tree.level_count - 1,
         over_threshold(l), translated(l).region # EmptyRegion
  PROVE  Filled(page, translated(l).region)
<1> DEFINE r == translated(l).region
           f == iter_get_range(l).first
           o == iter_get_range(l).outer
           have == Cardinality(at_destination \cap within(r))
<1>1. translated(l).result = "APPLY"
  BY RegionOfLevel
<1>2. /\ page \in within(r)
      /\ r = [first |-> fault.first + f - tree.offset, outer |-> fault.first + o - tree.offset]
  BY <1>1, RegionOfLevel
<1>3. /\ f \in Nat /\ o \in Nat /\ f < o /\ fault.first \in Nat /\ tree.offset \in Nat
  BY RangeOfLevel, FaultFields, TreeFields DEF Traversing
<1>4. iter_get_count(l) * 100 > (o - f) * Threshold
  BY DEF over_threshold
<1> HIDE DEF f, o, r
<1>5. IsFiniteSet(within(r)) /\ Cardinality(within(r)) = o - f
  <2> DEFINE a == fault.first + f - tree.offset
             b == fault.first + o - tree.offset
  <2>1. a \in Int /\ b \in Int /\ a < b /\ b - a = o - f /\ r = [first |-> a, outer |-> b]
    BY <1>2, <1>3
  <2> HIDE DEF a, b
  <2> QED BY <2>1, PagesOfRegion
<1>6. IsFiniteSet(at_destination \cap within(r))
  BY <1>5, FS_Subset
<1>7. have \in Nat
  BY <1>6, FS_CardinalityType
<1>8. iter_get_count(l) \in Nat /\ iter_get_count(l) <= have
  BY <1>1, LeavesArePages DEF r
<1> HIDE DEF have
<1>9. have * 100 > (o - f) * Threshold
  <2> DEFINE bound == (o - f) * Threshold
  <2>1. bound \in Int
    BY <1>3, GeometryAssumption
  <2>2. iter_get_count(l) * 100 > bound
    BY <1>4
  <2> HIDE DEF bound
  <2>3. have * 100 > bound
    BY <1>7, <1>8, <2>1, <2>2
  <2> QED BY <2>3 DEF bound
<1>10. Filled(page, r)
  BY <1>2, <1>5, <1>9 DEF Filled, have
<1> QED BY <1>10 DEF r

(* The native region is empty or filled in this way.                       *)
LEMMA NativeRegion ==
  ASSUME Traversing
  PROVE  /\ Inside(native_region, fault.first, fault.outer)
         /\ native_region # EmptyRegion => Filled(page, native_region)
<1> DEFINE levels == {l \in 0 .. tree.level_count - 1 : over_threshold(l)}
<1>1. tree.level_count \in Nat
  BY TreeFields DEF Traversing
<1>2. CASE levels = {}
  BY <1>2 DEF native_region, Inside
<1>3. CASE levels # {}
  <2>1. levels \in SUBSET Nat
    BY <1>1
  <2>2. Min(levels) \in levels
    BY <1>3, <2>1, MinOfNaturals
  <2> DEFINE l == Min(levels)
  <2>3. l \in 0 .. tree.level_count - 1 /\ over_threshold(l)
    BY <2>2
  <2>4. native_region = translated(l).region
    BY <1>3 DEF native_region
  <2> HIDE DEF l
  <2> QED BY <2>3, <2>4, RegionOfLevel, OverThreshold
<1> QED BY <1>2, <1>3

-----------------------------------------------------------------------------
(* The inductive invariant.                                                *)

Steps == {"idle", "next", "initial", "level", "iter", "fill", "finish"}

(* The state the driver keeps while it services a fault.                   *)
Working ==
  /\ pc \in Steps
  /\ fault \in Inputs
  /\ todo \subseteq fault.faulted
  /\ page \in fault.first .. fault.outer - 1
  /\ pc \in {"next", "initial", "level", "iter", "fill"} => tree = init_bitmap_tree(fault)
  /\ pc \in {"level", "iter"} => level \in -1 .. tree.level_count - 1 /\ effect = "ITERATE"
  /\ pc = "iter" => level >= 0 /\ translated(level).result = "APPLY"

(* The request stands for what the program asked for: nothing, one region, *)
(* or two different ones of which it latched the first.                    *)
Latched ==
  \/ asked = {} /\ request = no_decision
  \/ \E v \in U64 \X U64 :
       asked = {v} /\ request = [attempted |-> TRUE, conflict |-> FALSE, value |-> v]
  \/ \E v, w \in U64 \X U64 :
       /\ v # w /\ asked = {v, w}
       /\ request = [attempted |-> TRUE, conflict |-> TRUE, value |-> v]

(* A region that bypasses the computation is the only one asked for.       *)
Bypassed ==
  pc = "fill" /\ effect = "BYPASS" => asked = {<<region.first, region.outer>>}

Contained ==
  /\ Inside(region, fault.first, fault.outer)
  /\ mask \subseteq allowed_pages
  /\ hint.pages \subseteq allowed_pages \ (fault.faulted \cup fault.thrashing)

NativeFilled ==
  pc = "fill" /\ effect = "NATIVE" /\ region # EmptyRegion => Filled(page, region)

(* The counter counts the faults since the destination changed, until it   *)
(* wraps around.                                                           *)
Counting ==
  /\ info \in [proc : Processors \cup {NoProcessor}, count : Nat]
  /\ total \in Nat
  /\ total < CounterSize => info.count = total
  /\ pc # "idle" => info.proc = fault.proc

PrefetchInv ==
  Working /\ Latched /\ Bypassed /\ Contained /\ NativeFilled /\ Counting /\ EnabledByFaults

(* Between the callbacks nothing is asked for.                             *)
LEMMA NothingAsked ==
  /\ <<0, 0>> \in U64 \X U64 /\ no_decision.value = <<0, 0>>
  BY MaxU64Assumption DEF U64, no_decision, no_request

(* The region of a request is a pair of machine integers.                  *)
LEMMA RequestValue ==
  ASSUME Latched
  PROVE  request.value \in U64 \X U64
  BY NothingAsked DEF Latched

(* The empty region is within every region.                                *)
LEMMA EmptyContained == ASSUME NEW a, NEW b PROVE Inside(EmptyRegion, a, b)
  BY DEF Inside

(* A faulted page exists when the work on it starts.                       *)
LEMMA FirstPage ==
  ASSUME NEW f \in Inputs, NEW S \in SUBSET f.faulted, S # {}
  PROVE  Min(S) \in S /\ Min(S) \in f.first .. f.outer - 1
<1>1. S \in SUBSET Nat
  BY FaultFields
<1>2. Min(S) \in S
  BY <1>1, MinOfNaturals
<1> QED BY <1>2, FaultFields

(* Every initial state satisfies the invariant.                            *)
LEMMA PrefetchInit == Init => PrefetchInv
<1> SUFFICES ASSUME Init
             PROVE  PrefetchInv
  OBVIOUS
<1> USE DEF Init
<1>1. Working
  BY FaultFields DEF Working, Steps
<1>2. Latched
  BY DEF Latched
<1>3. Contained
  BY EmptyContained DEF Contained
<1>4. Counting /\ EnabledByFaults
  BY GeometryAssumption DEF Counting, EnabledByFaults
<1>5. Bypassed /\ NativeFilled
  BY DEF Bypassed, NativeFilled
<1> QED BY <1>1, <1>2, <1>3, <1>4, <1>5 DEF PrefetchInv

-----------------------------------------------------------------------------
(* The steps.                                                              *)

(* The working state.                                                      *)
LEMMA WorkingStep ==
  ASSUME PrefetchInv, [Next]_vars
  PROVE  Working'
<1> USE DEF PrefetchInv, Working, Steps
<1>1. ASSUME NEW f \in Inputs, Fault(f)
      PROVE  Working'
  BY <1>1, FaultFields DEF Fault
<1>2. ASSUME NEW first \in Endpoints, NEW outer \in Endpoints, SetPrefetchRegion(first, outer)
      PROVE  Working'
  <2>1. UNCHANGED <<pc, fault, tree, todo, page, level, effect>>
    BY <1>2 DEF SetPrefetchRegion
  <2>2. translated(level)' = translated(level)
    BY <2>1 DEF translated, geometry, iter_get_range, node_idx
  <2> QED BY <2>1, <2>2
<1>3. CASE NextPage
  <2>1. page' \in fault.first .. fault.outer - 1 /\ todo' \subseteq fault.faulted
    BY <1>3, FirstPage DEF NextPage
  <2>2. pc = "next" /\ pc' = "initial" /\ UNCHANGED <<fault, tree>>
    BY <1>3 DEF NextPage
  <2> QED BY <2>1, <2>2
<1>4. CASE NextNone
  BY <1>4 DEF NextNone
<1>5. CASE LevelSkip
  <2>1. tree = init_bitmap_tree(fault) /\ tree.level_count \in Nat
    BY <1>5, TreeFields DEF LevelSkip
  <2> QED BY <1>5, <2>1 DEF LevelSkip
<1>6. CASE LevelCall
  <2>1. UNCHANGED <<fault, tree, todo, page, level, effect>> /\ pc = "level" /\ pc' = "iter"
        /\ level >= 0 /\ translated(level).result = "APPLY"
    BY <1>6 DEF LevelCall
  <2>2. translated(level)' = translated(level)
    BY <2>1 DEF translated, geometry, iter_get_range, node_idx
  <2> QED BY <2>1, <2>2
<1>7. CASE LevelNone
  BY <1>7 DEF LevelNone
<1>8. CASE Fill
  BY <1>8 DEF Fill
<1>9. CASE Finish
  BY <1>9, FaultFields DEF Finish
<1>10. ASSUME NEW a \in Actions, InitialReturn(a)
       PROVE  Working'
  <2>1. tree = init_bitmap_tree(fault) /\ tree.level_count \in Nat \ {0}
    BY <1>10, TreeFields DEF InitialReturn
  <2> QED BY <1>10, <2>1 DEF InitialReturn
<1>11. ASSUME NEW a \in Actions, IterReturn(a)
       PROVE  Working'
  <2>1. tree = init_bitmap_tree(fault) /\ tree.level_count \in Nat
    BY <1>11, TreeFields DEF IterReturn
  <2> QED BY <1>11, <2>1 DEF IterReturn
<1>12. CASE UNCHANGED vars
  <2>1. UNCHANGED <<pc, fault, tree, todo, page, level, effect>>
    BY <1>12 DEF vars
  <2>2. translated(level)' = translated(level)
    BY <2>1 DEF translated, geometry, iter_get_range, node_idx
  <2> QED BY <2>1, <2>2
<1> QED BY <1>1, <1>2, <1>3, <1>4, <1>5, <1>6, <1>7, <1>8, <1>9, <1>10, <1>11, <1>12 DEF Next

(* Two different regions are two.                                          *)
LEMMA TwoElements ==
  ASSUME NEW v, NEW w, v # w
  PROVE  Cardinality({v, w}) = 2
<1>1. Cardinality({v}) = 1 /\ IsFiniteSet({v}) /\ {v, w} = {v} \cup {w}
  BY FS_Singleton
<1> QED BY <1>1, FS_AddElement

(* A call of the program is recorded: the first region is latched, and a   *)
(* different one makes the request conflict.                               *)
LEMMA RecordStep ==
  ASSUME Latched, NEW first \in Endpoints, NEW outer \in Endpoints,
         SetPrefetchRegion(first, outer)
  PROVE  Latched'
<1> DEFINE u == <<first, outer>>
<1>1. u \in U64 \X U64
  BY GeometryAssumption
<1>2. /\ asked' = IF Cardinality(asked) < 2 THEN asked \cup {u} ELSE asked
      /\ request' = [attempted |-> TRUE,
                     conflict |-> request.conflict \/ (request.attempted /\ request.value # u),
                     value |-> IF request.attempted THEN request.value ELSE u]
  BY DEF SetPrefetchRegion, record_prefetch, record_u64
<1> HIDE DEF u
<1>3. CASE asked = {} /\ request = no_decision
  <2>1. asked' = {u}
    BY <1>2, <1>3, FS_EmptySet
  <2>2. request' = [attempted |-> TRUE, conflict |-> FALSE, value |-> u]
    BY <1>2, <1>3 DEF no_decision, no_request
  <2> QED BY <1>1, <2>1, <2>2 DEF Latched
<1>4. ASSUME NEW v \in U64 \X U64, asked = {v},
             request = [attempted |-> TRUE, conflict |-> FALSE, value |-> v]
      PROVE  Latched'
  <2>1. asked' = {v, u}
    BY <1>2, <1>4, FS_Singleton, SMTT(40)
  <2>2. request' = [attempted |-> TRUE, conflict |-> v # u, value |-> v]
    BY <1>2, <1>4
  <2>3. CASE u = v
    BY <1>1, <2>1, <2>2, <2>3 DEF Latched
  <2>4. CASE u # v
    BY <1>1, <2>1, <2>2, <2>4 DEF Latched
  <2> QED BY <2>3, <2>4
<1>5. ASSUME NEW v \in U64 \X U64, NEW w \in U64 \X U64, v # w, asked = {v, w},
             request = [attempted |-> TRUE, conflict |-> TRUE, value |-> v]
      PROVE  Latched'
  <2>1. Cardinality(asked) = 2
    BY <1>5, TwoElements
  <2>2. asked' = asked
    BY <1>2, <2>1
  <2>3. request' = [attempted |-> TRUE, conflict |-> TRUE, value |-> v]
    BY <1>2, <1>5
  <2> QED BY <1>5, <2>2, <2>3 DEF Latched
<1> QED BY <1>3, <1>4, <1>5 DEF Latched

(* Every callback starts with nothing asked for.                           *)
LEMMA LatchedStep ==
  ASSUME PrefetchInv, [Next]_vars
  PROVE  Latched'
<1> USE DEF PrefetchInv
<1>1. CASE asked' = {} /\ request' = no_decision
  BY <1>1 DEF Latched
<1>2. CASE UNCHANGED <<asked, request>>
  BY <1>2 DEF Latched
<1>3. ASSUME NEW first \in Endpoints, NEW outer \in Endpoints, SetPrefetchRegion(first, outer)
      PROVE  Latched'
  BY <1>3, RecordStep
<1> QED BY <1>1, <1>2, <1>3 DEF Next, vars, Fault, NextPage, NextNone, LevelSkip, LevelCall,
             LevelNone, Fill, Finish, InitialReturn, IterReturn

(* What the driver takes over when the initial callback returns.           *)
LEMMA InitialReturnStep ==
  ASSUME PrefetchInv, NEW a \in Actions, InitialReturn(a)
  PROVE  Bypassed' /\ Contained' /\ NativeFilled'
<1> USE DEF PrefetchInv
<1> DEFINE v == validate_region(request, geometry)
<1>1. /\ effect' = prefetch_initial_effect(a, v.result)
      /\ region' = CASE effect' = "BYPASS" -> v.region
                     [] effect' = "NATIVE" -> native_region
                     [] effect' = "ITERATE" -> EmptyRegion
      /\ pc = "initial" /\ UNCHANGED <<fault, page, asked, mask, hint>>
  BY DEF InitialReturn
<1>2. /\ effect' \in {"BYPASS", "NATIVE", "ITERATE"}
      /\ effect' = "BYPASS" => v.result = "APPLY"
  BY <1>1 DEF prefetch_initial_effect
<1>3. geometry.max_first = fault.first /\ geometry.max_outer = fault.outer
  BY DEF geometry
<1>4. request.value \in U64 \X U64
  BY RequestValue
<1>5. /\ Inside(v.region, fault.first, fault.outer)
      /\ v.result = "APPLY" =>
           /\ request.attempted /\ ~request.conflict
           /\ v.region = [first |-> request.value[1], outer |-> request.value[2]]
  BY <1>3, <1>4, ValidatedInside
<1> HIDE DEF v
<1>6. Traversing
  BY <1>1 DEF Working, Traversing
<1>7. /\ Inside(native_region, fault.first, fault.outer)
      /\ native_region # EmptyRegion => Filled(page, native_region)
  BY <1>6, NativeRegion
<1>8. Inside(region', fault.first, fault.outer)
  BY <1>1, <1>2, <1>5, <1>7, EmptyContained
<1>9. Contained'
  BY <1>1, <1>8 DEF Contained, allowed_pages
<1>10. NativeFilled'
  <2> SUFFICES ASSUME effect' = "NATIVE", region' # EmptyRegion
               PROVE  Filled(page, region)'
    BY DEF NativeFilled
  <2>1. region' = native_region
    BY <1>1
  <2>2. Filled(page, region')
    BY <1>7, <2>1
  <2>3. at_destination' = at_destination
    BY <1>1 DEF at_destination
  <2> QED BY <1>1, <2>2, <2>3 DEF Filled
<1>11. Bypassed'
  <2> SUFFICES ASSUME effect' = "BYPASS"
               PROVE  asked = {<<region'.first, region'.outer>>}
    BY <1>1 DEF Bypassed
  <2>1. /\ request.attempted /\ ~request.conflict
        /\ region'.first = request.value[1] /\ region'.outer = request.value[2]
    BY <1>1, <1>2, <1>5
  <2>2. PICK w \in U64 \X U64 : asked = {w} /\ request.value = w
    BY <2>1 DEF Latched, no_decision, no_request
  <2> QED BY <2>1, <2>2
<1> QED BY <1>9, <1>10, <1>11

(* The region of the page stays as the driver took it until the page is    *)
(* filled in.                                                              *)
LEMMA RegionStep ==
  ASSUME PrefetchInv, [Next]_vars
  PROVE  Bypassed' /\ NativeFilled'
<1> USE DEF PrefetchInv
<1>1. ASSUME NEW a \in Actions, InitialReturn(a)
      PROVE  Bypassed' /\ NativeFilled'
  BY <1>1, InitialReturnStep
<1>2. CASE pc' # "fill"
  BY <1>2 DEF Bypassed, NativeFilled
<1>3. CASE LevelNone
  BY <1>3 DEF LevelNone, Working, Bypassed, NativeFilled
<1>4. CASE UNCHANGED vars
  <2>1. UNCHANGED <<pc, effect, asked, region, page, at_destination>>
    BY <1>4 DEF vars, at_destination
  <2> QED BY <2>1 DEF Bypassed, NativeFilled, Filled
<1> QED BY <1>1, <1>2, <1>3, <1>4 DEF Next, Fault, SetPrefetchRegion, NextPage, NextNone, LevelSkip,
             LevelCall, Fill, Finish, IterReturn

(* Nothing outside the allowed region gets into the mask.                  *)
LEMMA ContainedStep ==
  ASSUME PrefetchInv, [Next]_vars
  PROVE  Contained'
<1> USE DEF PrefetchInv
<1>0. fault.first \in Nat /\ fault.outer \in Nat
  BY FaultFields DEF Working
<1>1. ASSUME NEW f \in Inputs, Fault(f)
      PROVE  Contained'
  BY <1>1, EmptyContained DEF Fault, Contained, allowed_pages
<1>2. ASSUME NEW a \in Actions, InitialReturn(a)
      PROVE  Contained'
  BY <1>2, InitialReturnStep
<1>3. ASSUME NEW a \in Actions, IterReturn(a)
      PROVE  Contained'
  <2> DEFINE v == validate_region(request, geometry)
  <2>1. geometry.max_first = fault.first /\ geometry.max_outer = fault.outer
    BY DEF geometry
  <2>2. request.value \in U64 \X U64
    BY RequestValue
  <2>3. Inside(v.region, fault.first, fault.outer)
    BY <2>1, <2>2, ValidatedInside
  <2>4. region' \in {v.region, region} /\ UNCHANGED <<fault, mask, hint>>
    BY <1>3 DEF IterReturn
  <2> HIDE DEF v
  <2> QED BY <2>3, <2>4 DEF Contained, allowed_pages
<1>4. CASE Fill
  <2>1. mask' = mask \cup (region.first .. region.outer - 1) /\ UNCHANGED <<fault, region, hint>>
    BY <1>4 DEF Fill
  <2>2. region.first .. region.outer - 1 \subseteq allowed_pages
    BY <1>0 DEF Contained, Inside, EmptyRegion, allowed_pages
  <2> QED BY <2>1, <2>2 DEF Contained, allowed_pages
<1>5. CASE Finish
  <2>1. hint'.pages \in {hinted, pending} /\ mask' = {} /\ region' = EmptyRegion /\ fault' = fault
    BY <1>5 DEF Finish
  <2>2. hinted \subseteq pending /\ pending \subseteq mask \ (fault.faulted \cup fault.thrashing)
    BY DEF hinted, pending
  <2> QED BY <2>1, <2>2, EmptyContained DEF Contained, allowed_pages
<1>6. CASE NextPage
  BY <1>6, EmptyContained DEF NextPage, Contained, allowed_pages
<1>7. CASE UNCHANGED <<fault, region, mask, hint>>
  BY <1>7 DEF Contained, allowed_pages
<1> QED BY <1>1, <1>2, <1>3, <1>4, <1>5, <1>6, <1>7 DEF Next, vars, SetPrefetchRegion, NextNone,
             LevelSkip, LevelCall, LevelNone

(* The counter of a fault, and the processor of its hint.                  *)
LEMMA CountingStep ==
  ASSUME PrefetchInv, [Next]_vars
  PROVE  Counting' /\ EnabledByFaults'
<1> USE DEF PrefetchInv
<1>1. ASSUME NEW f \in Inputs, Fault(f)
      PROVE  Counting' /\ EnabledByFaults'
  <2>1. f.proc \in Processors
    BY FaultFields
  <2>2. /\ info' = IF info.proc # f.proc THEN [proc |-> f.proc, count |-> 0] ELSE info
        /\ total' = IF info.proc # f.proc THEN 0 ELSE total
        /\ fault' = f /\ pc' # "idle"
    BY <1>1 DEF Fault, counted
  <2> QED BY <2>1, <2>2 DEF Counting, EnabledByFaults
<1>2. CASE Finish
  <2> DEFINE n == Cardinality(fault.faulted)
             after == (info.count + n) % CounterSize
  <2>1. n \in Nat
    <3>1. fault.faulted \in SUBSET (fault.first .. fault.outer - 1)
          /\ fault.first \in Int /\ fault.outer - 1 \in Int
      BY FaultFields DEF Working
    <3>2. IsFiniteSet(fault.faulted)
      BY <3>1, FS_Interval, FS_Subset
    <3> QED BY <3>2, FS_CardinalityType
  <2>2. /\ info' = [info EXCEPT !.count = after]
        /\ total' = Min({total + n, MaxTotal})
        /\ hint' = IF after >= MinFaults /\ pending # {}
                   THEN [proc |-> IF hinted # {} THEN info.proc ELSE NoProcessor, pages |-> hinted]
                   ELSE [proc |-> NoProcessor, pages |-> pending]
        /\ pc = "finish" /\ pc' = "idle"
    BY <1>2 DEF Finish, count_after
  <2> HIDE DEF n
  <2>3. /\ info \in [proc : Processors \cup {NoProcessor}, count : Nat] /\ total \in Nat
        /\ total < CounterSize => info.count = total
        /\ info.proc \in Processors
    BY <2>2, FaultFields DEF Counting, Working
  <2>4. CounterSize \in Nat \ {0} /\ MaxTotal \in Nat /\ CounterSize <= MaxTotal /\ MinFaults \in Nat
    BY GeometryAssumption DEF MaxTotal
  <2>5. after \in Nat
    BY <2>1, <2>3, <2>4, RemainderBelow
  <2>6. total' = IF total + n <= MaxTotal THEN total + n ELSE MaxTotal
    BY <2>1, <2>2, <2>3, <2>4, MinOfTwo
  <2>7. ASSUME total' < CounterSize
        PROVE  after = total'
    <3>1. total' = total + n /\ total < CounterSize
      BY <2>1, <2>3, <2>4, <2>6, <2>7
    <3>2. info.count + n \in 0 .. CounterSize - 1 /\ info.count + n = total'
      BY <2>1, <2>3, <2>4, <2>7, <3>1
    <3> QED BY <2>4, <3>2, SmallRemainder
  <2> HIDE DEF after
  <2>8. Counting'
    BY <2>1, <2>2, <2>3, <2>4, <2>5, <2>6, <2>7 DEF Counting
  <2>9. EnabledByFaults'
    BY <2>2, <2>3, <2>7, ProcessorAssumption DEF EnabledByFaults
  <2> QED BY <2>8, <2>9
<1>3. CASE UNCHANGED <<fault, info, total>> /\ pc # "idle" /\ pc' # "idle"
  BY <1>3 DEF Counting, EnabledByFaults
<1>4. CASE UNCHANGED vars
  BY <1>4 DEF Counting, EnabledByFaults, vars
<1> QED BY <1>1, <1>2, <1>3, <1>4 DEF Next, SetPrefetchRegion, NextPage, NextNone, LevelSkip,
             LevelCall, LevelNone, Fill, InitialReturn, IterReturn

-----------------------------------------------------------------------------
(* The theorems.                                                           *)

(* The invariant holds in every reachable state.                           *)
LEMMA PrefetchInvariant == Spec => []PrefetchInv
<1>1. PrefetchInv /\ [Next]_vars => PrefetchInv'
  BY WorkingStep, LatchedStep, RegionStep, ContainedStep, CountingStep DEF PrefetchInv
<1> QED BY PrefetchInit, <1>1, PTL DEF Spec

(* Whatever the policy asks for and returns, nothing outside the region    *)
(* prefetching is allowed in is prefetched                                 *)
(* (nv_gpu_transition_validate_region, compute_prefetch_mask).             *)
THEOREM PrefetchContained == Spec => []RegionContained
<1>1. PrefetchInv => RegionContained
  BY DEF PrefetchInv, Contained, Inside, RegionContained
<1> QED BY PrefetchInvariant, <1>1, PTL

(* A request stands for all calls of the program: it is conflict-free only *)
(* if they agree, and what the driver takes over is what they agree on     *)
(* (nv_gpu_transition_record_prefetch).                                    *)
THEOREM RequestUnanimous == Spec => []UnanimousRequest
<1>1. ASSUME PrefetchInv
      PROVE  UnanimousRequest
  <2>1. Cardinality({}) = 0 /\ (\A v : Cardinality({v}) = 1)
    BY FS_EmptySet, FS_Singleton
  <2>2. /\ request.attempted <=> asked # {}
        /\ request.attempted => request.value \in asked
        /\ request.conflict <=> Cardinality(asked) > 1
    <3>1. CASE asked = {} /\ request = no_decision
      BY <2>1, <3>1 DEF no_decision, no_request
    <3>2. ASSUME NEW v \in U64 \X U64, asked = {v},
                 request = [attempted |-> TRUE, conflict |-> FALSE, value |-> v]
          PROVE  <2>2!:
      BY <2>1, <3>2
    <3>3. ASSUME NEW v \in U64 \X U64, NEW w \in U64 \X U64, v # w, asked = {v, w},
                 request = [attempted |-> TRUE, conflict |-> TRUE, value |-> v]
          PROVE  <2>2!:
      <4>1. Cardinality(asked) = 2
        BY <3>3, TwoElements
      <4> QED BY <3>3, <4>1
    <3> QED BY <1>1, <3>1, <3>2, <3>3 DEF PrefetchInv, Latched
  <2> QED BY <1>1, <2>2 DEF PrefetchInv, Bypassed, UnanimousRequest
<1> QED BY PrefetchInvariant, <1>1, PTL

(* The ranges shown to the policy and the native region are around the     *)
(* faulted page, and the native region is filled over the threshold        *)
(* (uvm_perf_prefetch_bitmap_tree_iter_get_range, compute_prefetch_region).*)
THEOREM PrefetchAroundFault == Spec => []RegionAroundFault
<1>1. ASSUME PrefetchInv
      PROVE  RegionAroundFault
  <2>1. ASSUME pc = "iter"
        PROVE  page \in within(translated(level).region)
    <3>1. /\ Traversing /\ level \in Int /\ 0 <= level /\ level <= tree.level_count - 1
          /\ translated(level).result = "APPLY"
      <4>1. /\ Traversing /\ level \in -1 .. tree.level_count - 1 /\ level >= 0
            /\ translated(level).result = "APPLY"
        BY <1>1, <2>1 DEF PrefetchInv, Working, Traversing
      <4>2. tree.level_count \in Nat
        BY <4>1, TreeFields DEF Traversing
      <4> QED BY <4>1, <4>2
    <3>2. tree.level_count \in Nat
      BY <3>1, TreeFields DEF Traversing
    <3>3. level \in 0 .. tree.level_count - 1
      BY <3>1, <3>2
    <3> QED BY <3>1, <3>3, RegionOfLevel
  <2> QED BY <1>1, <2>1 DEF PrefetchInv, NativeFilled, Filled, RegionAroundFault
<1> QED BY PrefetchInvariant, <1>1, PTL

(* Prefetching is enabled by the faults since the destination changed      *)
(* (uvm_perf_prefetch_prenotify_fault_migrations).                         *)
THEOREM PrefetchEnabledByFaults == Spec => []EnabledByFaults
<1>1. PrefetchInv => EnabledByFaults
  BY DEF PrefetchInv
<1> QED BY PrefetchInvariant, <1>1, PTL

(* Every step of the driver brings the fault closer to its end, whatever   *)
(* the policy returns: the tree has no more levels than the measure allows *)
(* for, each level is left once, and each faulted page is taken once.      *)
THEOREM FaultsServiced == Spec => FaultServiced
<1> DEFINE Progress == \/ pc = "idle"
                       \/ pc \in {"initial", "iter"} /\ pc' = pc
                       \/ remaining' < remaining
<1>1. ASSUME PrefetchInv, Next
      PROVE  Progress
  <2> USE <1>1
  <2> DEFINE n == Cardinality(todo)
             cost == 2 * BlockPages + 11
             n1 == Cardinality(todo')
  <2>1. IsFiniteSet(todo) /\ n \in Nat
    <3>1. todo \in SUBSET (fault.first .. fault.outer - 1)
          /\ fault.first \in Int /\ fault.outer - 1 \in Int
      BY FaultFields DEF PrefetchInv, Working
    <3>2. IsFiniteSet(todo)
      BY <3>1, FS_Interval, FS_Subset
    <3> QED BY <3>2, FS_CardinalityType
  <2>2. BlockPages \in Nat /\ cost \in Nat /\ n * cost \in Nat
    BY <2>1, GeometryAssumption
  <2>3. pc \in {"next", "initial", "level", "iter", "fill"} =>
          tree.level_count \in 1 .. BlockPages + 1
    BY TreeFields DEF PrefetchInv, Working
  <2>4. pc \in {"level", "iter"} => level \in Int /\ level >= -1
    BY <2>2, <2>3 DEF PrefetchInv, Working
  <2>5. /\ pc = "finish" => remaining = n * cost + 1
        /\ pc = "next" => remaining = n * cost + 2
        /\ pc = "fill" => remaining = n * cost + 3
        /\ pc = "iter" => remaining = n * cost + (4 + 2 * (level + 1))
        /\ pc = "level" => remaining = n * cost + (5 + 2 * (level + 1))
        /\ pc = "initial" => remaining = n * cost + (10 + 2 * BlockPages)
    BY DEF remaining
  <2>6. /\ pc' = "idle" => remaining' = n1 * cost + 0
        /\ pc' = "finish" => remaining' = n1 * cost + 1
        /\ pc' = "next" => remaining' = n1 * cost + 2
        /\ pc' = "fill" => remaining' = n1 * cost + 3
        /\ pc' = "iter" => remaining' = n1 * cost + (4 + 2 * (level' + 1))
        /\ pc' = "level" => remaining' = n1 * cost + (5 + 2 * (level' + 1))
        /\ pc' = "initial" => remaining' = n1 * cost + (10 + 2 * BlockPages)
    BY DEF remaining
  <2>7. todo' = todo => n1 = n
    OBVIOUS
  <2> HIDE DEF n, n1, cost
  <2>8. CASE NextPage
    <3>1. pc = "next" /\ pc' = "initial"
      BY <2>8 DEF NextPage
    <3>2. page' \in todo /\ todo' = todo \ {page'}
      BY <2>8, FirstPage DEF NextPage, PrefetchInv, Working
    <3>3. n1 = n - 1
      BY <2>1, <3>2, FS_RemoveElement DEF n, n1
    <3>4. n1 * cost = n * cost - cost
      BY <2>1, <2>2, <3>3
    <3>5. n * cost - cost + (10 + 2 * BlockPages) < n * cost + 2
      BY <2>1, <2>2 DEF cost
    <3> QED BY <2>5, <2>6, <3>1, <3>4, <3>5
  <2>9. CASE Finish
    <3>1. pc = "finish" /\ pc' = "idle" /\ n1 = 0
      BY <2>9, FS_EmptySet DEF Finish, n1
    <3>2. n1 * cost = 0
      BY <2>2, <3>1
    <3> QED BY <2>2, <2>5, <2>6, <3>1, <3>2
  <2>10. CASE NextNone \/ Fill
    <3>1. \/ pc = "next" /\ pc' = "finish"
          \/ pc = "fill" /\ pc' \in {"finish", "next"}
      BY <2>10 DEF NextNone, Fill
    <3>2. n1 = n
      BY <2>7, <2>10 DEF NextNone, Fill
    <3> QED BY <2>2, <2>5, <2>6, <3>1, <3>2
  <2>11. CASE LevelSkip \/ LevelCall \/ LevelNone
    <3>1. \/ pc = "level" /\ pc' = "level" /\ level' = level - 1
          \/ pc = "level" /\ pc' = "iter" /\ level' = level
          \/ pc = "level" /\ pc' = "fill"
      BY <2>11 DEF LevelSkip, LevelCall, LevelNone
    <3>2. n1 = n
      BY <2>7, <2>11 DEF LevelSkip, LevelCall, LevelNone
    <3> QED BY <2>2, <2>4, <2>5, <2>6, <3>1, <3>2
  <2>12. ASSUME NEW a \in Actions, InitialReturn(a)
         PROVE  Progress
    <3>1. /\ pc = "initial" /\ n1 = n
          /\ \/ pc' = "level" /\ level' = tree.level_count - 1
             \/ pc' = "fill"
      BY <2>7, <2>12 DEF InitialReturn
    <3>2. tree.level_count \in Int /\ tree.level_count <= BlockPages + 1
      BY <2>2, <2>3, <3>1
    <3> QED BY <2>2, <2>5, <2>6, <3>1, <3>2
  <2>13. ASSUME NEW a \in Actions, IterReturn(a)
         PROVE  Progress
    <3>1. pc = "iter" /\ pc' = "level" /\ level' = level - 1 /\ n1 = n
      BY <2>7, <2>13 DEF IterReturn
    <3> QED BY <2>2, <2>4, <2>5, <2>6, <3>1
  <2>14. ASSUME NEW first \in Endpoints, NEW outer \in Endpoints, SetPrefetchRegion(first, outer)
         PROVE  Progress
    BY <2>14 DEF SetPrefetchRegion
  <2>15. ASSUME NEW f \in Inputs, Fault(f)
         PROVE  Progress
    BY <2>15 DEF Fault
  <2> HIDE DEF Progress
  <2> QED BY <2>8, <2>9, <2>10, <2>11, <2>12, <2>13, <2>14, <2>15 DEF Next
<1>2. PrefetchInv /\ [Next]_vars => [Progress]_vars
  BY <1>1
<1> QED BY PrefetchInvariant, <1>2, PTL DEF Spec, FaultServiced
=============================================================================
