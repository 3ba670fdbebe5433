------------------------------ MODULE PmmChunks ------------------------------
(***************************************************************************)
(* The chunk state of one uvm_pmm_gpu_t (uvm_pmm_gpu.c) and the functions  *)
(* that change it.  Everything here is protected by pmm->list_lock, so     *)
(* each function maps a PMM record p to the record it leaves behind; the   *)
(* threads that call them are the actions of module UvmPmm.                *)
(*                                                                         *)
(* A chunk is <<r, i>>: i = 0 is the root chunk r (2M), i in 1 .. NSub its *)
(* subchunks once it is split.  Two chunk sizes stand for the size masks   *)
(* of the code: the tree has one level of splits.                          *)
(*                                                                         *)
(* The free lists are modelled as one set of linked chunks (the order of a *)
(* free list and its zero/non-zero halves only decide which of several     *)
(* free chunks is taken; the choice is left open).  The two eviction lists *)
(* keep their order, which is what eviction policies control.              *)
(***************************************************************************)
EXTENDS TransitionValidator, SequencesExt

CONSTANTS
  Root,       \* indices (addresses) of the root chunks
  NSub,       \* number of subchunks of a split root chunk
  Block,      \* VA blocks that own user chunks
  NoBlock,    \* the NULL va_block
  GenSize     \* list_generation is counted modulo GenSize (2^64 in the code)

ASSUME RootAssumption    == Root \subseteq Nat /\ IsFiniteSet(Root)
ASSUME NSubAssumption    == NSub \in Nat /\ NSub >= 2
ASSUME NoBlockAssumption == NoBlock \notin Block
ASSUME GenSizeAssumption == GenSize \in Nat \ {0}

Chunk == Root \X (0 .. NSub)

chunk_is_root_chunk(c) == c[2] = 0

root_chunk(r) == <<r, 0>>

subchunks(r) == {<<r, i>> : i \in 1 .. NSub}

(* NO_CHUNK: the subchunk is not instantiated because its root is whole.   *)
ChunkStates == {"NO_CHUNK", "PMA_OWNED", "FREE", "IS_SPLIT", "TEMP_PINNED", "ALLOCATED"}

MemoryTypes == {"USER", "KERNEL"}

ListStates == {"NONE", "FREE", "VA_BLOCK_USED", "VA_BLOCK_UNUSED", "EVICTION"}

(* The record:  state and va_block per chunk; type, the suballoc counters  *)
(* (allocated, pinned_leaf_chunks), in_eviction and the list metadata per  *)
(* root chunk; the eviction lists and the chunks linked on a free list.    *)
PmmType ==
  [state : [Chunk -> ChunkStates],
   va_block : [Chunk -> Block \cup {NoBlock}],
   type : [Root -> MemoryTypes],
   allocated : [Root -> Int],
   pinned_leaf_chunks : [Root -> Int],
   in_eviction : [Root -> BOOLEAN],
   list_state : [Root -> ListStates],
   list_generation : [Root -> Nat],
   used : Seq(Root),
   unused : Seq(Root),
   free : SUBSET Chunk]

(* uvm_pmm_gpu_init: every root chunk belongs to PMA and is on no list.    *)
pmm_init ==
  [state |-> [c \in Chunk |-> IF chunk_is_root_chunk(c) THEN "PMA_OWNED" ELSE "NO_CHUNK"],
   va_block |-> [c \in Chunk |-> NoBlock],
   type |-> [r \in Root |-> "USER"],
   allocated |-> [r \in Root |-> 0],
   pinned_leaf_chunks |-> [r \in Root |-> 0],
   in_eviction |-> [r \in Root |-> FALSE],
   list_state |-> [r \in Root |-> "NONE"],
   list_generation |-> [r \in Root |-> 0],
   used |-> <<>>,
   unused |-> <<>>,
   free |-> {}]

-----------------------------------------------------------------------------
(* List membership.                                                        *)

(* list_del of c->list, whichever list it is linked on.                    *)
unlink(p, c) ==
  IF chunk_is_root_chunk(c)
  THEN [p EXCEPT !.free = @ \ {c},
                 !.used = RemoveFirst(@, c[1]),
                 !.unused = RemoveFirst(@, c[1])]
  ELSE [p EXCEPT !.free = @ \ {c}]

(* list_add / list_add_tail of an unlinked c.  Only root chunks are put on *)
(* the eviction lists.                                                     *)
link(p, c, destination, head) ==
  LET added(list) == IF head THEN Cons(c[1], list) ELSE Append(list, c[1])
  IN  CASE destination = "free"   -> [p EXCEPT !.free = @ \cup {c}]
        [] destination = "used"   -> [p EXCEPT !.used = added(@)]
        [] destination = "unused" -> [p EXCEPT !.unused = added(@)]

(* The list_state and list_generation of a root chunk that enters          *)
(* root_state; subchunks have neither.                                     *)
set_list_state(p, c, root_state) ==
  IF ~chunk_is_root_chunk(c) THEN p
  ELSE [p EXCEPT !.list_generation[c[1]] =
                     IF p.list_state[c[1]] # root_state THEN (@ + 1) % GenSize ELSE @,
                 !.list_state[c[1]] = root_state]

root_list_update_locked(p, c, destination, root_state, operation) ==
  LET q == CASE operation = "INIT"      -> p
             [] operation = "DEL_INIT"  -> unlink(p, c)
             [] operation = "MOVE_HEAD" -> link(unlink(p, c), c, destination, TRUE)
             [] operation = "MOVE_TAIL" -> link(unlink(p, c), c, destination, FALSE)
  IN  set_list_state(q, c, root_state)

-----------------------------------------------------------------------------
(* Policy hooks.  A decision d is what one callback produced: the action   *)
(* it returned and the reorder request it recorded.  The snapshot is taken *)
(* before the callback, under the same list_lock.                          *)

pmm_snapshot(p, r) ==
  [owner_id |-> "pmm", root_id |-> r,
   generation |-> p.list_generation[r], source |-> p.list_state[r]]

pmm_bpf_validate_reorder_locked(p, r, observed, request) ==
  LET result == validate_pmm(observed, pmm_snapshot(p, r), request)
  IN  IF result = "APPLY" /\ p.list_state[r] \notin {"VA_BLOCK_USED", "VA_BLOCK_UNUSED"}
      THEN "NOOP_STALE" ELSE result

(* Mutants: the chunk is added to the new list without being removed from  *)
(* the old one; its list_state is left alone.                              *)
pmm_bpf_commit_reorder_locked_NoDel(p, r, observed, request) ==
  LET to_used == request.value[1] = DESTINATION_USED
      head == request.value[2] = POSITION_HEAD
  IN  IF pmm_bpf_validate_reorder_locked(p, r, observed, request) # "APPLY" THEN p
      ELSE set_list_state(link(p, root_chunk(r), IF to_used THEN "used" ELSE "unused", head),
                          root_chunk(r), IF to_used THEN "VA_BLOCK_USED" ELSE "VA_BLOCK_UNUSED")

pmm_bpf_commit_reorder_locked_PlainMove(p, r, observed, request) ==
  LET to_used == request.value[1] = DESTINATION_USED
      head == request.value[2] = POSITION_HEAD
  IN  IF pmm_bpf_validate_reorder_locked(p, r, observed, request) # "APPLY" THEN p
      ELSE link(unlink(p, root_chunk(r)), root_chunk(r), IF to_used THEN "used" ELSE "unused", head)

pmm_bpf_commit_reorder_locked(p, r, observed, request) ==
  LET to_used == request.value[1] = DESTINATION_USED
      head == request.value[2] = POSITION_HEAD
  IN  IF pmm_bpf_validate_reorder_locked(p, r, observed, request) # "APPLY" THEN p
      ELSE root_list_update_locked(p, root_chunk(r),
               IF to_used THEN "used" ELSE "unused",
               IF to_used THEN "VA_BLOCK_USED" ELSE "VA_BLOCK_UNUSED",
               IF head THEN "MOVE_HEAD" ELSE "MOVE_TAIL")

(* The effect of the access hook, and the lists after it.                  *)
access_effect(p, r, d) ==
  pmm_access_effect(d.action,
      pmm_bpf_validate_reorder_locked(p, r, pmm_snapshot(p, r), d.request))

bpf_call_gpu_block_access(p, r, d) ==
  IF access_effect(p, r, d) = "COMMIT"
  THEN pmm_bpf_commit_reorder_locked(p, r, pmm_snapshot(p, r), d.request)
  ELSE p

(* The activate hook ignores the action; only a valid request moves.       *)
bpf_call_gpu_block_activate(p, r, d) ==
  IF pmm_activate_effect(pmm_bpf_validate_reorder_locked(p, r, pmm_snapshot(p, r), d.request))
       = "COMMIT"
  THEN pmm_bpf_commit_reorder_locked(p, r, pmm_snapshot(p, r), d.request)
  ELSE p

-----------------------------------------------------------------------------
(* Pinning.                                                                *)

chunk_is_root_chunk_pinned(p, r) ==
  \/ p.state[root_chunk(r)] = "TEMP_PINNED"
  \/ p.state[root_chunk(r)] = "IS_SPLIT" /\ p.pinned_leaf_chunks[r] > 0

(* Pins every chunk of cs; all are chunks of root r and, when they are     *)
(* subchunks, the root's count of pinned leaves grows by their number.     *)
chunks_pin(p, r, cs) ==
  [p EXCEPT !.state = [c \in Chunk |-> IF c \in cs THEN "TEMP_PINNED" ELSE @[c]],
            !.pinned_leaf_chunks[r] = @ + Cardinality(cs \cap subchunks(r))]

chunk_pin(p, c) == chunks_pin(p, c[1], {c})

chunk_unpin(p, c, new_state) ==
  [p EXCEPT !.state[c] = new_state,
            !.pinned_leaf_chunks[c[1]] = IF chunk_is_root_chunk(c) THEN @ ELSE @ - 1]

-----------------------------------------------------------------------------
(* State transitions.                                                      *)

(* Mutant: a root chunk with pinned subchunks is not taken off the         *)
(* eviction lists.                                                         *)
chunk_update_lists_locked_PinnedListed(p, c, d) ==
  LET r == c[1]
      q == IF p.type[r] = "USER" /\ p.state[root_chunk(r)] # "FREE"
           THEN root_list_update_locked(p, root_chunk(r), "used", "VA_BLOCK_USED", "MOVE_TAIL") ELSE p
  IN  IF q.state[c] = "FREE" THEN root_list_update_locked(q, c, "free", "FREE", "MOVE_TAIL")
      ELSE IF q.state[c] = "TEMP_PINNED" THEN root_list_update_locked(q, c, "none", "NONE", "DEL_INIT")
      ELSE q

(* Puts the root of c and c itself on the lists their states call for; d   *)
(* is the decision of the activate hook.                                   *)
chunk_update_lists_locked(p, c, d) ==
  LET r == c[1]
      q == IF p.type[r] # "USER" THEN p
           ELSE IF chunk_is_root_chunk_pinned(p, r)
             THEN root_list_update_locked(p, root_chunk(r), "none", "NONE", "DEL_INIT")
           ELSE IF p.state[root_chunk(r)] # "FREE"
             THEN bpf_call_gpu_block_activate(
                      root_list_update_locked(p, root_chunk(r), "used", "VA_BLOCK_USED", "MOVE_TAIL"),
                      r, d)
           ELSE p
  IN  CASE q.state[c] = "FREE" -> root_list_update_locked(q, c, "free", "FREE", "MOVE_TAIL")
        [] q.state[c] = "TEMP_PINNED" -> root_list_update_locked(q, c, "none", "NONE", "DEL_INIT")
        [] OTHER -> q

gpu_unpin_temp(p, c, b, d) ==
  LET q == chunk_unpin(root_list_update_locked(p, c, "none", "NONE", "INIT"), c, "ALLOCATED")
  IN  chunk_update_lists_locked([q EXCEPT !.va_block[c] = b], c, d)

chunk_is_last_allocated_child(p, c) ==
  ~chunk_is_root_chunk(c) /\ p.allocated[c[1]] = 1

(* Mutant: a pinned chunk that is freed is not unpinned.                   *)
chunk_free_locked_NoUnpin(p, c, d) ==
  LET r == c[1]
      cleared == [p EXCEPT !.va_block[c] = NoBlock]
      counted == IF chunk_is_root_chunk(c) THEN cleared ELSE [cleared EXCEPT !.allocated[r] = @ - 1]
  IN  IF p.in_eviction[r] THEN chunk_pin(cleared, c)
      ELSE chunk_update_lists_locked([counted EXCEPT !.state[c] = "FREE"], c, d)

(* Freeing a chunk of a root in eviction only pins it, for the evicting    *)
(* thread to find.                                                         *)
chunk_free_locked(p, c, d) ==
  LET r == c[1]
      cleared == [p EXCEPT !.va_block[c] = NoBlock]
      counted == IF chunk_is_root_chunk(c) THEN cleared ELSE [cleared EXCEPT !.allocated[r] = @ - 1]
      freed == IF counted.state[c] = "TEMP_PINNED" THEN chunk_unpin(counted, c, "FREE")
               ELSE [counted EXCEPT !.state[c] = "FREE"]
  IN  IF p.in_eviction[r] THEN chunk_pin(cleared, c)
      ELSE chunk_update_lists_locked(freed, c, d)

claim(p, c, d) ==
  LET counted == IF chunk_is_root_chunk(c) THEN p ELSE [p EXCEPT !.allocated[c[1]] = @ + 1]
  IN  chunk_update_lists_locked(chunk_pin(counted, c), c, d)

init_root_chunk(p, r, type, initial_state, d) ==
  chunk_update_lists_locked([p EXCEPT !.type[r] = type, !.state[root_chunk(r)] = initial_state],
                            root_chunk(r), d)

(* Mutant: the subchunks do not inherit the reverse map.                   *)
split_gpu_chunk_NoReverseMap(p, r) ==
  LET s == p.state[root_chunk(r)]
  IN  [p EXCEPT
         !.state = [c \in Chunk |-> IF c = root_chunk(r) THEN "IS_SPLIT"
                                    ELSE IF c[1] = r THEN s ELSE @[c]],
         !.allocated[r] = NSub,
         !.pinned_leaf_chunks[r] = IF s = "TEMP_PINNED" THEN NSub ELSE 0]

(* split_gpu_chunk of root r: the subchunks inherit the state and the      *)
(* reverse map of the root.                                                *)
split_gpu_chunk(p, r) ==
  LET s == p.state[root_chunk(r)]
      b == p.va_block[root_chunk(r)]
  IN  [p EXCEPT
         !.state = [c \in Chunk |-> IF c = root_chunk(r) THEN "IS_SPLIT"
                                    ELSE IF c[1] = r THEN s ELSE @[c]],
         !.va_block = [c \in Chunk |-> IF c = root_chunk(r) THEN NoBlock
                                       ELSE IF c[1] = r THEN b ELSE @[c]],
         !.allocated[r] = NSub,
         !.pinned_leaf_chunks[r] = IF s = "TEMP_PINNED" THEN NSub ELSE 0]

(* merge_gpu_chunk of root r, whose subchunks all have one state.          *)
merge_gpu_chunk(p, r) ==
  LET s == p.state[<<r, 1>>]
      b == p.va_block[<<r, 1>>]
  IN  [p EXCEPT
         !.state = [c \in Chunk |-> IF c = root_chunk(r) THEN s
                                    ELSE IF c[1] = r THEN "NO_CHUNK" ELSE @[c]],
         !.va_block = [c \in Chunk |-> IF c = root_chunk(r)
                                       THEN (IF s = "ALLOCATED" THEN b ELSE @[c])
                                       ELSE IF c[1] = r THEN NoBlock ELSE @[c]],
         !.allocated[r] = 0,
         !.pinned_leaf_chunks[r] = 0]

(* Mutant: the loop runs one subchunk too far.                             *)
free_all_but_first_OffByOne(p, r) ==
  LET rest == {<<r, i>> : i \in 2 .. NSub + 1}
      q == [p EXCEPT
              !.state = [c \in Chunk |-> IF c \in rest THEN "FREE" ELSE @[c]],
              !.va_block = [c \in Chunk |-> IF c \in rest THEN NoBlock ELSE @[c]],
              !.allocated[r] = 1,
              !.pinned_leaf_chunks[r] = 1,
              !.free = @ \cup rest]
  IN  IF p.type[r] = "USER"
      THEN root_list_update_locked(q, root_chunk(r), "none", "NONE", "DEL_INIT") ELSE q

(* The loop at the end of alloc_chunk_with_splits: chunk_free_locked of    *)
(* every subchunk but the first.  The first stays pinned, so the root      *)
(* stays off the eviction lists.                                           *)
free_all_but_first(p, r) ==
  LET rest == {<<r, i>> : i \in 2 .. NSub}
      q == [p EXCEPT
              !.state = [c \in Chunk |-> IF c \in rest THEN "FREE" ELSE @[c]],
              !.va_block = [c \in Chunk |-> IF c \in rest THEN NoBlock ELSE @[c]],
              !.allocated[r] = 1,
              !.pinned_leaf_chunks[r] = 1,
              !.free = @ \cup rest]
  IN  IF p.type[r] = "USER"
      THEN root_list_update_locked(q, root_chunk(r), "none", "NONE", "DEL_INIT") ELSE q

(* The second half of free_or_prepare_for_merge: every (free) subchunk     *)
(* leaves the free list and is pinned for merge_gpu_chunk.                 *)
prepare_for_merge(p, r) ==
  [p EXCEPT !.state = [c \in Chunk |-> IF c \in subchunks(r) THEN "TEMP_PINNED" ELSE @[c]],
            !.free = @ \ subchunks(r),
            !.pinned_leaf_chunks[r] = @ + NSub,
            !.allocated[r] = NSub]

-----------------------------------------------------------------------------
(* Eviction.                                                               *)

(* Mutant: a chunk that another thread evicts is evictable.                *)
chunk_is_evictable_Twice(p, r) ==
  /\ p.state[root_chunk(r)] # "PMA_OWNED"
  /\ ~chunk_is_root_chunk_pinned(p, r)

chunk_is_evictable(p, r) ==
  /\ p.state[root_chunk(r)] # "PMA_OWNED"
  /\ ~chunk_is_root_chunk_pinned(p, r)
  /\ ~p.in_eviction[r]

chunk_start_eviction(p, r) ==
  [root_list_update_locked(p, root_chunk(r), "none", "EVICTION", "DEL_INIT")
     EXCEPT !.in_eviction[r] = TRUE]

(* Mutant: the pinned subchunks are not counted as allocated.              *)
pin_free_chunks_Uncounted(p, r) ==
  LET cs == {c \in {root_chunk(r)} \cup subchunks(r) : p.state[c] = "FREE"}
      q == chunks_pin([p EXCEPT !.free = @ \ cs], r, cs)
  IN  IF root_chunk(r) \in cs
      THEN root_list_update_locked(q, root_chunk(r), "none", "EVICTION", "DEL_INIT") ELSE q

(* pin_free_chunks_func over the whole tree of r.                          *)
pin_free_chunks(p, r) ==
  LET cs == {c \in {root_chunk(r)} \cup subchunks(r) : p.state[c] = "FREE"}
      q == chunks_pin([p EXCEPT !.free = @ \ cs,
                                !.allocated[r] = @ + Cardinality(cs \ {root_chunk(r)})], r, cs)
  IN  IF root_chunk(r) \in cs
      THEN root_list_update_locked(q, root_chunk(r), "none", "EVICTION", "DEL_INIT") ELSE q

(* uvm_pmm_gpu_mark_chunk_evicted of each chunk of cs.                     *)
mark_chunks_evicted(p, r, cs) ==
  chunks_pin([p EXCEPT !.va_block = [c \in Chunk |-> IF c \in cs THEN NoBlock ELSE @[c]]], r, cs)

(* The end of a successful evict_root_chunk.                               *)
evict_merge(p, r) ==
  LET q == IF p.state[root_chunk(r)] = "IS_SPLIT" THEN merge_gpu_chunk(p, r) ELSE p
  IN  [q EXCEPT !.in_eviction[r] = FALSE]

(* The first critical section of its error path.                           *)
evict_abort(p, r, d) ==
  chunk_update_lists_locked([p EXCEPT !.in_eviction[r] = FALSE], root_chunk(r), d)

(* root_chunk_update_eviction_list: used is TRUE for                       *)
(* uvm_pmm_gpu_mark_root_chunk_used and FALSE for ..._unused.              *)
root_chunk_update_eviction_list(p, r, used, d) ==
  LET effect == IF used THEN access_effect(p, r, d) ELSE "NATIVE"
      q == IF used THEN bpf_call_gpu_block_access(p, r, d) ELSE p
  IN  IF chunk_is_root_chunk_pinned(p, r) \/ p.in_eviction[r] THEN p
      ELSE IF effect = "NATIVE"
        THEN root_list_update_locked(q, root_chunk(r),
                 IF used THEN "used" ELSE "unused",
                 IF used THEN "VA_BLOCK_USED" ELSE "VA_BLOCK_UNUSED", "MOVE_TAIL")
      ELSE q

(* The candidates of pick_root_chunk_to_evict: a free user root chunk if   *)
(* there is one, else the head of the unused list, else of the used list.  *)
pick_candidates(p) ==
  LET free_roots == {r \in Root : root_chunk(r) \in p.free /\ p.type[r] = "USER"}
  IN  IF free_roots # {} THEN free_roots
      ELSE IF p.unused # <<>> THEN {Head(p.unused)}
      ELSE IF p.used # <<>> THEN {Head(p.used)}
      ELSE {}
=============================================================================
