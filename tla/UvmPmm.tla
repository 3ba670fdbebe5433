------------------------------- MODULE UvmPmm -------------------------------
(***************************************************************************)
(* The threads of one GPU's physical memory manager (uvm_pmm_gpu.c).       *)
(*                                                                         *)
(* Block b stands for a VA block and for the thread that services it; the  *)
(* thread KThread makes kernel (page table, ...) allocations and PThread   *)
(* is the RM thread that runs the two PMA eviction callbacks.  A thread    *)
(* moves from one step to the next where the code leaves a pmm->list_lock  *)
(* section, takes or drops pmm->lock, the va_block lock or pmm->pma_lock,  *)
(* or calls PMA; what happens in between is one action.  The chunk state   *)
(* changes are the operators of PmmChunks.                                 *)
(*                                                                         *)
(* PMA itself, the copy engine work behind an eviction and the memory      *)
(* allocator are external: PMA as the variable pma, failures as the set    *)
(* Faults of what may go wrong.                                            *)
(***************************************************************************)
EXTENDS PmmChunks

CONSTANTS
  KThread, PThread, NoThread,
  NoChunk, NoRoot,
  Decisions,   \* what one policy callback may produce: records [action, request]
  Faults,      \* \subseteq FaultKinds
  BatchSize,   \* 1 << uvm_perf_pma_batch_nonpinned_order
  MaxChunks,   \* bound: chunks one VA block holds
  MaxKernel,   \* bound: kernel chunks allocated at a time
  MaxPages,    \* bound: root chunks one evict_pages callback is asked for
  BlockSizes,  \* sizes of the allocations of VA blocks, \subseteq Sizes
  KernelSizes, \* sizes of kernel allocations, \subseteq Sizes
  EvictRanges, \* pairs <<lo, hi>> of the evict_range callbacks
  PageRanges   \* pairs <<lo, hi>> of the evict_pages callbacks

(* eviction: the pages of a VA block cannot be moved.  split: no memory    *)
(* for subchunk objects.  tracker: no memory for the tracker of an         *)
(* allocation.  batch: none for the addresses of a batch.  timeout:        *)
(* UVM_SPIN_LOOP gives up.  elevated: a third-party driver holds a         *)
(* reference to a page (NUMA GPUs).                                        *)
FaultKinds == {"eviction", "split", "tracker", "batch", "timeout", "elevated"}

Sizes == {"root", "sub"}

ASSUME ThreadAssumption ==
  /\ KThread # PThread
  /\ {KThread, PThread, NoThread} \cap Block = {}
  /\ NoThread \notin {KThread, PThread}
  /\ NoChunk \notin Chunk
  /\ NoRoot \notin Root

ASSUME BoundAssumption ==
  /\ Faults \subseteq FaultKinds
  /\ BatchSize \in Nat \ {0}
  /\ MaxChunks \in Nat /\ MaxKernel \in Nat /\ MaxPages \in Nat
  /\ BlockSizes \subseteq Sizes /\ KernelSizes \subseteq Sizes
  /\ EvictRanges \subseteq Root \X Root /\ PageRanges \subseteq Root \X Root
  /\ \A bounds \in EvictRanges : bounds[1] .. bounds[2] \subseteq Root

Thread == Block \cup {KThread, PThread}

VARIABLES
  p,            \* the chunk state: PmmChunks
  lock,         \* the holder of pmm->lock
  readers,      \* the threads that hold pmm->pma_lock for reading
  pma,          \* PMA's view of each root chunk
  evicting,     \* the root chunks PMA has marked for a range eviction
  th,           \* where each thread is, and its local variables
  chunks,       \* gpu_state->chunks of each VA block
  used_chunks,  \* uvm_va_block_retry_t::used_chunks, pinned and populated
  free_chunks,  \* uvm_va_block_retry_t::free_chunks, pinned, not populated
  kchunks       \* the chunks of the kernel allocations

vars == <<p, lock, readers, pma, evicting, th, chunks, used_chunks, free_chunks, kchunks>>

-----------------------------------------------------------------------------
Steps == {"idle",
          "claim", "lock_split", "claim_again", "claim_bigger", "pma_alloc", "init",
          "split", "lock_evict", "done",
          "pick", "pin_free", "find", "va_block", "relock", "relock_error", "merge", "pma_pin",
          "set_type",
          "abort", "abort_walk", "abort_next",
          "free", "lock_free", "free_locked", "merge_locked", "next",
          "free_root", "pma_free", "in_place_split",
          "flush", "spin", "lock_range", "range_error", "range_ok",
          "lock_pages", "pages_check", "pages_next", "pages_error",
          "alloc_error", "evict_again"}

Ops == {"none", "alloc", "free", "release", "split", "range", "pages"}

(* The local variables of a thread.  c is the chunk it works on, r the     *)
(* root chunk it evicts or returns to PMA, va the block it evicts from,    *)
(* ret the step after a subroutine, i the index of a tree walk, batch the  *)
(* root chunks PMA gave it and lo .. hi the physical range of a callback.  *)
Local ==
  [pc : Steps, op : Ops, size : Sizes, evict : BOOLEAN,
   c : Chunk \cup {NoChunk}, r : Root \cup {NoRoot}, va : Block \cup {NoBlock},
   ret : Steps, i : 0 .. NSub + 1, batch : SUBSET Root, lo : Nat, hi : Nat, n : Nat]

idle ==
  [pc |-> "idle", op |-> "none", size |-> "root", evict |-> FALSE,
   c |-> NoChunk, r |-> NoRoot, va |-> NoBlock,
   ret |-> "idle", i |-> 0, batch |-> {}, lo |-> 0, hi |-> 0, n |-> 0]

TypeOK ==
  /\ p \in PmmType
  /\ lock \in Thread \cup {NoThread}
  /\ readers \subseteq Thread
  /\ pma \in [Root -> {"free", "unpinned", "pinned", "rm"}]
  /\ evicting \subseteq Root
  /\ th \in [Thread -> Local]
  /\ chunks \in [Block -> SUBSET Chunk]
  /\ used_chunks \in [Block -> SUBSET Chunk]
  /\ free_chunks \in [Block -> SUBSET Chunk]
  /\ kchunks \subseteq Chunk

Init ==
  /\ p = pmm_init
  /\ lock = NoThread
  /\ readers = {}
  /\ pma = [r \in Root |-> "free"]
  /\ evicting = {}
  /\ th = [t \in Thread |-> idle]
  /\ chunks = [b \in Block |-> {}]
  /\ used_chunks = [b \in Block |-> {}]
  /\ free_chunks = [b \in Block |-> {}]
  /\ kchunks = {}

clients == <<chunks, used_chunks, free_chunks, kchunks>>
pma_vars == <<readers, pma, evicting>>

(* The callback of a chunk transition that does not leave its root on an   *)
(* eviction list is not reached; it makes no decision.                     *)
no_decision == [action |-> ACTION_DEFAULT, request |-> no_request(<<0, 0>>)]

at(t, pc) == th[t].pc = pc

becomes(t, x) == th' = [th EXCEPT ![t] = x]

goto(t, pc) == becomes(t, [th[t] EXCEPT !.pc = pc])

mem_type(t) == IF t \in Block THEN "USER" ELSE "KERNEL"

acquire(t) == lock = NoThread /\ lock' = t

release(t) == lock' = IF lock = t THEN NoThread ELSE lock

(* Mutant: a block keeps its lock while it allocates with eviction.        *)
block_locked_WhileEvicting(b) ==
  /\ th[b].pc # "idle"
  /\ th[b].op \in {"free", "split", "alloc"}

(* The va_block lock of b is held by its own thread except while it        *)
(* allocates with eviction (block_alloc_gpu_chunk drops it) and in         *)
(* uvm_va_block_retry_deinit (called after the block is unlocked).         *)
block_locked(b) ==
  /\ th[b].pc # "idle"
  /\ th[b].op \in {"free", "split"} \/ (th[b].op = "alloc" /\ ~th[b].evict)

(* The record of t after it returns to th[t].ret.                          *)
resumed(t) ==
  IF th[t].ret = "idle" THEN idle
  ELSE [th[t] EXCEPT !.pc = th[t].ret, !.ret = "idle"]

resume(t) == becomes(t, resumed(t))

-----------------------------------------------------------------------------
(* alloc_chunk.                                                            *)

(* claim_free_chunk finds candidate c, having unlinked some of the free    *)
(* chunks it met that are in eviction (a root chunk in eviction is never   *)
(* on a free list, so these are subchunks); or it walks the whole list and *)
(* finds none.  Chunks with an elevated page are skipped.                  *)
free_list(type, size) ==
  {c \in p.free : p.type[c[1]] = type /\ (chunk_is_root_chunk(c) <=> size = "root")}

(* Mutant: the free list walk does not skip chunks that are in eviction.   *)
claims_InEviction(type, size) ==
  LET list == free_list(type, size)
  IN  IF list = {} THEN {<<p, NoChunk>>}
      ELSE {<<claim(p, c, no_decision), c>> : c \in list}

claims(type, size) ==
  LET list == free_list(type, size)
      stale == {c \in list : p.in_eviction[c[1]]}
      found == {<<claim([p EXCEPT !.free = @ \ s], c, no_decision), c>> :
                  s \in SUBSET stale, c \in list \ stale}
      none == {<<[p EXCEPT !.free = @ \ stale], NoChunk>>}
  IN  IF list = stale THEN none
      ELSE IF "elevated" \in Faults THEN found \cup none ELSE found

Claim(t) ==
  /\ at(t, "claim")
  /\ \E q \in claims(mem_type(t), th[t].size) :
       /\ p' = q[1]
       /\ becomes(t, [th[t] EXCEPT !.c = q[2],
                                   !.pc = IF q[2] # NoChunk THEN "done"
                                          ELSE IF th[t].size = "root" THEN "pma_alloc"
                                          ELSE "lock_split"])
  /\ UNCHANGED <<lock, pma_vars, clients>>

LockSplit(t) ==
  /\ at(t, "lock_split")
  /\ acquire(t)
  /\ goto(t, "claim_again")
  /\ UNCHANGED <<p, pma_vars, clients>>

(* alloc_chunk_with_splits: look again, then for a bigger chunk.           *)
ClaimAgain(t) ==
  /\ at(t, "claim_again")
  /\ \E q \in claims(mem_type(t), "sub") :
       /\ p' = q[1]
       /\ becomes(t, [th[t] EXCEPT !.c = q[2],
                                   !.pc = IF q[2] # NoChunk THEN "done" ELSE "claim_bigger"])
       /\ IF q[2] # NoChunk THEN release(t) ELSE UNCHANGED lock
  /\ UNCHANGED <<pma_vars, clients>>

ClaimBigger(t) ==
  /\ at(t, "claim_bigger")
  /\ \E q \in claims(mem_type(t), "root") :
       /\ p' = q[1]
       /\ becomes(t, [th[t] EXCEPT !.c = q[2],
                                   !.pc = IF q[2] # NoChunk THEN "split" ELSE "pma_alloc"])
  /\ UNCHANGED <<lock, pma_vars, clients>>

(* alloc_root_chunk up to the answer of nvUvmInterfacePmaAllocPages.  User *)
(* allocations are batched and best effort, kernel ones are pinned.  PMA   *)
(* gives out no page that it is evicting.                                  *)
pma_available == {r \in Root : pma[r] = "free" /\ r \notin evicting}

pma_batches(type) ==
  LET n == Cardinality(pma_available)
      wanted == IF type = "USER" THEN BatchSize ELSE 1
  IN  kSubset(IF wanted < n THEN wanted ELSE n, pma_available) \ {{}}

PmaAlloc(t) ==
  /\ at(t, "pma_alloc")
  /\ \E s \in pma_batches(mem_type(t)) :
       /\ pma' = [r \in Root |-> IF r \notin s THEN pma[r]
                                 ELSE IF t \in Block THEN "unpinned" ELSE "pinned"]
       /\ becomes(t, [th[t] EXCEPT !.batch = s, !.pc = "init"])
  /\ readers' = readers \cup {t}
  /\ UNCHANGED <<p, lock, evicting, clients>>

(* PMA has no page, or a batched allocation finds no memory for its array. *)
PmaAllocFails(t) ==
  /\ at(t, "pma_alloc")
  /\ pma_batches(mem_type(t)) = {} \/ (t \in Block /\ "batch" \in Faults)
  /\ goto(t, IF ~th[t].evict THEN "alloc_error"
             ELSE IF th[t].size = "root" THEN "lock_evict" ELSE "pick")
  /\ UNCHANGED <<p, lock, pma_vars, clients>>

(* The loop over the batch: the first root chunk is returned pinned, the   *)
(* others go to the free list.                                             *)
InitRoot(t) ==
  /\ at(t, "init")
  /\ \E r \in th[t].batch :
       LET first == th[t].c = NoChunk
           last == th[t].batch = {r}
       IN  /\ p' = init_root_chunk(p, r, mem_type(t),
                       IF first THEN "TEMP_PINNED" ELSE "FREE", no_decision)
           /\ readers' = IF last THEN readers \ {t} ELSE readers
           /\ becomes(t, [th[t] EXCEPT
                            !.batch = @ \ {r},
                            !.c = IF first THEN root_chunk(r) ELSE @,
                            !.pc = IF ~last THEN "init"
                                   ELSE IF th[t].size = "root" THEN "done" ELSE "split"])
  /\ UNCHANGED <<lock, pma, evicting, clients>>

Split(t) ==
  /\ at(t, "split")
  /\ LET r == th[t].c[1]
     IN  /\ p' = free_all_but_first(split_gpu_chunk(p, r), r)
         /\ becomes(t, [th[t] EXCEPT !.c = <<r, 1>>, !.pc = "done"])
  /\ release(t)
  /\ UNCHANGED <<pma_vars, clients>>

(* Mutant: the chunk that could not be split is forgotten.                 *)
SplitFails_Leak(t) ==
  /\ at(t, "split")
  /\ "split" \in Faults
  /\ goto(t, "alloc_error")
  /\ UNCHANGED <<p, lock, pma_vars, clients>>

(* split_gpu_chunk finds no memory: free_chunk_with_merges of the root.    *)
SplitFails(t) ==
  /\ at(t, "split")
  /\ "split" \in Faults
  /\ becomes(t, [th[t] EXCEPT !.pc = "free_locked", !.ret = "alloc_error"])
  /\ UNCHANGED <<p, lock, pma_vars, clients>>

(* A failed allocation.  A small one returns a free root chunk to PMA; a   *)
(* block that has not evicted yet drops its lock and tries with eviction   *)
(* (block_alloc_gpu_chunk).                                                *)
AllocError(t) ==
  /\ at(t, "alloc_error")
  /\ becomes(t, [th[t] EXCEPT !.pc = IF th[t].size = "sub" THEN "next" ELSE "evict_again",
                              !.ret = "evict_again"])
  /\ release(t)
  /\ UNCHANGED <<p, pma_vars, clients>>

EvictAgain(t) ==
  /\ at(t, "evict_again")
  /\ becomes(t,
       IF t \in Block /\ ~th[t].evict
       THEN [idle EXCEPT !.pc = "claim", !.op = "alloc", !.size = th[t].size, !.evict = TRUE]
       ELSE idle)
  /\ UNCHANGED <<p, lock, pma_vars, clients>>

(* pmm_gpu_alloc returns the chunk, or finds no memory for its tracker and *)
(* frees it, and block_alloc_gpu_chunk tries with eviction.  A chunk got   *)
(* by eviction is kept for the retry.                                      *)
Done(t) ==
  /\ at(t, "done")
  /\ t \in Block
  /\ IF th[t].evict
     THEN /\ free_chunks' = [free_chunks EXCEPT ![t] = @ \cup {th[t].c}]
          /\ UNCHANGED <<chunks, used_chunks>>
     ELSE /\ chunks' = [chunks EXCEPT ![t] = @ \cup {th[t].c}]
          /\ used_chunks' = [used_chunks EXCEPT ![t] = @ \cup {th[t].c}]
          /\ UNCHANGED free_chunks
  /\ becomes(t, idle)
  /\ UNCHANGED <<p, lock, pma_vars, kchunks>>

KernelDone(t) ==
  /\ at(t, "done")
  /\ t = KThread
  /\ p' = chunk_unpin(p, th[t].c, "ALLOCATED")
  /\ kchunks' = kchunks \cup {th[t].c}
  /\ becomes(t, idle)
  /\ UNCHANGED <<lock, pma_vars, chunks, used_chunks, free_chunks>>

TrackerError(t) ==
  /\ at(t, "done")
  /\ "tracker" \in Faults
  /\ becomes(t, [th[t] EXCEPT !.pc = "free", !.op = IF th[t].evict THEN "release" ELSE "free",
                              !.ret = "evict_again"])
  /\ UNCHANGED <<p, lock, pma_vars, clients>>

-----------------------------------------------------------------------------
(* pick_and_evict_root_chunk and evict_root_chunk, with pmm->lock held.    *)

LockEvict(t) ==
  /\ th[t].pc \in {"lock_evict", "lock_pages"}
  /\ acquire(t)
  /\ goto(t, "pick")
  /\ UNCHANGED <<p, pma_vars, clients>>

(* Where eviction fails, the callers release the lock.                     *)
failed_step(t) ==
  CASE th[t].op = "range" -> "range_error"
    [] th[t].op = "pages" -> "pages_error"
    [] OTHER -> "alloc_error"

Pick(t) ==
  /\ at(t, "pick")
  /\ \E r \in pick_candidates(p) :
       /\ p' = chunk_start_eviction(p, r)
       /\ becomes(t, [th[t] EXCEPT !.r = r, !.pc = "pin_free"])
  /\ UNCHANGED <<lock, pma_vars, clients>>

PickNone(t) ==
  /\ at(t, "pick")
  /\ pick_candidates(p) = {}
  /\ goto(t, failed_step(t))
  /\ UNCHANGED <<p, lock, pma_vars, clients>>

PinFree(t) ==
  /\ at(t, "pin_free")
  /\ p' = pin_free_chunks(p, th[t].r)
  /\ goto(t, "find")
  /\ UNCHANGED <<lock, pma_vars, clients>>

(* find_and_retain_va_block_to_evict: the block of the first allocated     *)
(* chunk of the tree.  The PMM lock is dropped to take the block's.        *)
Find(t) ==
  /\ at(t, "find")
  /\ \E i \in 0 .. NSub :
       /\ p.state[<<th[t].r, i>>] = "ALLOCATED"
       /\ \A j \in 0 .. i - 1 : p.state[<<th[t].r, j>>] # "ALLOCATED"
       /\ becomes(t, [th[t] EXCEPT !.va = p.va_block[<<th[t].r, i>>], !.pc = "va_block"])
  /\ lock' = NoThread
  /\ UNCHANGED <<p, pma_vars, clients>>

FindNone(t) ==
  /\ at(t, "find")
  /\ \A i \in 0 .. NSub : p.state[<<th[t].r, i>>] # "ALLOCATED"
  /\ goto(t, "merge")
  /\ UNCHANGED <<p, lock, pma_vars, clients>>

(* uvm_va_block_evict_chunks with the block's lock: the pages of every     *)
(* chunk of the block below the root are moved away.                       *)
evict_chunks(t) ==
  LET b == th[t].va
      cs == {c \in chunks[b] : c[1] = th[t].r}
  IN  /\ p' = mark_chunks_evicted(p, th[t].r, cs)
      /\ chunks' = [chunks EXCEPT ![b] = @ \ cs]

EvictBlock(t) ==
  /\ at(t, "va_block")
  /\ ~block_locked(th[t].va)
  /\ evict_chunks(t)
  /\ becomes(t, [th[t] EXCEPT !.pc = "relock", !.va = NoBlock])
  /\ UNCHANGED <<lock, pma_vars, used_chunks, free_chunks, kchunks>>

(* It fails before any chunk is marked, or when the tracker of a marked    *)
(* chunk cannot be kept.                                                   *)
EvictBlockFails(t) ==
  /\ at(t, "va_block")
  /\ ~block_locked(th[t].va)
  /\ "eviction" \in Faults
  /\ evict_chunks(t) \/ UNCHANGED <<p, chunks>>
  /\ becomes(t, [th[t] EXCEPT !.pc = "relock_error", !.va = NoBlock])
  /\ UNCHANGED <<lock, pma_vars, used_chunks, free_chunks, kchunks>>

(* Mutant: only the first VA block below the root chunk is evicted.        *)
Relock_OneBlock(t) ==
  /\ th[t].pc \in {"relock", "relock_error"}
  /\ acquire(t)
  /\ goto(t, IF at(t, "relock") THEN "merge" ELSE "abort")
  /\ UNCHANGED <<p, pma_vars, clients>>

Relock(t) ==
  /\ th[t].pc \in {"relock", "relock_error"}
  /\ acquire(t)
  /\ goto(t, IF at(t, "relock") THEN "find" ELSE "abort")
  /\ UNCHANGED <<p, pma_vars, clients>>

(* What the caller does with an evicted root chunk: return it (unlocked),  *)
(* split it, hand it to RM or return it to PMA.                            *)
evicted(t) ==
  /\ becomes(t,
       CASE th[t].op = "range" -> [th[t] EXCEPT !.pc = "free_root", !.ret = "spin", !.lo = @ + 1]
         [] th[t].op = "pages" -> [th[t] EXCEPT !.pc = "pages_check"]
         [] OTHER -> [th[t] EXCEPT !.pc = IF th[t].size = "root" THEN "done" ELSE "split",
                                   !.c = root_chunk(th[t].r), !.r = NoRoot])
  /\ lock' = IF th[t].op = "alloc" /\ th[t].size = "sub" THEN lock ELSE NoThread

EvictMerge(t) ==
  /\ at(t, "merge")
  /\ p' = evict_merge(p, th[t].r)
  /\ IF th[t].op = "range" \/ t \in Block THEN evicted(t)
     ELSE goto(t, "pma_pin") /\ UNCHANGED lock
  /\ UNCHANGED <<pma_vars, clients>>

(* A page of the evicted root chunk is still referenced: PMA gets it, and  *)
(* pick_and_evict_root_chunk_retry picks another.                          *)
EvictElevated(t) ==
  /\ at(t, "merge")
  /\ "elevated" \in Faults
  /\ p' = evict_merge(p, th[t].r)
  /\ becomes(t, [th[t] EXCEPT !.pc = "free_root",
                              !.ret = IF th[t].op = "range" THEN "range_error" ELSE "pick"])
  /\ UNCHANGED <<lock, pma_vars, clients>>

(* Mutant: PMA pins a page it is evicting.                                 *)
PmaPin_WhileEvicting(t) ==
  /\ at(t, "pma_pin")
  /\ pma' = [pma EXCEPT ![th[t].r] = "pinned"]
  /\ goto(t, "set_type")
  /\ UNCHANGED <<p, lock, readers, evicting, clients>>

(* User memory becomes kernel memory once PMA has pinned it.               *)
PmaPin(t) ==
  /\ at(t, "pma_pin")
  /\ th[t].r \notin evicting
  /\ pma' = [pma EXCEPT ![th[t].r] = "pinned"]
  /\ goto(t, "set_type")
  /\ UNCHANGED <<p, lock, readers, evicting, clients>>

SetType(t) ==
  /\ at(t, "set_type")
  /\ p' = [p EXCEPT !.type[th[t].r] = "KERNEL"]
  /\ evicted(t)
  /\ UNCHANGED <<pma_vars, clients>>

PmaPinInUse(t) ==
  /\ at(t, "pma_pin")
  /\ th[t].r \in evicting
  /\ becomes(t, [th[t] EXCEPT !.pc = "free_root", !.ret = "pick"])
  /\ UNCHANGED <<p, lock, pma_vars, clients>>

(* The error path: leave the eviction state, free every pinned chunk of    *)
(* the tree (a walk from the root that starts again after each), and       *)
(* return one free root chunk to PMA.                                      *)
Abort(t) ==
  /\ at(t, "abort")
  /\ \E d \in Decisions : p' = evict_abort(p, th[t].r, d)
  /\ becomes(t, [th[t] EXCEPT !.pc = "abort_walk", !.i = 0])
  /\ UNCHANGED <<lock, pma_vars, clients>>

(* Mutant: the walk is not started again after a chunk was freed and stops *)
(* at the first one.                                                       *)
AbortWalk_Once(t) ==
  /\ at(t, "abort_walk")
  /\ LET r == th[t].r
         i == th[t].i
     IN  becomes(t,
           IF i > NSub \/ (i > 0 /\ p.state[root_chunk(r)] # "IS_SPLIT")
             THEN [th[t] EXCEPT !.pc = "abort_next", !.i = 0, !.c = NoChunk, !.ret = failed_step(t)]
           ELSE IF p.state[<<r, i>>] = "TEMP_PINNED"
             THEN [th[t] EXCEPT !.pc = "free_locked", !.c = <<r, i>>, !.i = NSub + 1,
                                !.ret = "abort_walk"]
           ELSE [th[t] EXCEPT !.i = i + 1])
  /\ UNCHANGED <<p, lock, pma_vars, clients>>

AbortWalk(t) ==
  /\ at(t, "abort_walk")
  /\ LET r == th[t].r
         i == th[t].i
     IN  becomes(t,
           IF i > NSub \/ (i > 0 /\ p.state[root_chunk(r)] # "IS_SPLIT")
             THEN [th[t] EXCEPT !.pc = "abort_next", !.i = 0, !.c = NoChunk, !.ret = failed_step(t)]
           ELSE IF p.state[<<r, i>>] = "TEMP_PINNED"
             THEN [th[t] EXCEPT !.pc = "free_locked", !.c = <<r, i>>, !.i = 0,
                                !.ret = "abort_walk"]
           ELSE [th[t] EXCEPT !.i = i + 1])
  /\ UNCHANGED <<p, lock, pma_vars, clients>>

-----------------------------------------------------------------------------
(* free_chunk.                                                             *)

(* try_chunk_free.  A freed root chunk is followed by                      *)
(* free_next_available_root_chunk.                                         *)
TryFree(t) ==
  /\ at(t, "free")
  /\ ~chunk_is_last_allocated_child(p, th[t].c)
  /\ \E d \in Decisions : p' = chunk_free_locked(p, th[t].c, d)
  /\ IF chunk_is_root_chunk(th[t].c) THEN goto(t, "next") ELSE resume(t)
  /\ UNCHANGED <<lock, pma_vars, clients>>

TryFreeFails(t) ==
  /\ at(t, "free")
  /\ chunk_is_last_allocated_child(p, th[t].c)
  /\ goto(t, "lock_free")
  /\ UNCHANGED <<p, lock, pma_vars, clients>>

LockFree(t) ==
  /\ at(t, "lock_free")
  /\ acquire(t)
  /\ goto(t, "free_locked")
  /\ UNCHANGED <<p, pma_vars, clients>>

(* One turn of free_chunk_with_merges.                                     *)
free_or_prepare_for_merge(q, c, d) ==
  IF chunk_is_last_allocated_child(q, c)
  THEN prepare_for_merge(chunk_free_locked(q, c, d), c[1])
  ELSE chunk_free_locked(q, c, d)

FreeLocked(t) ==
  /\ at(t, "free_locked")
  /\ \E d \in Decisions : p' = free_or_prepare_for_merge(p, th[t].c, d)
  /\ IF chunk_is_last_allocated_child(p, th[t].c)
       THEN goto(t, "merge_locked") /\ UNCHANGED lock
     ELSE IF th[t].op \in {"free", "release"}
       THEN goto(t, "next") /\ release(t)
     ELSE resume(t) /\ UNCHANGED lock
  /\ UNCHANGED <<pma_vars, clients>>

MergeLocked(t) ==
  /\ at(t, "merge_locked")
  /\ LET r == th[t].c[1]
     IN  /\ p' = merge_gpu_chunk(p, r)
         /\ becomes(t, [th[t] EXCEPT !.c = root_chunk(r), !.pc = "free_locked"])
  /\ UNCHANGED <<lock, pma_vars, clients>>

(* free_next_available_root_chunk; eviction's error path calls it for the  *)
(* type of the chunk that was being evicted, which is user memory.         *)
next_type(t) == IF at(t, "abort_next") THEN "USER" ELSE mem_type(t)

FreeNext(t) ==
  /\ th[t].pc \in {"next", "abort_next"}
  /\ \E c \in free_list(next_type(t), "root") :
       /\ p' = chunk_pin(root_list_update_locked(p, c, "none", "NONE", "DEL_INIT"), c)
       /\ becomes(t, [th[t] EXCEPT !.r = c[1], !.pc = "free_root"])
  /\ UNCHANGED <<lock, pma_vars, clients>>

FreeNextNone(t) ==
  /\ th[t].pc \in {"next", "abort_next"}
  /\ free_list(next_type(t), "root") = {}
  /\ resume(t)
  /\ UNCHANGED <<p, lock, pma_vars, clients>>

(* Mutant: the root chunk is given up without pma_lock.                    *)
FreeRoot_NoPmaLock(t) ==
  /\ at(t, "free_root")
  /\ p' = chunk_unpin(p, root_chunk(th[t].r), "PMA_OWNED")
  /\ goto(t, "pma_free")
  /\ UNCHANGED <<lock, pma_vars, clients>>

(* free_root_chunk: PMM gives the root chunk up, then PMA frees it; the    *)
(* evict_pages callback keeps it allocated for RM.                         *)
FreeRoot(t) ==
  /\ at(t, "free_root")
  /\ p' = chunk_unpin(p, root_chunk(th[t].r), "PMA_OWNED")
  /\ readers' = readers \cup {t}
  /\ goto(t, "pma_free")
  /\ UNCHANGED <<lock, pma, evicting, clients>>

PmaFree(t) ==
  /\ at(t, "pma_free")
  /\ pma' = [pma EXCEPT ![th[t].r] = IF th[t].ret = "pages_next" THEN "rm" ELSE "free"]
  /\ readers' = readers \ {t}
  /\ becomes(t, IF th[t].ret = "pages_next" THEN resumed(t) ELSE [resumed(t) EXCEPT !.r = NoRoot])
  /\ UNCHANGED <<p, lock, evicting, clients>>

-----------------------------------------------------------------------------
(* The VA blocks and the kernel allocations.                               *)

(* A 2M block has one root chunk, a smaller one only subchunks.            *)
may_hold(b, size) ==
  LET cs == chunks[b] \cup free_chunks[b]
  IN  IF size = "root" THEN cs = {}
      ELSE Cardinality(cs) < MaxChunks /\ \A c \in cs : ~chunk_is_root_chunk(c)

StartAlloc(b) ==
  /\ at(b, "idle")
  /\ free_chunks[b] = {}
  /\ \E size \in BlockSizes :
       /\ may_hold(b, size)
       /\ becomes(b, [idle EXCEPT !.pc = "claim", !.op = "alloc", !.size = size])
  /\ UNCHANGED <<p, lock, pma_vars, clients>>

(* The retried operation takes the chunk that eviction got it.             *)
Populate(b) ==
  /\ at(b, "idle")
  /\ \E c \in free_chunks[b] :
       /\ free_chunks' = [free_chunks EXCEPT ![b] = @ \ {c}]
       /\ used_chunks' = [used_chunks EXCEPT ![b] = @ \cup {c}]
       /\ chunks' = [chunks EXCEPT ![b] = @ \cup {c}]
  /\ UNCHANGED <<p, lock, pma_vars, th, kchunks>>

(* uvm_va_block_retry_deinit: unpin the chunks that were used and free     *)
(* those that were not.                                                    *)
Unpin(b) ==
  /\ at(b, "idle")
  /\ \E c \in used_chunks[b], d \in Decisions :
       /\ p' = gpu_unpin_temp(p, c, b, d)
       /\ used_chunks' = [used_chunks EXCEPT ![b] = @ \ {c}]
  /\ UNCHANGED <<lock, pma_vars, th, chunks, free_chunks, kchunks>>

StartRelease(b) ==
  /\ at(b, "idle")
  /\ \E c \in free_chunks[b] :
       /\ free_chunks' = [free_chunks EXCEPT ![b] = @ \ {c}]
       /\ becomes(b, [idle EXCEPT !.pc = "free", !.op = "release", !.c = c])
  /\ UNCHANGED <<p, lock, pma_vars, chunks, used_chunks, kchunks>>

(* uvm_pmm_gpu_free of a populated chunk, under the block's lock.          *)
StartFree(b) ==
  /\ at(b, "idle")
  /\ \E c \in chunks[b] \ used_chunks[b] :
       /\ chunks' = [chunks EXCEPT ![b] = @ \ {c}]
       /\ becomes(b, [idle EXCEPT !.pc = "free", !.op = "free", !.c = c])
  /\ UNCHANGED <<p, lock, pma_vars, used_chunks, free_chunks, kchunks>>

(* block_mark_memory_used and block_clear_resident_processor of a 2M block.*)
Mark(b) ==
  /\ at(b, "idle")
  /\ \E r \in Root, used \in BOOLEAN, d \in Decisions :
       /\ chunks[b] = {root_chunk(r)}
       /\ p' = root_chunk_update_eviction_list(p, r, used, d)
  /\ UNCHANGED <<lock, pma_vars, th, clients>>

(* uvm_pmm_gpu_split_chunk of the root chunk of a 2M block.                *)
StartSplit(b) ==
  /\ at(b, "idle")
  /\ \E r \in Root : chunks[b] = {root_chunk(r)} /\ root_chunk(r) \notin used_chunks[b]
  /\ becomes(b, [idle EXCEPT !.pc = "in_place_split", !.op = "split"])
  /\ UNCHANGED <<p, lock, pma_vars, clients>>

InPlaceSplit(b) ==
  /\ at(b, "in_place_split")
  /\ lock = NoThread
  /\ \E r \in Root :
       /\ chunks[b] = {root_chunk(r)}
       /\ p' = split_gpu_chunk(p, r)
       /\ chunks' = [chunks EXCEPT ![b] = subchunks(r)]
  /\ becomes(b, idle)
  /\ UNCHANGED <<lock, pma_vars, used_chunks, free_chunks, kchunks>>

StartKernelAlloc ==
  /\ at(KThread, "idle")
  /\ Cardinality(kchunks) < MaxKernel
  /\ \E size \in KernelSizes, evict \in BOOLEAN :
       becomes(KThread, [idle EXCEPT !.pc = "claim", !.op = "alloc", !.size = size, !.evict = evict])
  /\ UNCHANGED <<p, lock, pma_vars, clients>>

StartKernelFree ==
  /\ at(KThread, "idle")
  /\ \E c \in kchunks :
       /\ kchunks' = kchunks \ {c}
       /\ becomes(KThread, [idle EXCEPT !.pc = "free", !.op = "free", !.c = c])
  /\ UNCHANGED <<p, lock, pma_vars, chunks, used_chunks, free_chunks>>

-----------------------------------------------------------------------------
(* uvm_pmm_gpu_pma_evict_range.  PMA asks for a range it can hand out      *)
(* once UVM has freed its part, and marks it as being evicted.             *)

StartRange ==
  /\ at(PThread, "idle")
  /\ \E bounds \in EvictRanges :
       LET lo == bounds[1]
           hi == bounds[2]
           range == {r \in Root : lo <= r /\ r <= hi}
       IN  /\ \A r \in range : pma[r] \in {"free", "unpinned"}
           /\ \E r \in range : pma[r] = "unpinned"
           /\ evicting' = range
           /\ becomes(PThread, [idle EXCEPT !.pc = "flush", !.op = "range", !.lo = lo, !.hi = hi])
  /\ UNCHANGED <<p, lock, readers, pma, clients>>

(* down_write and up_write of pma_lock.                                    *)
Flush ==
  /\ at(PThread, "flush")
  /\ readers = {}
  /\ goto(PThread, "spin")
  /\ UNCHANGED <<p, lock, pma_vars, clients>>

(* The callback returns; PMA drops its marks.                              *)
range_returns ==
  /\ evicting' = {}
  /\ becomes(PThread, idle)

address == th[PThread].lo

SpinPmaOwned ==
  /\ at(PThread, "spin")
  /\ address <= th[PThread].hi
  /\ p.state[root_chunk(address)] = "PMA_OWNED"
  /\ becomes(PThread, [th[PThread] EXCEPT !.lo = @ + 1])
  /\ UNCHANGED <<p, lock, pma_vars, clients>>

(* Eviction starts under list_lock alone.                                  *)
SpinStart ==
  /\ at(PThread, "spin")
  /\ address <= th[PThread].hi
  /\ chunk_is_evictable(p, address)
  /\ p' = chunk_start_eviction(p, address)
  /\ becomes(PThread, [th[PThread] EXCEPT !.r = address, !.pc = "lock_range"])
  /\ UNCHANGED <<lock, pma_vars, clients>>

(* The spin loop is timed after each turn, the one that started the        *)
(* eviction included.                                                      *)
SpinTimeout ==
  /\ at(PThread, "spin")
  /\ "timeout" \in Faults
  /\ address <= th[PThread].hi
  /\ p' = IF chunk_is_evictable(p, address) THEN chunk_start_eviction(p, address) ELSE p
  /\ range_returns
  /\ UNCHANGED <<lock, readers, pma, clients>>

LockRange ==
  /\ at(PThread, "lock_range")
  /\ acquire(PThread)
  /\ goto(PThread, "pin_free")
  /\ UNCHANGED <<p, pma_vars, clients>>

RangeError ==
  /\ at(PThread, "range_error")
  /\ range_returns
  /\ release(PThread)
  /\ UNCHANGED <<p, readers, pma, clients>>

(* Mutant: the last flush of pending frees is missing.                     *)
FlushAgain_NoWait ==
  /\ at(PThread, "spin")
  /\ address > th[PThread].hi
  /\ goto(PThread, "range_ok")
  /\ UNCHANGED <<p, lock, pma_vars, clients>>

FlushAgain ==
  /\ at(PThread, "spin")
  /\ address > th[PThread].hi
  /\ readers = {}
  /\ goto(PThread, "range_ok")
  /\ UNCHANGED <<p, lock, pma_vars, clients>>

(* NV_OK: PMA gives the whole range to RM.                                 *)
RangeOk ==
  /\ at(PThread, "range_ok")
  /\ pma' = [r \in Root |-> IF r \in evicting THEN "rm" ELSE pma[r]]
  /\ range_returns
  /\ UNCHANGED <<p, lock, readers, clients>>

-----------------------------------------------------------------------------
(* uvm_pmm_gpu_pma_evict_pages: n root chunks within lo .. hi.             *)

StartPages ==
  /\ at(PThread, "idle")
  /\ \E bounds \in PageRanges, n \in 1 .. MaxPages :
       becomes(PThread, [idle EXCEPT !.pc = "lock_pages", !.op = "pages",
                                     !.lo = bounds[1], !.hi = bounds[2], !.n = n])
  /\ UNCHANGED <<p, lock, pma_vars, clients>>

PagesCheck ==
  /\ at(PThread, "pages_check")
  /\ becomes(PThread, [th[PThread] EXCEPT
                         !.pc = "free_root",
                         !.ret = IF th[PThread].r \in th[PThread].lo .. th[PThread].hi
                                 THEN "pages_next" ELSE "pages_error"])
  /\ UNCHANGED <<p, lock, pma_vars, clients>>

PagesNext ==
  /\ at(PThread, "pages_next")
  /\ becomes(PThread,
       IF th[PThread].n = 1 THEN idle
       ELSE [th[PThread] EXCEPT !.pc = "lock_pages", !.n = @ - 1,
                                !.batch = @ \cup {th[PThread].r}, !.r = NoRoot])
  /\ UNCHANGED <<p, lock, pma_vars, clients>>

(* The root chunks evicted so far go back to PMA.                          *)
PagesError ==
  /\ at(PThread, "pages_error")
  /\ pma' = [r \in Root |-> IF r \in th[PThread].batch THEN "free" ELSE pma[r]]
  /\ becomes(PThread, idle)
  /\ release(PThread)
  /\ UNCHANGED <<p, readers, evicting, clients>>

(* RM frees memory it got.                                                 *)
RmFree ==
  /\ \E r \in Root :
       /\ pma[r] = "rm"
       /\ r \notin th[PThread].batch
       /\ ~(at(PThread, "pages_next") /\ th[PThread].r = r)
       /\ pma' = [pma EXCEPT ![r] = "free"]
  /\ UNCHANGED <<p, lock, readers, evicting, th, clients>>

-----------------------------------------------------------------------------
Start(b) == \/ StartAlloc(b) \/ StartFree(b) \/ Mark(b) \/ StartSplit(b)

(* The end of an operation of a block.                                     *)
Retry(b) == Populate(b) \/ StartRelease(b) \/ Unpin(b)

Lock(t) == LockSplit(t) \/ LockEvict(t) \/ Relock(t) \/ LockFree(t)

Step(t) ==
  \/ Claim(t) \/ ClaimAgain(t) \/ ClaimBigger(t)
  \/ PmaAlloc(t) \/ PmaAllocFails(t) \/ InitRoot(t) \/ Split(t) \/ SplitFails(t)
  \/ AllocError(t) \/ EvictAgain(t) \/ Done(t) \/ KernelDone(t) \/ TrackerError(t)
  \/ Pick(t) \/ PickNone(t) \/ PinFree(t) \/ Find(t) \/ FindNone(t)
  \/ EvictBlock(t) \/ EvictBlockFails(t) \/ EvictMerge(t) \/ EvictElevated(t)
  \/ PmaPin(t) \/ SetType(t) \/ PmaPinInUse(t) \/ Abort(t) \/ AbortWalk(t)
  \/ TryFree(t) \/ TryFreeFails(t) \/ FreeLocked(t) \/ MergeLocked(t)
  \/ FreeNext(t) \/ FreeNextNone(t) \/ FreeRoot(t) \/ PmaFree(t) \/ InPlaceSplit(t)

PmaCallback ==
  \/ Flush \/ SpinPmaOwned \/ SpinStart \/ SpinTimeout \/ LockRange \/ RangeError
  \/ FlushAgain \/ RangeOk \/ PagesCheck \/ PagesNext \/ PagesError

(* A thread goes on with the operation it is in.                           *)
Run(t) == Step(t) \/ Lock(t) \/ (t = PThread /\ PmaCallback)

Next ==
  \/ \E t \in Thread : Run(t)
  \/ \E b \in Block : Start(b) \/ Retry(b)
  \/ StartKernelAlloc \/ StartKernelFree
  \/ StartRange \/ StartPages \/ RmFree

Spec == Init /\ [][Next]_vars

(* A thread that can go on again and again does: threads are scheduled,    *)
(* and the kernel hands mutexes and rw_semaphores to their waiters.  No    *)
(* operation has to be started, and no chunk has to be unpinned.           *)
Fairness == \A t \in Thread : SF_vars(Run(t))

FairSpec == Spec /\ Fairness

(* Every operation and every callback ends: no cycle of threads waits for  *)
(* pmm->lock, va_block locks, pma_lock and unpinned chunks, and eviction   *)
(* does not retry for ever.                                                *)
OperationsEnd == \A t \in Thread : []<>(th[t].pc = "idle")

-----------------------------------------------------------------------------
(* Properties.                                                             *)

(* list_state is the authoritative record of root list membership that     *)
(* policy validation relies on (uvm_pmm_root_list_update_locked): it names *)
(* the one list a root chunk is linked on, no list holds a root chunk      *)
(* twice, and a root chunk in eviction is linked nowhere, so no second     *)
(* thread can pick it.                                                     *)
RootListsConsistent ==
  /\ IsInjective(p.used) /\ IsInjective(p.unused)
  /\ \A r \in Root :
       /\ r \in ToSet(p.used) <=> p.list_state[r] = "VA_BLOCK_USED"
       /\ r \in ToSet(p.unused) <=> p.list_state[r] = "VA_BLOCK_UNUSED"
       /\ root_chunk(r) \in p.free <=> p.list_state[r] = "FREE"
       /\ p.in_eviction[r] => p.list_state[r] = "EVICTION"

(* suballoc->allocated and pinned_leaf_chunks, which decide when a parent  *)
(* is merged and whether a root chunk may be evicted, agree with the       *)
(* states of the subchunks through every claim, free, split, merge,        *)
(* eviction and aborted eviction of the allocations.  (evict_range is not  *)
(* covered: it puts a root chunk in eviction without pmm->lock, under a    *)
(* thread that frees one of its subchunks with it.)                        *)
SuballocCounters ==
  \A r \in Root : p.state[root_chunk(r)] = "IS_SPLIT" =>
    /\ p.allocated[r] = Cardinality({c \in subchunks(r) : p.state[c] # "FREE"})
    /\ p.pinned_leaf_chunks[r] = Cardinality({c \in subchunks(r) : p.state[c] = "TEMP_PINNED"})
    /\ p.allocated[r] > 0 \/ lock # NoThread

(* The chunks code outside PMM, or an allocation about to return, holds.   *)
holding(t) ==
  (IF t \in Block THEN chunks[t] \cup free_chunks[t] ELSE IF t = KThread THEN kchunks ELSE {})
  \cup (IF th[t].pc \in {"init", "done", "split", "free", "lock_free", "free_locked", "merge_locked"}
        THEN {th[t].c} \ {NoChunk} ELSE {})

(* uvm_pmm_gpu.h: code outside PMM has no access to a chunk that is free,  *)
(* split or owned by PMA, a chunk has one holder, and a chunk allocated    *)
(* but not yet unpinned stays pinned: no free, eviction, merge or error    *)
(* path of another thread takes it away.                                   *)
ChunksExclusive ==
  \A t \in Thread :
    /\ \A c \in holding(t) : p.state[c] \in {"TEMP_PINNED", "ALLOCATED"}
    /\ \A u \in Thread \ {t} : holding(t) \cap holding(u) = {}
    /\ t \in Block => \A c \in used_chunks[t] \cup free_chunks[t] : p.state[c] = "TEMP_PINNED"
    /\ th[t].pc \in {"done", "split"} => p.state[th[t].c] = "TEMP_PINNED"

(* An allocated user chunk backs the VA block of its reverse mapping (the  *)
(* eviction path locks that block and expects to find the chunk in it),    *)
(* and a block's unpinned chunks are mapped back to it.                    *)
ReverseMap ==
  /\ \A c \in Chunk : p.state[c] = "ALLOCATED" /\ p.type[c[1]] = "USER" =>
       /\ p.va_block[c] # NoBlock
       /\ c \in holding(p.va_block[c]) \ used_chunks[p.va_block[c]]
  /\ \A b \in Block : \A c \in chunks[b] \ used_chunks[b] :
       p.state[c] = "ALLOCATED" /\ p.va_block[c] = b

(* The kernel or eviction thread that has pinned the page of root chunk r  *)
(* in PMA and has yet to change its type, with pmm->lock held.             *)
pinning(r) == \E t \in Thread : at(t, "set_type") /\ th[t].r = r /\ lock = t

(* A root chunk whose page PMA may give to somebody else is PMA_OWNED for  *)
(* PMM, and the two disagree only while a thread is between the two calls  *)
(* with pma_lock held for reading, so that evict_range can wait for it.    *)
(* Kernel memory is pinned in PMA, and user memory only while the one      *)
(* thread that evicted it, under pmm->lock, makes it kernel memory.        *)
PmaAgreement ==
  \A r \in Root :
    IF p.state[root_chunk(r)] = "PMA_OWNED"
    THEN pma[r] \in {"unpinned", "pinned"} =>
           \E t \in readers : r \in th[t].batch \/ (at(t, "pma_free") /\ th[t].r = r)
    ELSE pma[r] = IF p.type[r] = "USER" /\ ~pinning(r) THEN "unpinned" ELSE "pinned"

(* The assertions of chunk_is_evictable and chunk_start_eviction: a user   *)
(* root chunk that looks evictable to the lock-free test of evict_range is *)
(* on a list, and every chunk pick_root_chunk_to_evict can take is         *)
(* evictable, although a root chunk may be pinned and listed for a moment  *)
(* while another thread merges it with pmm->lock held.                     *)
PickSafe ==
  /\ \A r \in Root : chunk_is_evictable(p, r) /\ p.type[r] = "USER" =>
       p.list_state[r] \in {"FREE", "VA_BLOCK_USED", "VA_BLOCK_UNUSED"}
  /\ \A t \in Thread : at(t, "pick") =>
       \A r \in pick_candidates(p) \cup ToSet(p.unused) \cup ToSet(p.used) :
         chunk_is_evictable(p, r) /\ p.type[r] = "USER"

(* A root chunk in eviction is being evicted by exactly one thread, which  *)
(* will merge it or abort: no thread returns and leaves it behind.         *)
EvictionOwned ==
  \A r \in Root : p.in_eviction[r] =>
    \E t \in Thread :
      /\ th[t].r = r
      /\ th[t].pc \in {"pin_free", "find", "va_block", "relock", "relock_error", "merge",
                       "abort", "lock_range"}
      /\ \A u \in Thread \ {t} : th[u].r # r

(* The assertion of evict_range that every chunk of its range which PMM    *)
(* still has is user memory: a kernel allocation that evicts for itself    *)
(* cannot pin a page of the range under the callback, because PMA refuses  *)
(* the pin and the allocation returns the page.                            *)
RangeOnlyUser ==
  at(PThread, "spin") /\ address <= th[PThread].hi =>
    \/ p.state[root_chunk(address)] = "PMA_OWNED"
    \/ p.type[address] = "USER"

(* No chunk leaks: a chunk that is neither free nor PMA's is held by a     *)
(* client or an allocation, or lies in the root chunk that some thread is  *)
(* evicting, merging or returning to PMA - on the error paths of           *)
(* allocation, split and eviction too.                                     *)
NoLeaks ==
  \A c \in Chunk : p.state[c] \in {"TEMP_PINNED", "ALLOCATED"} =>
    \E t \in Thread :
      \/ c \in holding(t)
      \/ th[t].r = c[1]
      \/ th[t].pc = "merge_locked" /\ th[t].c[1] = c[1]

(* The effect of one policy callback is confined to the chunk it is called *)
(* for: compared with no policy, only the position of that root chunk on   *)
(* the two eviction lists can differ, the chunk stays on one of them, and  *)
(* the order of the other chunks is what it was.                           *)
confined(r, with, without) ==
  /\ [with EXCEPT !.used = <<>>, !.unused = <<>>, !.list_state[r] = "NONE", !.list_generation[r] = 0]
     = [without EXCEPT !.used = <<>>, !.unused = <<>>, !.list_state[r] = "NONE", !.list_generation[r] = 0]
  /\ ToSet(with.used \o with.unused) = ToSet(without.used \o without.unused)
  /\ RemoveFirst(with.used, r) = RemoveFirst(p.used, r)
  /\ RemoveFirst(with.unused, r) = RemoveFirst(p.unused, r)

PolicyConfined ==
  \A b \in Block, d \in Decisions : at(b, "idle") =>
    /\ \A c \in used_chunks[b] :
         confined(c[1], gpu_unpin_temp(p, c, b, d), gpu_unpin_temp(p, c, b, no_decision))
    /\ \A r \in Root : chunks[b] = {root_chunk(r)} =>
         confined(r, root_chunk_update_eviction_list(p, r, TRUE, d),
                     root_chunk_update_eviction_list(p, r, TRUE, no_decision))

-----------------------------------------------------------------------------
(* What PMM promises: MemoryOwnership, with the pages of a root chunk in   *)
(* the place of its subchunks.                                             *)

Page == UNION {subchunks(r) : r \in Root}

covers(c, g) == c = g \/ c = root_chunk(g[1])

client_chunks(t) == IF t \in Block THEN chunks[t] \cup free_chunks[t] ELSE kchunks

pma_owner(r) ==
  CASE pma[r] = "free" -> "pma" [] pma[r] = "rm" -> "rm" [] OTHER -> "uvm"

Promise ==
  INSTANCE MemoryOwnership WITH
    Client <- Block \cup {KThread},
    owner <- [r \in Root |-> pma_owner(r)],
    users <- [g \in Page |-> {t \in Block \cup {KThread} : \E c \in client_chunks(t) : covers(c, g)}]

(* PMM implements MemoryOwnership: no thread of the allocator, of eviction *)
(* or of a PMA callback ever returns a root chunk while a client has data  *)
(* in it, gives a page to a client while another one still uses it, or     *)
(* lets RM have memory that UVM has not given up: when evict_range returns *)
(* NV_OK the pending frees of its range are done, and the pages that       *)
(* evict_pages hands over have no user.                                    *)
Ownership == Promise!Spec

-----------------------------------------------------------------------------
(* What the code says of itself and does not hold.                         *)

(* The assertion of uvm_pmm_gpu_deinit: a root chunk that is back with PMA *)
(* has list_state NONE.                                                    *)
PmaOwnedUnlisted ==
  \A r \in Root : p.state[root_chunk(r)] = "PMA_OWNED" => p.list_state[r] = "NONE"

(* The assertion of free_or_prepare_for_merge: freeing the last allocated  *)
(* child leaves its parent with no allocated subchunk.                     *)
LastChildFreed ==
  \A t \in Thread :
    at(t, "free_locked") /\ chunk_is_last_allocated_child(p, th[t].c) =>
      chunk_free_locked(p, th[t].c, no_decision).allocated[th[t].c[1]] = 0

(* list_generation is "advanced on ownership and cross-list transitions".  *)
OwnershipAdvancesGeneration ==
  [][\A r \in Root :
       (p.state[root_chunk(r)] = "PMA_OWNED") # (p'.state[root_chunk(r)] = "PMA_OWNED") =>
         p'.list_generation[r] # p.list_generation[r]]_vars
=============================================================================
