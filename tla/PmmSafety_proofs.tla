--------------------------- MODULE PmmSafety_proofs ---------------------------
(***************************************************************************)
(* The safety invariants of UvmPmm, for any number of root chunks,         *)
(* subchunks, VA blocks, ranges of the PMA callbacks and decisions of a    *)
(* policy, when no eviction is aborted.                                    *)
(*                                                                         *)
(* PmmInv is inductive.  It says which locks and which root chunk a thread *)
(* has at each step (Discipline), who holds each chunk and in which state  *)
(* it is then (ChunkInv), how a root chunk, its subchunks, its place on    *)
(* the lists, its counters, its evictor and PMA agree (RootInv), what the  *)
(* marks of evict_range mean (Marked), and that a block being split in     *)
(* place holds no pinned root chunk (InPlace).  From it follow the safety  *)
(* invariants, and that PMM implements MemoryOwnership.                    *)
(***************************************************************************)
EXTENDS UvmPmm_proofs

-----------------------------------------------------------------------------
(* The invariant of the chunks, for evictions that do not fail.            *)

(* uvm_va_block_evict_chunks returns NV_OK and evict_range finds its root  *)
(* chunks evictable before the time is up, so that no eviction is aborted. *)
(* The other errors - no page from PMA, a failed split, a failed tracker,  *)
(* a page that another driver still references - happen at any time.       *)
NoAborts == Faults \cap {"eviction", "timeout"} = {}

-----------------------------------------------------------------------------
(* What a thread holds at each of its steps.                               *)

Evictors == {"lock_range", "pin_free", "find", "va_block", "relock", "merge"}

(* A thread has a root chunk only in the steps that need one, and a batch  *)
(* while it initializes it or collects pages for RM.                       *)
TidyOf(x) ==
  /\ x.pc \notin {"relock_error", "abort", "abort_walk", "abort_next"}
  /\ x.ret # "abort_walk"
  /\ x.pc \notin RootSteps => x.r = NoRoot
  /\ x.batch # {} => x.pc = "init" \/ x.op = "pages"
  /\ x.pc = "merge_locked" => x.op \in {"free", "release"}
  /\ x.op = "range" => x.pc # "pick" /\ (x.pc \in Evictors => x.r = x.lo)

(* The steps of a section of pmm->lock.                                    *)
NeedsLock(x) ==
  \/ x.pc \in {"claim_again", "claim_bigger", "split", "pick", "pin_free", "find", "merge", "pma_pin",
               "set_type", "free_locked", "merge_locked"}
  \/ x.pc \in {"pma_alloc", "init"} /\ x.size = "sub"
  \/ x.pc \in {"free_root", "pma_free"} /\ x.ret = "pick"

Discipline ==
  \A t \in Thread : /\ TidyOf(th[t])
                    /\ NeedsLock(th[t]) => lock = t
                    /\ th[t].pc \in {"init", "pma_free"} => t \in readers

-----------------------------------------------------------------------------
(* Who holds a chunk.                                                      *)

RootWork == {"pma_pin", "set_type", "free_root", "pages_check"}

HoldWork == {"init", "done", "split"}

FreeWork == {"free", "lock_free", "free_locked"}

Works(x, c) ==
  \/ x.pc \in HoldWork \cup FreeWork /\ x.c = c
  \/ x.pc = "merge_locked" /\ x.c[1] = c[1] /\ c[2] # 0
  \/ x.pc \in RootWork /\ c = root_chunk(x.r)

Owns(t, c) ==
  \/ t \in Block /\ (c \in chunks[t] \/ c \in free_chunks[t])
  \/ t = KThread /\ c \in kchunks

Has(t, c) == Owns(t, c) \/ Works(th[t], c)

(* What holding a chunk means.                                             *)
OwnedBy(t, c) ==
  /\ t \in Block =>
       /\ c \in used_chunks[t] => c \in chunks[t]
       /\ c \in chunks[t] => c \notin free_chunks[t]
       /\ c \in chunks[t] /\ c \notin used_chunks[t] => p.state[c] = "ALLOCATED" /\ p.va_block[c] = t
       /\ c \in used_chunks[t] \/ c \in free_chunks[t] => p.state[c] = "TEMP_PINNED" /\ ~p.in_eviction[c[1]]
  /\ t = KThread /\ c \in kchunks => p.state[c] = "ALLOCATED"
  /\ Owns(t, c) => p.type[c[1]] = mem_type(t) /\ ~Works(th[t], c)

WorkedBy(t, c) ==
  LET x == th[t]
  IN  Works(x, c) =>
        /\ x.pc \notin RootWork => p.type[c[1]] = mem_type(t)
        /\ x.pc \in RootWork \cup HoldWork => p.state[c] = "TEMP_PINNED" /\ ~p.in_eviction[c[1]]
        /\ x.pc \in FreeWork =>
             \/ p.state[c] = "ALLOCATED" /\ (t \in Block => p.va_block[c] = t)
             \/ /\ p.state[c] = "TEMP_PINNED"
                /\ p.in_eviction[c[1]] => x.pc = "free_locked" /\ c[2] = 0
        /\ x.pc = "merge_locked" =>
             p.state[c] = "TEMP_PINNED" /\ p.state[root_chunk(c[1])] = "IS_SPLIT"

ChunkInv(c) ==
  /\ \A t \in Thread : OwnedBy(t, c) /\ WorkedBy(t, c)
  /\ \A t, u \in Thread : Has(t, c) /\ Has(u, c) => t = u
  /\ p.state[c] = "ALLOCATED" => \E t \in Thread : Has(t, c)
  /\ p.state[c] = "TEMP_PINNED" => p.in_eviction[c[1]] \/ \E t \in Thread : Has(t, c)

-----------------------------------------------------------------------------
(* A root chunk, its tree, its place on the lists and its counters.        *)

Tree(r) ==
  /\ p.state[root_chunk(r)] # "NO_CHUNK"
  /\ \A c \in subchunks(r) :
       IF p.state[root_chunk(r)] = "IS_SPLIT" THEN p.state[c] \in {"FREE", "TEMP_PINNED", "ALLOCATED"}
       ELSE p.state[c] = "NO_CHUNK"
  /\ \A c \in family(r) : c \in p.free => p.state[c] = "FREE"

Merging(x, r) ==
  \/ x.pc = "merge_locked" /\ x.c[1] = r
  \/ x.pc = "free_locked" /\ x.c = root_chunk(r)

InUse(r) ==
  /\ p.type[r] = "USER"
  /\ \/ p.state[root_chunk(r)] = "ALLOCATED"
     \/ p.state[root_chunk(r)] = "IS_SPLIT" /\ p.pinned_leaf_chunks[r] = 0

Listing(r) ==
  /\ linked(p, r)
  /\ IF p.in_eviction[r]
     THEN p.list_state[r] = "EVICTION" /\ p.type[r] = "USER" /\ p.state[root_chunk(r)] # "PMA_OWNED"
     ELSE /\ p.list_state[r] = "FREE" <=> p.state[root_chunk(r)] = "FREE"
          /\ Listed(p, r) => p.type[r] = "USER" /\ (InUse(r) \/ \E t \in Thread : Merging(th[t], r))
          /\ InUse(r) => Listed(p, r)

AllocatedIn(q, r) == {c \in subchunks(r) : q.state[c] # "FREE"}

PinnedIn(q, r) == {c \in subchunks(r) : q.state[c] = "TEMP_PINNED"}

Counted(r) ==
  p.state[root_chunk(r)] = "IS_SPLIT" =>
    /\ p.allocated[r] = Cardinality(AllocatedIn(p, r))
    /\ p.allocated[r] > 0
    /\ \/ p.pinned_leaf_chunks[r] = Cardinality(PinnedIn(p, r))
       \/ p.in_eviction[r] /\ \E t \in Thread : th[t].pc = "merge_locked" /\ th[t].c[1] = r

(* The thread that evicts a root chunk or returns it to PMA.               *)
Progress(x, r) ==
  /\ x.pc \in Evictors => p.in_eviction[r]
  /\ x.pc \in {"find", "va_block", "relock", "merge"} =>
       \A c \in family(r) : /\ p.state[c] # "FREE"
                            /\ \A u \in Thread : Works(th[u], c) => p.state[c] = "ALLOCATED"
  /\ x.pc = "merge" => \A c \in family(r) : p.state[c] # "ALLOCATED"
  /\ x.pc = "va_block" => x.va \in Block
  /\ x.pc = "pma_free" => p.state[root_chunk(r)] = "PMA_OWNED" /\ pma[r] \in {"unpinned", "pinned"}
  /\ x.pc = "pages_next" => p.state[root_chunk(r)] = "PMA_OWNED" /\ pma[r] = "rm"

Uses(t, r) ==
  th[t].r = r => Progress(th[t], r) /\ \A u \in Thread : th[u].r = r => u = t

Evicting(r) == p.in_eviction[r] => \E t \in Thread : th[t].r = r /\ th[t].pc \in Evictors

pma_state(type) == IF type = "USER" THEN "unpinned" ELSE "pinned"

Batched(t, r) ==
  r \in th[t].batch =>
    /\ p.state[root_chunk(r)] = "PMA_OWNED"
    /\ pma[r] = IF t = PThread THEN "rm" ELSE pma_state(mem_type(t))
    /\ \A u \in Thread : th[u].r # r
    /\ \A u \in Thread : r \in th[u].batch => u = t

Returning(x, r) == r \in x.batch \/ (x.pc = "pma_free" /\ x.r = r)

(* A thread has pinned the page of root chunk r in PMA and has yet to make *)
(* it kernel memory.                                                       *)
Pinning(x, r) == x.pc = "set_type" /\ x.r = r

Pinned(r) == \E t \in Thread : Pinning(th[t], r)

PmaOf(r) ==
  IF p.state[root_chunk(r)] # "PMA_OWNED"
  THEN pma[r] = IF Pinned(r) THEN "pinned" ELSE pma_state(p.type[r])
  ELSE pma[r] \in {"unpinned", "pinned"} => \E t \in readers : Returning(th[t], r)

RootInv(r) ==
  /\ Tree(r) /\ Listing(r) /\ Counted(r) /\ Evicting(r) /\ PmaOf(r)
  /\ \A t \in Thread : Uses(t, r) /\ Batched(t, r)

-----------------------------------------------------------------------------
(* The range that PMA evicts, and blocks that are about to be split.       *)

Marked ==
  LET x == th[PThread]
  IN  IF x.op # "range" THEN evicting = {}
      ELSE /\ x.lo .. x.hi \subseteq evicting
           /\ \A r \in evicting :
                /\ r <= x.hi /\ pma[r] \in {"free", "unpinned"}
                /\ x.pc # "flush" => \A t \in Thread : r \notin th[t].batch
                /\ r < x.lo => x.pc # "flush" /\
                     (p.state[root_chunk(r)] = "PMA_OWNED" \/ (x.pc = "free_root" /\ x.r = r))
                /\ x.pc = "range_ok" => p.state[root_chunk(r)] = "PMA_OWNED" /\ pma[r] = "free"

InPlace ==
  \A b \in Block : th[b].pc = "in_place_split" => \A r \in Root : root_chunk(r) \notin used_chunks[b]

PmmInv ==
  /\ TypeInv /\ Discipline /\ Marked /\ InPlace
  /\ \A c \in Chunk : ChunkInv(c)
  /\ \A r \in Root : RootInv(r)

-----------------------------------------------------------------------------
(* Every step keeps the discipline.                                        *)

Orderly(t) ==
  /\ TidyOf(th'[t])
  /\ NeedsLock(th'[t]) => lock' = t
  /\ th'[t].pc \in {"init", "pma_free"} => t \in readers'
  /\ lock' = lock \/ lock = NoThread \/ lock = t
  /\ \A u \in Thread \ {t} : u \in readers => u \in readers'

LEMMA Disciplined ==
  ASSUME Discipline, NEW t \in Thread, Moved(t), Orderly(t)
  PROVE  Discipline'
<1>1. NoThread \notin Thread
  BY Threads
<1> SUFFICES ASSUME NEW u \in Thread
             PROVE  /\ TidyOf(th'[u]) /\ (NeedsLock(th'[u]) => lock' = u)
                    /\ th'[u].pc \in {"init", "pma_free"} => u \in readers'
  BY DEF Discipline, TidyOf, NeedsLock
<1>2. CASE u = t
  BY <1>2 DEF Orderly
<1>3. CASE u # t
  <2>1. th'[u] = th[u]
    BY <1>3 DEF Moved
  <2>2. /\ TidyOf(th[u]) /\ (NeedsLock(th[u]) => lock = u)
        /\ th[u].pc \in {"init", "pma_free"} => u \in readers
    BY DEF Discipline
  <2> QED BY <1>1, <1>3, <2>1, <2>2 DEF Orderly
<1> QED BY <1>2, <1>3

LEMMA ThreadOrderly ==
  ASSUME TypeInv, Discipline, NEW t \in Thread
  PROVE  /\ th[t] \in Local /\ FlowOf(t, th[t]) /\ TidyOf(th[t]) /\ (NeedsLock(th[t]) => lock = t)
         /\ th[t].pc \in {"init", "pma_free"} => t \in readers
         /\ th[t].size \in {"root", "sub"}
<1>1. th[t] \in Local /\ FlowOf(t, th[t])
  BY ThreadTyped
<1>2. th[t].size \in {"root", "sub"}
  BY <1>1 DEF Local, Sizes
<1> QED BY <1>1, <1>2 DEF Discipline

LEMMA ClaimOrderly ==
  ASSUME TypeInv, Discipline, NEW t \in Thread, Claim(t)
  PROVE  Moved(t) /\ Orderly(t)
<1>1. th[t].pc = "claim" /\ lock' = lock /\ readers' = readers
  BY DEF Claim, at, pma_vars, release, evicted
<1> QED BY <1>1, ThreadOrderly, ClaimStep
        DEF Orderly, TidyOf, NeedsLock, RootSteps, Evictors, Kept, FlowOf, Course, Frees, Locals,
            AllocSteps, RangeSteps, PageSteps, EvictSteps

LEMMA ClaimAgainOrderly ==
  ASSUME TypeInv, Discipline, NEW t \in Thread, ClaimAgain(t)
  PROVE  Moved(t) /\ Orderly(t)
<1>1. th[t].pc = "claim_again" /\ readers' = readers /\ (lock' = lock \/ lock' = NoThread)
  BY DEF ClaimAgain, at, pma_vars, release, evicted
<1> QED BY <1>1, ThreadOrderly, ClaimAgainStep
        DEF Orderly, TidyOf, NeedsLock, RootSteps, Evictors, Kept, FlowOf, Course, Frees, Locals,
            AllocSteps, RangeSteps, PageSteps, EvictSteps

LEMMA ClaimBiggerOrderly ==
  ASSUME TypeInv, Discipline, NEW t \in Thread, ClaimBigger(t)
  PROVE  Moved(t) /\ Orderly(t)
<1>1. th[t].pc = "claim_bigger" /\ lock' = lock /\ readers' = readers
  BY DEF ClaimBigger, at, pma_vars, release, evicted
<1> QED BY <1>1, ThreadOrderly, ClaimBiggerStep
        DEF Orderly, TidyOf, NeedsLock, RootSteps, Evictors, Kept, FlowOf, Course, Frees, Locals,
            AllocSteps, RangeSteps, PageSteps, EvictSteps

LEMMA PmaAllocOrderly ==
  ASSUME TypeInv, Discipline, NEW t \in Thread, PmaAlloc(t)
  PROVE  Moved(t) /\ Orderly(t)
<1>1. th[t].pc = "pma_alloc" /\ lock' = lock /\ readers' = readers \cup {t}
  BY DEF PmaAlloc, at, pma_vars, release, evicted
<1> QED BY <1>1, ThreadOrderly, PmaAllocStep
        DEF Orderly, TidyOf, NeedsLock, RootSteps, Evictors, Kept, FlowOf, Course, Frees, Locals,
            AllocSteps, RangeSteps, PageSteps, EvictSteps

LEMMA PmaAllocFailsOrderly ==
  ASSUME TypeInv, Discipline, NEW t \in Thread, PmaAllocFails(t)
  PROVE  Moved(t) /\ Orderly(t)
<1>1. th[t].pc = "pma_alloc" /\ lock' = lock /\ readers' = readers
  BY DEF PmaAllocFails, at, pma_vars, release, evicted
<1> QED BY <1>1, ThreadOrderly, PmaAllocFailsStep
        DEF Orderly, TidyOf, NeedsLock, RootSteps, Evictors, SameLocals, FlowOf, Course, Frees, Locals,
            AllocSteps, RangeSteps, PageSteps, EvictSteps

LEMMA InitRootOrderly ==
  ASSUME TypeInv, Discipline, NEW t \in Thread, InitRoot(t)
  PROVE  Moved(t) /\ Orderly(t)
<1>1. th[t].pc = "init" /\ lock' = lock
  BY DEF InitRoot, at, pma_vars, release, evicted
<1> QED BY <1>1, ThreadOrderly, InitRootStep
        DEF Orderly, TidyOf, NeedsLock, RootSteps, Evictors, Kept, FlowOf, Course, Frees, Locals,
            AllocSteps, RangeSteps, PageSteps, EvictSteps

LEMMA SplitOrderly ==
  ASSUME TypeInv, Discipline, NEW t \in Thread, Split(t)
  PROVE  Moved(t) /\ Orderly(t)
<1>1. th[t].pc = "split" /\ readers' = readers /\ (lock' = lock \/ lock = t)
  BY DEF Split, at, pma_vars, release, evicted
<1> QED BY <1>1, ThreadOrderly, SplitStep
        DEF Orderly, TidyOf, NeedsLock, RootSteps, Evictors, Kept, FlowOf, Course, Frees, Locals,
            AllocSteps, RangeSteps, PageSteps, EvictSteps

LEMMA SplitFailsOrderly ==
  ASSUME TypeInv, Discipline, NEW t \in Thread, SplitFails(t)
  PROVE  Moved(t) /\ Orderly(t)
<1>1. th[t].pc = "split" /\ lock' = lock /\ readers' = readers
  BY DEF SplitFails, at, pma_vars, release, evicted
<1> QED BY <1>1, ThreadOrderly, SplitFailsStep
        DEF Orderly, TidyOf, NeedsLock, RootSteps, Evictors, Kept, FlowOf, Course, Frees, Locals,
            AllocSteps, RangeSteps, PageSteps, EvictSteps

LEMMA AllocErrorOrderly ==
  ASSUME TypeInv, Discipline, NEW t \in Thread, AllocError(t)
  PROVE  Moved(t) /\ Orderly(t)
<1>1. th[t].pc = "alloc_error" /\ readers' = readers /\ (lock' = lock \/ lock = t)
  BY DEF AllocError, at, pma_vars, release, evicted
<1>2. th[t].r = NoRoot /\ th[t].batch = {} /\ th[t].op = "alloc"
  <2>1. th[t].op = "alloc"
    BY <1>1, ThreadOrderly DEF FlowOf, Course, Frees, AllocSteps, RangeSteps, PageSteps, EvictSteps
  <2> QED BY <1>1, <2>1, ThreadOrderly DEF TidyOf, RootSteps
<1>3. /\ Moved(t) /\ th'[t].pc \in {"next", "evict_again"} /\ th'[t].op = "alloc" /\ th'[t].r = NoRoot
      /\ th'[t].batch = {} /\ th'[t].ret = "evict_again"
  BY <1>2, AllocErrorStep DEF Kept
<1> QED BY <1>1, <1>3 DEF Orderly, TidyOf, NeedsLock

LEMMA EvictAgainOrderly ==
  ASSUME TypeInv, Discipline, NEW t \in Thread, EvictAgain(t)
  PROVE  Moved(t) /\ Orderly(t)
<1>1. th[t].pc = "evict_again" /\ UNCHANGED <<lock, readers>>
  BY DEF EvictAgain, at, pma_vars
<1>2. /\ Moved(t) /\ th'[t].pc \in {"idle", "claim"} /\ th'[t].op \in {"none", "alloc"}
      /\ th'[t].r = NoRoot /\ th'[t].batch = {} /\ th'[t].ret = "idle"
  BY EvictAgainStep, IdleTyped DEF idle
<1> QED BY <1>1, <1>2 DEF Orderly, TidyOf, NeedsLock, Evictors

LEMMA DoneOrderly ==
  ASSUME TypeInv, Discipline, NEW t \in Thread, Done(t)
  PROVE  Moved(t) /\ Orderly(t)
BY ThreadOrderly, DoneStep, IdleTyped
   DEF Orderly, TidyOf, NeedsLock, RootSteps, Evictors, Done, pma_vars, at, FlowOf, Course, Frees, Locals, AllocSteps, RangeSteps, PageSteps, EvictSteps

LEMMA KernelDoneOrderly ==
  ASSUME TypeInv, Discipline, NEW t \in Thread, KernelDone(t)
  PROVE  Moved(t) /\ Orderly(t)
BY ThreadOrderly, KernelDoneStep, IdleTyped
   DEF Orderly, TidyOf, NeedsLock, RootSteps, Evictors, KernelDone, pma_vars, at, FlowOf, Course, Frees, Locals, AllocSteps, RangeSteps, PageSteps, EvictSteps

LEMMA TrackerErrorOrderly ==
  ASSUME TypeInv, Discipline, NEW t \in Thread, TrackerError(t)
  PROVE  Moved(t) /\ Orderly(t)
<1>1. th[t].pc = "done" /\ lock' = lock /\ readers' = readers
  BY DEF TrackerError, at, pma_vars, release, evicted
<1> QED BY <1>1, ThreadOrderly, TrackerErrorStep
        DEF Orderly, TidyOf, NeedsLock, RootSteps, Evictors, FlowOf, Course, Frees, Locals,
            AllocSteps, RangeSteps, PageSteps, EvictSteps

LEMMA PickOrderly ==
  ASSUME TypeInv, Discipline, NEW t \in Thread, Pick(t)
  PROVE  Moved(t) /\ Orderly(t)
<1>1. th[t].pc = "pick" /\ lock' = lock /\ readers' = readers
  BY DEF Pick, at, pma_vars, release, evicted
<1> QED BY <1>1, ThreadOrderly, PickStep
        DEF Orderly, TidyOf, NeedsLock, RootSteps, Evictors, Kept, FlowOf, Course, Frees, Locals,
            AllocSteps, RangeSteps, PageSteps, EvictSteps

LEMMA PickNoneOrderly ==
  ASSUME TypeInv, Discipline, NEW t \in Thread, PickNone(t)
  PROVE  Moved(t) /\ Orderly(t)
BY ThreadOrderly, PickNoneStep
   DEF Orderly, TidyOf, NeedsLock, RootSteps, Evictors, PickNone, SameLocals, pma_vars, at, FlowOf, Course, Frees, Locals, AllocSteps, RangeSteps, PageSteps, EvictSteps

LEMMA PinFreeOrderly ==
  ASSUME TypeInv, Discipline, NEW t \in Thread, PinFree(t)
  PROVE  Moved(t) /\ Orderly(t)
BY ThreadOrderly, PinFreeStep
   DEF Orderly, TidyOf, NeedsLock, RootSteps, Evictors, PinFree, Kept, pma_vars, at, FlowOf, Course, Frees, Locals, AllocSteps, RangeSteps, PageSteps, EvictSteps

LEMMA FindOrderly ==
  ASSUME TypeInv, Discipline, NEW t \in Thread, Find(t)
  PROVE  Moved(t) /\ Orderly(t)
<1>1. th[t].pc = "find" /\ readers' = readers
  BY DEF Find, at, pma_vars, release, evicted
<1> QED BY <1>1, ThreadOrderly, FindStep
        DEF Orderly, TidyOf, NeedsLock, RootSteps, Evictors, Kept, FlowOf, Course, Frees, Locals,
            AllocSteps, RangeSteps, PageSteps, EvictSteps

LEMMA FindNoneOrderly ==
  ASSUME TypeInv, Discipline, NEW t \in Thread, FindNone(t)
  PROVE  Moved(t) /\ Orderly(t)
BY ThreadOrderly, FindNoneStep
   DEF Orderly, TidyOf, NeedsLock, RootSteps, Evictors, FindNone, SameLocals, pma_vars, at, FlowOf, Course, Frees, Locals, AllocSteps, RangeSteps, PageSteps, EvictSteps

LEMMA EvictBlockOrderly ==
  ASSUME TypeInv, Discipline, NEW t \in Thread, EvictBlock(t)
  PROVE  Moved(t) /\ Orderly(t)
<1>1. th[t].pc = "va_block" /\ lock' = lock /\ readers' = readers
  BY DEF EvictBlock, at, pma_vars, release, evicted
<1> QED BY <1>1, ThreadOrderly, EvictBlockStep
        DEF Orderly, TidyOf, NeedsLock, RootSteps, Evictors, Kept, FlowOf, Course, Frees, Locals,
            AllocSteps, RangeSteps, PageSteps, EvictSteps

LEMMA EvictMergeOrderly ==
  ASSUME TypeInv, Discipline, NEW t \in Thread, EvictMerge(t)
  PROVE  Moved(t) /\ Orderly(t)
<1>1. th[t].pc = "merge" /\ readers' = readers
      /\ (th[t].op = "range" \/ t \in Block => lock' = IF th[t].op = "alloc" /\ th[t].size = "sub" THEN lock ELSE NoThread)
      /\ (~(th[t].op = "range" \/ t \in Block) => lock' = lock)
  BY DEF EvictMerge, at, pma_vars, release, evicted
<1> QED BY <1>1, ThreadOrderly, EvictMergeStep
        DEF Orderly, TidyOf, NeedsLock, RootSteps, Evictors, Evicted, SameLocals, FlowOf, Course, Frees, Locals,
            AllocSteps, RangeSteps, PageSteps, EvictSteps

LEMMA EvictElevatedOrderly ==
  ASSUME TypeInv, Discipline, NEW t \in Thread, EvictElevated(t)
  PROVE  Moved(t) /\ Orderly(t)
<1>1. th[t].pc = "merge" /\ lock' = lock /\ readers' = readers
  BY DEF EvictElevated, at, pma_vars, release, evicted
<1> QED BY <1>1, ThreadOrderly, EvictElevatedStep
        DEF Orderly, TidyOf, NeedsLock, RootSteps, Evictors, Kept, FlowOf, Course, Frees, Locals,
            AllocSteps, RangeSteps, PageSteps, EvictSteps

LEMMA PmaPinOrderly ==
  ASSUME TypeInv, Discipline, NEW t \in Thread, PmaPin(t)
  PROVE  Moved(t) /\ Orderly(t)
<1>1. th[t].pc = "pma_pin" /\ UNCHANGED <<lock, readers>>
  BY DEF PmaPin, at
<1> QED BY <1>1, ThreadOrderly, PmaPinStep
        DEF Orderly, TidyOf, NeedsLock, RootSteps, Evictors, SameLocals, FlowOf, Course, Frees, Locals,
            AllocSteps, RangeSteps, PageSteps, EvictSteps

LEMMA SetTypeOrderly ==
  ASSUME TypeInv, Discipline, NEW t \in Thread, SetType(t)
  PROVE  Moved(t) /\ Orderly(t)
<1>1. th[t].pc = "set_type" /\ readers' = readers
      /\ lock' = IF th[t].op = "alloc" /\ th[t].size = "sub" THEN lock ELSE NoThread
  BY DEF SetType, at, pma_vars, release, evicted
<1> QED BY <1>1, ThreadOrderly, SetTypeStep
        DEF Orderly, TidyOf, NeedsLock, RootSteps, Evictors, Evicted, FlowOf, Course, Frees, Locals,
            AllocSteps, RangeSteps, PageSteps, EvictSteps

LEMMA PmaPinInUseOrderly ==
  ASSUME TypeInv, Discipline, NEW t \in Thread, PmaPinInUse(t)
  PROVE  Moved(t) /\ Orderly(t)
<1>1. th[t].pc = "pma_pin" /\ lock' = lock /\ readers' = readers
  BY DEF PmaPinInUse, at, pma_vars, release, evicted
<1> QED BY <1>1, ThreadOrderly, PmaPinInUseStep
        DEF Orderly, TidyOf, NeedsLock, RootSteps, Evictors, Kept, FlowOf, Course, Frees, Locals,
            AllocSteps, RangeSteps, PageSteps, EvictSteps

LEMMA TryFreeOrderly ==
  ASSUME TypeInv, Discipline, NEW t \in Thread, TryFree(t)
  PROVE  Moved(t) /\ Orderly(t)
BY ThreadOrderly, TryFreeStep, IdleTyped
   DEF Orderly, TidyOf, NeedsLock, RootSteps, Evictors, TryFree, SameLocals, Resumed, Kept, pma_vars, at, FlowOf, Course, Frees, Locals, AllocSteps, RangeSteps, PageSteps, EvictSteps

LEMMA TryFreeFailsOrderly ==
  ASSUME TypeInv, Discipline, NEW t \in Thread, TryFreeFails(t)
  PROVE  Moved(t) /\ Orderly(t)
BY ThreadOrderly, TryFreeFailsStep
   DEF Orderly, TidyOf, NeedsLock, RootSteps, Evictors, TryFreeFails, SameLocals, pma_vars, at, FlowOf, Course, Frees, Locals, AllocSteps, RangeSteps, PageSteps, EvictSteps

LEMMA FreeLockedOrderly ==
  ASSUME TypeInv, Discipline, NEW t \in Thread, FreeLocked(t)
  PROVE  Moved(t) /\ Orderly(t)
<1>1. th[t].pc = "free_locked" /\ readers' = readers /\ (lock' = lock \/ lock = t)
      /\ (chunk_is_last_allocated_child(p, th[t].c) => lock' = lock)
      /\ (chunk_is_last_allocated_child(p, th[t].c) => th[t].c[2] # 0)
  BY DEF FreeLocked, at, pma_vars, release, evicted, chunk_is_last_allocated_child, chunk_is_root_chunk
<1>2. /\ lock = t /\ th[t].r = NoRoot /\ th[t].batch = {}
      /\ \/ Frees(th[t])
         \/ th[t].op = "alloc" /\ th[t].ret = "alloc_error" /\ th[t].c[2] = 0
  <2>1. lock = t /\ th[t].r = NoRoot /\ (th[t].batch # {} => th[t].op = "pages") /\ th[t].ret # "abort_walk"
    BY <1>1, ThreadOrderly DEF TidyOf, NeedsLock, RootSteps
  <2>2. \/ Frees(th[t])
        \/ th[t].op = "alloc" /\ th[t].ret = "alloc_error" /\ th[t].c[2] = 0
    BY <1>1, <2>1, ThreadOrderly DEF FlowOf, Course, Frees, AllocSteps, RangeSteps, PageSteps, EvictSteps
  <2> QED BY <2>1, <2>2 DEF Frees
<1>3. CASE th[t].op \in {"free", "release"}
  <2>1. /\ Moved(t) /\ th'[t].op = th[t].op /\ th'[t].r = NoRoot /\ th'[t].batch = {} /\ th'[t].ret # "abort_walk"
        /\ th'[t].pc = IF chunk_is_last_allocated_child(p, th[t].c) THEN "merge_locked" ELSE "next"
    BY <1>2, <1>3, FreeLockedStep DEF SameLocals, Frees
  <2> QED BY <1>1, <1>2, <1>3, <2>1 DEF Orderly, TidyOf, NeedsLock
<1>4. CASE th[t].op = "alloc"
  <2>1. ~chunk_is_last_allocated_child(p, th[t].c) /\ th[t].ret = "alloc_error"
    BY <1>1, <1>2, <1>4 DEF Frees
  <2>2. /\ Moved(t) /\ th'[t].op = "alloc" /\ th'[t].r = NoRoot /\ th'[t].batch = {} /\ th'[t].ret = "idle"
        /\ th'[t].pc = "alloc_error"
    BY <1>2, <1>4, <2>1, FreeLockedStep DEF Resumed, Kept
  <2> QED BY <1>1, <2>2 DEF Orderly, TidyOf, NeedsLock
<1> QED BY <1>2, <1>3, <1>4 DEF Frees

LEMMA MergeLockedOrderly ==
  ASSUME TypeInv, Discipline, NEW t \in Thread, MergeLocked(t)
  PROVE  Moved(t) /\ Orderly(t)
<1>1. th[t].pc = "merge_locked" /\ UNCHANGED <<lock, readers>>
  BY DEF MergeLocked, at, pma_vars
<1>2. /\ lock = t /\ th[t].r = NoRoot /\ th[t].batch = {} /\ th[t].ret # "abort_walk"
      /\ th[t].op \in {"free", "release"}
  BY <1>1, ThreadOrderly DEF TidyOf, NeedsLock, RootSteps
<1>3. /\ Moved(t) /\ th'[t].op = th[t].op /\ th'[t].r = NoRoot /\ th'[t].batch = {} /\ th'[t].ret # "abort_walk"
      /\ th'[t].pc = "free_locked"
  BY <1>2, MergeLockedStep DEF Kept
<1> QED BY <1>1, <1>2, <1>3 DEF Orderly, TidyOf, Evictors

LEMMA FreeNextOrderly ==
  ASSUME TypeInv, Discipline, NEW t \in Thread, FreeNext(t)
  PROVE  Moved(t) /\ Orderly(t)
<1>1. th[t].pc = "next" /\ UNCHANGED <<lock, readers>>
  BY ThreadOrderly DEF FreeNext, pma_vars, TidyOf
<1>2. /\ th[t].batch = {} /\ th[t].ret \in {"idle", "evict_again"}
      /\ th[t].op \in {"free", "release", "alloc"}
  BY <1>1, ThreadOrderly DEF TidyOf, FlowOf, Course, Frees, AllocSteps, RangeSteps, PageSteps, EvictSteps
<1>3. /\ Moved(t) /\ th'[t].pc = "free_root" /\ th'[t].op = th[t].op /\ th'[t].batch = th[t].batch
      /\ th'[t].ret = th[t].ret
  BY FreeNextStep DEF Kept
<1> QED BY <1>1, <1>2, <1>3 DEF Orderly, TidyOf, NeedsLock, RootSteps

LEMMA FreeNextNoneOrderly ==
  ASSUME TypeInv, Discipline, NEW t \in Thread, FreeNextNone(t)
  PROVE  Moved(t) /\ Orderly(t)
BY ThreadOrderly, FreeNextNoneStep, IdleTyped
   DEF Orderly, TidyOf, NeedsLock, RootSteps, Evictors, FreeNextNone, Resumed, Kept, pma_vars, at, FlowOf, Course, Frees, Locals, AllocSteps, RangeSteps, PageSteps, EvictSteps

LEMMA FreeRootOrderly ==
  ASSUME TypeInv, Discipline, NEW t \in Thread, FreeRoot(t)
  PROVE  Moved(t) /\ Orderly(t)
BY ThreadOrderly, FreeRootStep
   DEF Orderly, TidyOf, NeedsLock, RootSteps, Evictors, FreeRoot, Kept, pma_vars, at, FlowOf, Course, Frees, Locals, AllocSteps, RangeSteps, PageSteps, EvictSteps

LEMMA PmaFreeOrderly ==
  ASSUME TypeInv, Discipline, NEW t \in Thread, PmaFree(t)
  PROVE  Moved(t) /\ Orderly(t)
<1>1. th[t].pc = "pma_free" /\ lock' = lock /\ readers' = readers \ {t}
  BY DEF PmaFree, at, pma_vars, release, evicted
<1> QED BY <1>1, ThreadOrderly, PmaFreeStep, IdleTyped
        DEF Orderly, TidyOf, NeedsLock, RootSteps, Evictors, Resumed, Kept, FlowOf, Course, Frees, Locals,
            AllocSteps, RangeSteps, PageSteps, EvictSteps

LEMMA InPlaceSplitOrderly ==
  ASSUME TypeInv, Discipline, NEW t \in Thread, InPlaceSplit(t)
  PROVE  Moved(t) /\ Orderly(t)
BY ThreadOrderly, InPlaceSplitStep, IdleTyped
   DEF Orderly, TidyOf, NeedsLock, RootSteps, Evictors, InPlaceSplit, pma_vars, at, FlowOf, Course, Frees, Locals, AllocSteps, RangeSteps, PageSteps, EvictSteps

LEMMA LockSplitOrderly ==
  ASSUME TypeInv, Discipline, NEW t \in Thread, LockSplit(t)
  PROVE  Moved(t) /\ Orderly(t)
BY ThreadOrderly, LockSplitStep
   DEF Orderly, TidyOf, NeedsLock, RootSteps, Evictors, LockSplit, SameLocals, acquire, pma_vars, at, FlowOf, Course, Frees, Locals, AllocSteps, RangeSteps, PageSteps, EvictSteps

LEMMA LockEvictOrderly ==
  ASSUME TypeInv, Discipline, NEW t \in Thread, LockEvict(t)
  PROVE  Moved(t) /\ Orderly(t)
BY ThreadOrderly, LockEvictStep
   DEF Orderly, TidyOf, NeedsLock, RootSteps, Evictors, LockEvict, SameLocals, acquire, pma_vars, at, FlowOf, Course, Frees, Locals, AllocSteps, RangeSteps, PageSteps, EvictSteps

LEMMA RelockOrderly ==
  ASSUME TypeInv, Discipline, NEW t \in Thread, Relock(t)
  PROVE  Moved(t) /\ Orderly(t)
BY ThreadOrderly, RelockStep
   DEF Orderly, TidyOf, NeedsLock, RootSteps, Evictors, Relock, SameLocals, acquire, pma_vars, at, FlowOf, Course, Frees, Locals, AllocSteps, RangeSteps, PageSteps, EvictSteps

LEMMA LockFreeOrderly ==
  ASSUME TypeInv, Discipline, NEW t \in Thread, LockFree(t)
  PROVE  Moved(t) /\ Orderly(t)
BY ThreadOrderly, LockFreeStep
   DEF Orderly, TidyOf, NeedsLock, RootSteps, Evictors, LockFree, SameLocals, acquire, pma_vars, at, FlowOf, Course, Frees, Locals, AllocSteps, RangeSteps, PageSteps, EvictSteps

LEMMA FlushOrderly ==
  ASSUME TypeInv, Discipline, Flush
  PROVE  Moved(PThread) /\ Orderly(PThread)
<1>1. PThread \in Thread
  BY Threads
<1>2. th[PThread].pc = "flush" /\ lock' = lock /\ readers' = readers
  BY DEF Flush, at, pma_vars, release, acquire
<1> QED BY <1>1, <1>2, ThreadOrderly, FlushStep
        DEF Orderly, TidyOf, NeedsLock, RootSteps, Evictors, SameLocals, FlowOf, Course, Frees, Locals,
            AllocSteps, RangeSteps, PageSteps, EvictSteps

LEMMA SpinPmaOwnedOrderly ==
  ASSUME TypeInv, Discipline, SpinPmaOwned
  PROVE  Moved(PThread) /\ Orderly(PThread)
<1>1. PThread \in Thread
  BY Threads
<1>2. th[PThread].pc = "spin" /\ lock' = lock /\ readers' = readers
  BY DEF SpinPmaOwned, at, pma_vars, release, acquire
<1> QED BY <1>1, <1>2, ThreadOrderly, SpinPmaOwnedStep
        DEF Orderly, TidyOf, NeedsLock, RootSteps, Evictors, FlowOf, Course, Frees, Locals,
            AllocSteps, RangeSteps, PageSteps, EvictSteps

LEMMA SpinStartOrderly ==
  ASSUME TypeInv, Discipline, SpinStart
  PROVE  Moved(PThread) /\ Orderly(PThread)
<1>1. PThread \in Thread
  BY Threads
<1>2. th[PThread].pc = "spin" /\ lock' = lock /\ readers' = readers
  BY DEF SpinStart, at, pma_vars, release, acquire
<1> QED BY <1>1, <1>2, ThreadOrderly, SpinStartStep
        DEF Orderly, TidyOf, NeedsLock, RootSteps, Evictors, FlowOf, Course, Frees, Locals,
            AllocSteps, RangeSteps, PageSteps, EvictSteps

LEMMA LockRangeOrderly ==
  ASSUME TypeInv, Discipline, LockRange
  PROVE  Moved(PThread) /\ Orderly(PThread)
<1>1. PThread \in Thread
  BY Threads
<1>2. th[PThread].pc = "lock_range" /\ readers' = readers /\ lock = NoThread /\ lock' = PThread
  BY DEF LockRange, at, pma_vars, release, acquire
<1> QED BY <1>1, <1>2, ThreadOrderly, LockRangeStep
        DEF Orderly, TidyOf, NeedsLock, RootSteps, Evictors, SameLocals, FlowOf, Course, Frees, Locals,
            AllocSteps, RangeSteps, PageSteps, EvictSteps

LEMMA RangeErrorOrderly ==
  ASSUME TypeInv, Discipline, RangeError
  PROVE  Moved(PThread) /\ Orderly(PThread)
<1>1. PThread \in Thread
  BY Threads
<1>2. (lock' = lock \/ lock = PThread) /\ readers' = readers
  BY DEF RangeError, at, pma_vars, release, acquire
<1> QED BY <1>1, <1>2, ThreadOrderly, RangeErrorStep, IdleTyped
        DEF Orderly, TidyOf, NeedsLock, RootSteps, Evictors, FlowOf, Course, Frees, Locals,
            AllocSteps, RangeSteps, PageSteps, EvictSteps

LEMMA FlushAgainOrderly ==
  ASSUME TypeInv, Discipline, FlushAgain
  PROVE  Moved(PThread) /\ Orderly(PThread)
<1>1. PThread \in Thread
  BY Threads
<1>2. th[PThread].pc = "spin" /\ lock' = lock /\ readers' = readers
  BY DEF FlushAgain, at, pma_vars, release, acquire
<1> QED BY <1>1, <1>2, ThreadOrderly, FlushAgainStep
        DEF Orderly, TidyOf, NeedsLock, RootSteps, Evictors, SameLocals, FlowOf, Course, Frees, Locals,
            AllocSteps, RangeSteps, PageSteps, EvictSteps

LEMMA RangeOkOrderly ==
  ASSUME TypeInv, Discipline, RangeOk
  PROVE  Moved(PThread) /\ Orderly(PThread)
<1>1. PThread \in Thread
  BY Threads
<1>2. lock' = lock /\ readers' = readers
  BY DEF RangeOk, at, pma_vars, release, acquire
<1> QED BY <1>1, <1>2, ThreadOrderly, RangeOkStep, IdleTyped
        DEF Orderly, TidyOf, NeedsLock, RootSteps, Evictors, FlowOf, Course, Frees, Locals,
            AllocSteps, RangeSteps, PageSteps, EvictSteps

LEMMA PagesCheckOrderly ==
  ASSUME TypeInv, Discipline, PagesCheck
  PROVE  Moved(PThread) /\ Orderly(PThread)
<1>1. PThread \in Thread
  BY Threads
<1>2. th[PThread].pc = "pages_check" /\ lock' = lock /\ readers' = readers
  BY DEF PagesCheck, at, pma_vars, release, acquire
<1> QED BY <1>1, <1>2, ThreadOrderly, PagesCheckStep
        DEF Orderly, TidyOf, NeedsLock, RootSteps, Evictors, Kept, FlowOf, Course, Frees, Locals,
            AllocSteps, RangeSteps, PageSteps, EvictSteps

LEMMA PagesNextOrderly ==
  ASSUME TypeInv, Discipline, PagesNext
  PROVE  Moved(PThread) /\ Orderly(PThread)
<1>1. PThread \in Thread
  BY Threads
<1>2. th[PThread].pc = "pages_next" /\ lock' = lock /\ readers' = readers
  BY DEF PagesNext, at, pma_vars, release, acquire
<1> QED BY <1>1, <1>2, ThreadOrderly, PagesNextStep, IdleTyped
        DEF Orderly, TidyOf, NeedsLock, RootSteps, Evictors, FlowOf, Course, Frees, Locals,
            AllocSteps, RangeSteps, PageSteps, EvictSteps

LEMMA PagesErrorOrderly ==
  ASSUME TypeInv, Discipline, PagesError
  PROVE  Moved(PThread) /\ Orderly(PThread)
<1>1. PThread \in Thread
  BY Threads
<1>2. (lock' = lock \/ lock = PThread) /\ readers' = readers
  BY DEF PagesError, at, pma_vars, release, acquire
<1> QED BY <1>1, <1>2, ThreadOrderly, PagesErrorStep, IdleTyped
        DEF Orderly, TidyOf, NeedsLock, RootSteps, Evictors, FlowOf, Course, Frees, Locals,
            AllocSteps, RangeSteps, PageSteps, EvictSteps

LEMMA StartRangeOrderly ==
  ASSUME TypeInv, Discipline, StartRange
  PROVE  Moved(PThread) /\ Orderly(PThread)
<1>1. PThread \in Thread
  BY Threads
<1>2. lock' = lock /\ readers' = readers
  BY DEF StartRange, at, pma_vars, release, acquire
<1> QED BY <1>1, <1>2, ThreadOrderly, StartRangeStep
        DEF Orderly, TidyOf, NeedsLock, RootSteps, Evictors, Started, FlowOf, Course, Frees, Locals,
            AllocSteps, RangeSteps, PageSteps, EvictSteps

LEMMA StartPagesOrderly ==
  ASSUME TypeInv, Discipline, StartPages
  PROVE  Moved(PThread) /\ Orderly(PThread)
<1>1. PThread \in Thread
  BY Threads
<1>2. lock' = lock /\ readers' = readers
  BY DEF StartPages, at, pma_vars, release, acquire
<1> QED BY <1>1, <1>2, ThreadOrderly, StartPagesStep
        DEF Orderly, TidyOf, NeedsLock, RootSteps, Evictors, Started, FlowOf, Course, Frees, Locals,
            AllocSteps, RangeSteps, PageSteps, EvictSteps

LEMMA StartAllocOrderly ==
  ASSUME TypeInv, Discipline, NEW b \in Block, StartAlloc(b)
  PROVE  Moved(b) /\ Orderly(b)
<1>1. b \in Thread
  BY Threads
<1>2. lock' = lock /\ readers' = readers
  BY DEF StartAlloc, at, pma_vars, release, acquire
<1> QED BY <1>1, <1>2, ThreadOrderly, StartAllocStep
        DEF Orderly, TidyOf, NeedsLock, RootSteps, Evictors, Started, FlowOf, Course, Frees, Locals,
            AllocSteps, RangeSteps, PageSteps, EvictSteps

LEMMA StartFreeOrderly ==
  ASSUME TypeInv, Discipline, NEW b \in Block, StartFree(b)
  PROVE  Moved(b) /\ Orderly(b)
<1>1. b \in Thread
  BY Threads
<1>2. lock' = lock /\ readers' = readers
  BY DEF StartFree, at, pma_vars, release, acquire
<1> QED BY <1>1, <1>2, ThreadOrderly, StartFreeStep
        DEF Orderly, TidyOf, NeedsLock, RootSteps, Evictors, Started, FlowOf, Course, Frees, Locals,
            AllocSteps, RangeSteps, PageSteps, EvictSteps

LEMMA StartReleaseOrderly ==
  ASSUME TypeInv, Discipline, NEW b \in Block, StartRelease(b)
  PROVE  Moved(b) /\ Orderly(b)
<1>1. b \in Thread
  BY Threads
<1>2. lock' = lock /\ readers' = readers
  BY DEF StartRelease, at, pma_vars, release, acquire
<1> QED BY <1>1, <1>2, ThreadOrderly, StartReleaseStep
        DEF Orderly, TidyOf, NeedsLock, RootSteps, Evictors, Started, FlowOf, Course, Frees, Locals,
            AllocSteps, RangeSteps, PageSteps, EvictSteps

LEMMA StartSplitOrderly ==
  ASSUME TypeInv, Discipline, NEW b \in Block, StartSplit(b)
  PROVE  Moved(b) /\ Orderly(b)
<1>1. b \in Thread
  BY Threads
<1>2. lock' = lock /\ readers' = readers
  BY DEF StartSplit, at, pma_vars, release, acquire
<1> QED BY <1>1, <1>2, ThreadOrderly, StartSplitStep
        DEF Orderly, TidyOf, NeedsLock, RootSteps, Evictors, Started, FlowOf, Course, Frees, Locals,
            AllocSteps, RangeSteps, PageSteps, EvictSteps

LEMMA StartKernelAllocOrderly ==
  ASSUME TypeInv, Discipline, StartKernelAlloc
  PROVE  Moved(KThread) /\ Orderly(KThread)
<1>1. KThread \in Thread
  BY Threads
<1>2. lock' = lock /\ readers' = readers
  BY DEF StartKernelAlloc, at, pma_vars, release, acquire
<1> QED BY <1>1, <1>2, ThreadOrderly, StartKernelAllocStep
        DEF Orderly, TidyOf, NeedsLock, RootSteps, Evictors, Started, FlowOf, Course, Frees, Locals,
            AllocSteps, RangeSteps, PageSteps, EvictSteps

LEMMA StartKernelFreeOrderly ==
  ASSUME TypeInv, Discipline, StartKernelFree
  PROVE  Moved(KThread) /\ Orderly(KThread)
<1>1. KThread \in Thread
  BY Threads
<1>2. lock' = lock /\ readers' = readers
  BY DEF StartKernelFree, at, pma_vars, release, acquire
<1> QED BY <1>1, <1>2, ThreadOrderly, StartKernelFreeStep
        DEF Orderly, TidyOf, NeedsLock, RootSteps, Evictors, Started, FlowOf, Course, Frees, Locals,
            AllocSteps, RangeSteps, PageSteps, EvictSteps

-----------------------------------------------------------------------------
(* Steps that leave a chunk or a root chunk as it is.                      *)

SameChunk(c) ==
  /\ p'.state[c] = p.state[c] /\ p'.va_block[c] = p.va_block[c]
  /\ p'.type[c[1]] = p.type[c[1]] /\ p'.in_eviction[c[1]] = p.in_eviction[c[1]]
  /\ p'.state[root_chunk(c[1])] = p.state[root_chunk(c[1])]

SameClients(c) ==
  /\ \A b \in Block : /\ c \in chunks'[b] <=> c \in chunks[b]
                      /\ c \in used_chunks'[b] <=> c \in used_chunks[b]
                      /\ c \in free_chunks'[b] <=> c \in free_chunks[b]
  /\ c \in kchunks' <=> c \in kchunks

(* From locals y to locals x the thread keeps the chunk it works on.       *)
Onward(x, y, c) ==
  /\ Works(x, c) <=> Works(y, c)
  /\ Works(x, c) => \/ x.pc = y.pc
                    \/ y.pc \in RootWork /\ x.pc \in RootWork
                    \/ y.pc \in HoldWork /\ x.pc \in HoldWork \cup FreeWork
                    \/ y.pc \in {"free", "lock_free"} /\ x.pc \in FreeWork

LEMMA ChunkKept ==
  ASSUME NEW t \in Thread, Moved(t), NEW c \in Chunk, ChunkInv(c), SameChunk(c), SameClients(c),
         Onward(th'[t], th[t], c)
  PROVE  ChunkInv(c)'
<1>1. \A u \in Thread : Works(th'[u], c) <=> Works(th[u], c)
  BY DEF Moved, Onward
<1>2. \A u \in Thread : Owns(u, c)' <=> Owns(u, c)
  BY DEF Owns, SameClients
<1>3. \A u \in Thread : Has(u, c)' <=> Has(u, c)
  BY <1>1, <1>2 DEF Has
<1>4. ASSUME NEW u \in Thread PROVE OwnedBy(u, c)'
  <2>1. OwnedBy(u, c)
    BY DEF ChunkInv
  <2> QED BY <1>1, <1>2, <2>1 DEF OwnedBy, SameChunk, SameClients, mem_type
<1>5. ASSUME NEW u \in Thread PROVE WorkedBy(u, c)'
  <2>1. WorkedBy(u, c)
    BY DEF ChunkInv
  <2>2. CASE u # t
    <3>1. th'[u] = th[u]
      BY <2>2 DEF Moved
    <3> QED BY <2>1, <3>1 DEF WorkedBy, SameChunk, mem_type
  <2>3. CASE u = t
    BY <2>1, <2>3 DEF WorkedBy, SameChunk, mem_type, Onward, RootWork, HoldWork, FreeWork
  <2> QED BY <2>2, <2>3
<1>6. /\ \A v, u \in Thread : Has(v, c)' /\ Has(u, c)' => v = u
      /\ p'.state[c] = "ALLOCATED" => \E u \in Thread : Has(u, c)'
      /\ p'.state[c] = "TEMP_PINNED" => p'.in_eviction[c[1]] \/ \E u \in Thread : Has(u, c)'
  BY <1>3 DEF ChunkInv, SameChunk
<1> QED BY <1>4, <1>5, <1>6 DEF ChunkInv

SameRoot(r) ==
  /\ p'.type[r] = p.type[r] /\ p'.in_eviction[r] = p.in_eviction[r]
  /\ p'.allocated[r] = p.allocated[r] /\ p'.pinned_leaf_chunks[r] = p.pinned_leaf_chunks[r]
  /\ p'.list_state[r] = p.list_state[r]
  /\ r \in ToSet(p'.used) <=> r \in ToSet(p.used)
  /\ r \in ToSet(p'.unused) <=> r \in ToSet(p.unused)
  /\ root_chunk(r) \in p'.free <=> root_chunk(r) \in p.free
  /\ \A c \in family(r) : p'.state[c] = p.state[c] /\ (c \in p'.free => c \in p.free)

(* Thread t gives up no work on root chunk r.                              *)
StillWorks(t, r) ==
  /\ th[t].r = r /\ th[t].pc \in Evictors => th'[t].r = r /\ th'[t].pc \in Evictors
  /\ Merging(th[t], r) => Merging(th'[t], r)
  /\ th[t].pc = "merge_locked" /\ th[t].c[1] = r => th'[t].pc = "merge_locked" /\ th'[t].c[1] = r

RootShape(r) == Tree(r) /\ Listing(r) /\ Counted(r) /\ Evicting(r)

LEMMA RootShapeKept ==
  ASSUME NEW t \in Thread, Moved(t), NEW r \in Root, RootShape(r), SameRoot(r), StillWorks(t, r)
  PROVE  RootShape(r)'
<1>1. root_chunk(r) \in family(r) /\ subchunks(r) \subseteq family(r)
  BY DEF family
<1>2. Tree(r)'
  BY <1>1 DEF RootShape, Tree, SameRoot
<1>3. Listing(r)'
  <2>1. Listing(r)
    BY DEF RootShape
  <2>2. linked(p', r)
    BY <1>1, <2>1 DEF Listing, linked, SameRoot
  <2>3. InUse(r)' <=> InUse(r)
    BY <1>1 DEF InUse, SameRoot
  <2>4. Listed(p', r) <=> Listed(p, r)
    BY DEF Listed, SameRoot
  <2>5. \A u \in Thread : Merging(th[u], r) => Merging(th'[u], r)
    BY DEF Moved, StillWorks
  <2> QED BY <1>1, <2>1, <2>2, <2>3, <2>4, <2>5 DEF Listing, SameRoot
<1>4. Counted(r)'
  <2>1. AllocatedIn(p', r) = AllocatedIn(p, r) /\ PinnedIn(p', r) = PinnedIn(p, r)
    BY <1>1 DEF AllocatedIn, PinnedIn, SameRoot
  <2>2. \A u \in Thread : th[u].pc = "merge_locked" /\ th[u].c[1] = r
                            => th'[u].pc = "merge_locked" /\ th'[u].c[1] = r
    BY DEF Moved, StillWorks
  <2>3. p'.state[root_chunk(r)] = p.state[root_chunk(r)]
    BY <1>1 DEF SameRoot
  <2>4. Counted(r)
    BY DEF RootShape
  <2> QED BY <2>1, <2>2, <2>3, <2>4 DEF Counted, SameRoot
<1>5. Evicting(r)'
  <2>1. Evicting(r)
    BY DEF RootShape
  <2>2. \A u \in Thread : th[u].r = r /\ th[u].pc \in Evictors => th'[u].r = r /\ th'[u].pc \in Evictors
    BY DEF Moved, StillWorks
  <2> QED BY <2>1, <2>2 DEF Evicting, SameRoot
<1> QED BY <1>2, <1>3, <1>4, <1>5 DEF RootShape

LEMMA PinsStill ==
  ASSUME NEW t \in Thread, Moved(t), th[t].pc # "set_type", th'[t].pc # "set_type"
  PROVE  \A r : Pinned(r)' <=> Pinned(r)
BY DEF Moved, Pinned, Pinning

(* What thread t does about root chunk r: it takes up no other work on it. *)
Steady(t, r) ==
  /\ StillWorks(t, r)
  /\ r \in th'[t].batch => r \in th[t].batch
  /\ th'[t].r = r => th[t].r = r
  /\ \A c \in family(r) : Works(th'[t], c) => Works(th[t], c) \/ p.state[c] = "ALLOCATED" \/ ~p.in_eviction[r]
  /\ t \in readers /\ Returning(th[t], r) /\ pma[r] \in {"unpinned", "pinned"} =>
       t \in readers' /\ Returning(th'[t], r)
  /\ Pinning(th'[t], r) <=> Pinning(th[t], r)

LEMMA RootKept ==
  ASSUME NEW t \in Thread, Moved(t), NEW r \in Root, RootInv(r), SameRoot(r), pma'[r] = pma[r],
         \A u \in Thread \ {t} : u \in readers => u \in readers',
         readers \subseteq Thread, Steady(t, r), th'[t].r = r => Progress(th[t], r)'
  PROVE  RootInv(r)'
<1>1. root_chunk(r) \in family(r) /\ subchunks(r) \subseteq family(r)
  BY DEF family
<1>2. RootShape(r)'
  BY RootShapeKept DEF RootInv, RootShape, Steady
<1>6. PmaOf(r)'
  <2>1. PmaOf(r)
    BY DEF RootInv
  <2>2. \A u \in readers : Returning(th[u], r) /\ pma[r] \in {"unpinned", "pinned"} =>
          u \in readers' /\ Returning(th'[u], r)
    BY DEF Moved, Steady
  <2>3. p'.state[root_chunk(r)] = p.state[root_chunk(r)]
    BY <1>1 DEF SameRoot
  <2>4. Pinned(r)' <=> Pinned(r)
    BY DEF Moved, Steady, Pinned
  <2> QED BY <2>1, <2>2, <2>3, <2>4 DEF PmaOf, SameRoot, pma_state
<1>7. ASSUME NEW u \in Thread PROVE Uses(u, r)' /\ Batched(u, r)'
  <2>1. \A v \in Thread : Uses(v, r) /\ Batched(v, r)
    BY DEF RootInv
  <2>2. \A v \in Thread : /\ th'[v].r = r => th[v].r = r
                          /\ r \in th'[v].batch => r \in th[v].batch
    BY DEF Moved, Steady
  <2>3. \A c \in family(r) : \A v \in Thread :
          Works(th'[v], c) => Works(th[v], c) \/ p.state[c] = "ALLOCATED" \/ ~p.in_eviction[r]
    BY DEF Moved, Steady
  <2>4. Batched(u, r)'
    <3>1. p'.state[root_chunk(r)] = p.state[root_chunk(r)]
      BY <1>1 DEF SameRoot
    <3> QED BY <2>1, <2>2, <3>1 DEF Batched, pma_state, mem_type
  <2>5. ASSUME th'[u].r = r PROVE Progress(th[u], r)'
    <3>1. CASE u = t
      BY <2>5, <3>1
    <3>2. CASE u # t
      <4>1. th'[u] = th[u] /\ Progress(th[u], r)
        BY <2>1, <2>5, <3>2 DEF Moved, Uses
      <4> QED BY <1>1, <2>3, <4>1 DEF Progress, SameRoot, Evictors
    <3> QED BY <3>1, <3>2
  <2> QED BY <2>1, <2>2, <2>4, <2>5 DEF Uses
<1> QED BY <1>2, <1>6, <1>7 DEF RootInv, RootShape

(* A chunk in the hands of at most one thread.                             *)
SameOwner(u, c) ==
  /\ u \in Block => /\ c \in chunks'[u] <=> c \in chunks[u]
                    /\ c \in used_chunks'[u] <=> c \in used_chunks[u]
                    /\ c \in free_chunks'[u] <=> c \in free_chunks[u]
  /\ u = KThread => (c \in kchunks' <=> c \in kchunks)

LEMMA OneHolder ==
  ASSUME NEW t \in Thread, Moved(t), NEW c \in Chunk, ChunkInv(c),
         \A u \in Thread : u # t => ~Has(u, c) /\ SameOwner(u, c),
         OwnedBy(t, c)', WorkedBy(t, c)',
         p'.state[c] = "ALLOCATED" => Has(t, c)',
         p'.state[c] = "TEMP_PINNED" => p'.in_eviction[c[1]] \/ Has(t, c)'
  PROVE  ChunkInv(c)'
<1>1. ASSUME NEW u \in Thread, u # t PROVE ~Has(u, c)' /\ OwnedBy(u, c)' /\ WorkedBy(u, c)'
  <2>1. th'[u] = th[u] /\ ~Has(u, c) /\ SameOwner(u, c) /\ OwnedBy(u, c)
    BY <1>1 DEF Moved, ChunkInv
  <2>2. ~Owns(u, c)' /\ ~Works(th'[u], c)
    BY <2>1 DEF SameOwner, Has, Owns
  <2>3. u \in Block => c \notin used_chunks'[u]
    BY <2>1 DEF SameOwner, OwnedBy, Has, Owns
  <2>4. OwnedBy(u, c)'
    BY <2>2, <2>3 DEF OwnedBy, Owns
  <2> QED BY <2>2, <2>4 DEF WorkedBy, Has
<1> QED BY <1>1 DEF ChunkInv

LEMMA Holders ==
  ASSUME NEW c \in Chunk, ChunkInv(c)
  PROVE  /\ p.state[c] \notin {"TEMP_PINNED", "ALLOCATED"} => \A u \in Thread : ~Has(u, c)
         /\ \A t \in Thread : Has(t, c) => \A u \in Thread : u # t => ~Has(u, c)
<1>1. ASSUME NEW u \in Thread, Has(u, c) PROVE p.state[c] \in {"TEMP_PINNED", "ALLOCATED"}
  <2>1. OwnedBy(u, c) /\ WorkedBy(u, c)
    BY DEF ChunkInv
  <2>2. CASE Owns(u, c)
    BY <2>1, <2>2 DEF OwnedBy, Owns
  <2>3. CASE Works(th[u], c)
    BY <2>1, <2>3 DEF WorkedBy, Works
  <2> QED BY <1>1, <2>2, <2>3 DEF Has
<1> QED BY <1>1 DEF ChunkInv

Whole == (\A c \in Chunk : ChunkInv(c)) /\ (\A r \in Root : RootInv(r))

LEMMA OtherRoots ==
  ASSUME NEW r, Frame(p, p', r), NEW s \in Root, s # r
  PROVE  SameRoot(s) /\ \A c \in family(s) : c[1] # r
<1>1. family(s) \subseteq Chunk /\ \A c \in family(s) : c[1] = s
  BY FamilyFacts
<1>2. root_chunk(s) \in family(s)
  BY DEF family
<1> QED BY <1>1, <1>2 DEF Frame, SameRoot

LEMMA OtherChunks ==
  ASSUME NEW r, Frame(p, p', r), NEW c \in Chunk, c[1] # r
  PROVE  SameChunk(c)
<1>1. c[1] \in Root /\ root_chunk(c[1]) \in Chunk /\ root_chunk(c[1])[1] = c[1]
  BY ChunkFacts
<1> QED BY <1>1 DEF Frame, SameChunk

LEMMA ClientsStill ==
  ASSUME UNCHANGED clients
  PROVE  \A c \in Chunk : SameClients(c)
BY DEF clients, SameClients

Working == HoldWork \cup FreeWork \cup RootWork \cup {"merge_locked"}

Carry(x, y) ==
  \/ x.pc \notin Working /\ y.pc \notin Working
  \/ /\ x.c = y.c
     /\ \/ y.pc \in HoldWork /\ x.pc \in HoldWork \cup FreeWork
        \/ y.pc \in {"free", "lock_free"} /\ x.pc \in FreeWork
  \/ x.r = y.r /\ y.pc \in RootWork /\ x.pc \in RootWork

LEMMA Carried ==
  ASSUME NEW x, NEW y, Carry(x, y), NEW c \in Chunk
  PROVE  Onward(x, y, c)
BY DEF Carry, Onward, Works, Working, HoldWork, FreeWork, RootWork

(* A thread that works on no chunk.                                        *)
LEMMA Workless ==
  ASSUME NEW x, x.pc \notin Working
  PROVE  /\ \A c \in Chunk : ~Works(x, c)
         /\ \A r : ~Merging(x, r)
BY DEF Works, Working, HoldWork, FreeWork, RootWork, Merging

(* The chunks are where they were; a walk of a free list may have unlinked *)
(* subchunks.                                                              *)
Unmoved == (\A c \in Chunk : SameChunk(c)) /\ (\A r \in Root : SameRoot(r))

LEMMA UnmovedStill ==
  ASSUME p' = p
  PROVE  Unmoved
BY DEF Unmoved, SameChunk, SameRoot

LEMMA QuietChunks ==
  ASSUME Whole, NEW t \in Thread, Moved(t), Unmoved, UNCHANGED clients,
         \A c \in Chunk : Onward(th'[t], th[t], c)
  PROVE  \A c \in Chunk : ChunkInv(c)'
<1> TAKE c \in Chunk
<1>1. SameChunk(c) /\ SameClients(c)
  BY ClientsStill DEF Unmoved
<1> QED BY <1>1, ChunkKept DEF Whole

(* A step of thread t alone.                                               *)
LEMMA QuietStep ==
  ASSUME TypeInv, Whole, NEW t \in Thread, Moved(t), Unmoved, UNCHANGED <<pma, readers, clients>>,
         th[t].pc \notin {"free_locked", "merge_locked", "pma_free"}, Carry(th'[t], th[t]),
         th'[t].batch = th[t].batch, th'[t].r = th[t].r,
         th[t].r \in Root => /\ th[t].pc \in Evictors => th'[t].pc \in Evictors
                             /\ Progress(th[t], th[t].r)'
                             /\ th[t].pc # "set_type" /\ th'[t].pc # "set_type"
  PROVE  Whole'
<1>1. \A c \in Chunk : Onward(th'[t], th[t], c)
  BY Carried
<1>2. \A c \in Chunk : ChunkInv(c)'
  BY <1>1, QuietChunks
<1>3. ASSUME NEW r \in Root PROVE RootInv(r)'
  <2>1. SameRoot(r) /\ pma'[r] = pma[r] /\ readers' = readers /\ readers \subseteq Thread
    BY DEF Unmoved, TypeInv, TypeOK
  <2>2. \A c \in family(r) : Works(th'[t], c) => Works(th[t], c)
    BY <1>1, FamilyFacts DEF Onward
  <2>3. Steady(t, r)
    BY <2>1, <2>2 DEF Steady, StillWorks, Merging, Returning, Pinning
  <2>4. th'[t].r = r => Progress(th[t], r)'
    OBVIOUS
  <2>5. RootInv(r)
    BY DEF Whole
  <2> QED BY <2>1, <2>3, <2>4, <2>5, RootKept
<1> QED BY <1>2, <1>3 DEF Whole

-----------------------------------------------------------------------------
(* The steps that change nothing but the thread.                           *)

LEMMA LockSplitWhole ==
  ASSUME TypeInv, Discipline, Whole, NEW t \in Thread, LockSplit(t)
  PROVE  Whole'
<1>1. t \in Thread /\ TidyOf(th[t]) /\ FlowOf(t, th[t]) /\ NoRoot \notin Root
  BY Threads, ThreadOrderly
<1>2. th[t].pc \in {"lock_split"} /\ p' = p /\ UNCHANGED <<pma, readers, clients>>
  BY <1>1 DEF LockSplit, at, pma_vars, TidyOf
<1>3. Moved(t) /\ Carry(th'[t], th[t]) /\ th'[t].r = th[t].r /\ th'[t].batch = th[t].batch
      /\ th[t].r = NoRoot
  BY <1>1, <1>2, LockSplitStep DEF Carry, Working, HoldWork, FreeWork, RootWork, TidyOf, RootSteps,
     SameLocals, FlowOf, Course, Frees, AllocSteps, RangeSteps, PageSteps, EvictSteps
<1> QED BY <1>1, <1>2, <1>3, UnmovedStill, QuietStep

LEMMA PmaAllocFailsWhole ==
  ASSUME TypeInv, Discipline, Whole, NEW t \in Thread, PmaAllocFails(t)
  PROVE  Whole'
<1>1. t \in Thread /\ TidyOf(th[t]) /\ FlowOf(t, th[t]) /\ NoRoot \notin Root
  BY Threads, ThreadOrderly
<1>2. th[t].pc \in {"pma_alloc"} /\ p' = p /\ UNCHANGED <<pma, readers, clients>>
  BY <1>1 DEF PmaAllocFails, at, pma_vars, TidyOf
<1>3. Moved(t) /\ Carry(th'[t], th[t]) /\ th'[t].r = th[t].r /\ th'[t].batch = th[t].batch
      /\ th[t].r = NoRoot
  BY <1>1, <1>2, PmaAllocFailsStep DEF Carry, Working, HoldWork, FreeWork, RootWork, TidyOf, RootSteps,
     SameLocals, FlowOf, Course, Frees, AllocSteps, RangeSteps, PageSteps, EvictSteps
<1> QED BY <1>1, <1>2, <1>3, UnmovedStill, QuietStep

LEMMA LockEvictWhole ==
  ASSUME TypeInv, Discipline, Whole, NEW t \in Thread, LockEvict(t)
  PROVE  Whole'
<1>1. t \in Thread /\ TidyOf(th[t]) /\ FlowOf(t, th[t]) /\ NoRoot \notin Root
  BY Threads, ThreadOrderly
<1>2. th[t].pc \in {"lock_evict", "lock_pages"} /\ p' = p /\ UNCHANGED <<pma, readers, clients>>
  BY <1>1 DEF LockEvict, at, pma_vars, TidyOf
<1>3. Moved(t) /\ Carry(th'[t], th[t]) /\ th'[t].r = th[t].r /\ th'[t].batch = th[t].batch
      /\ th[t].r = NoRoot
  BY <1>1, <1>2, LockEvictStep DEF Carry, Working, HoldWork, FreeWork, RootWork, TidyOf, RootSteps,
     SameLocals, FlowOf, Course, Frees, AllocSteps, RangeSteps, PageSteps, EvictSteps
<1> QED BY <1>1, <1>2, <1>3, UnmovedStill, QuietStep

LEMMA PickNoneWhole ==
  ASSUME TypeInv, Discipline, Whole, NEW t \in Thread, PickNone(t)
  PROVE  Whole'
<1>1. t \in Thread /\ TidyOf(th[t]) /\ FlowOf(t, th[t]) /\ NoRoot \notin Root
  BY Threads, ThreadOrderly
<1>2. th[t].pc \in {"pick"} /\ p' = p /\ UNCHANGED <<pma, readers, clients>>
  BY <1>1 DEF PickNone, at, pma_vars, TidyOf
<1>3. Moved(t) /\ Carry(th'[t], th[t]) /\ th'[t].r = th[t].r /\ th'[t].batch = th[t].batch
      /\ th[t].r = NoRoot
  BY <1>1, <1>2, PickNoneStep DEF Carry, Working, HoldWork, FreeWork, RootWork, TidyOf, RootSteps,
     SameLocals, FlowOf, Course, Frees, AllocSteps, RangeSteps, PageSteps, EvictSteps
<1> QED BY <1>1, <1>2, <1>3, UnmovedStill, QuietStep

LEMMA AllocErrorWhole ==
  ASSUME TypeInv, Discipline, Whole, NEW t \in Thread, AllocError(t)
  PROVE  Whole'
<1>1. t \in Thread /\ TidyOf(th[t]) /\ FlowOf(t, th[t]) /\ NoRoot \notin Root
  BY Threads, ThreadOrderly
<1>2. th[t].pc \in {"alloc_error"} /\ p' = p /\ UNCHANGED <<pma, readers, clients>>
  BY <1>1 DEF AllocError, at, pma_vars, TidyOf
<1>3. Moved(t) /\ Carry(th'[t], th[t]) /\ th'[t].r = th[t].r /\ th'[t].batch = th[t].batch
      /\ th[t].r = NoRoot
  BY <1>1, <1>2, AllocErrorStep DEF Carry, Working, HoldWork, FreeWork, RootWork, TidyOf, RootSteps,
     FlowOf, Course, Frees, AllocSteps, RangeSteps, PageSteps, EvictSteps
<1> QED BY <1>1, <1>2, <1>3, UnmovedStill, QuietStep

LEMMA EvictAgainWhole ==
  ASSUME TypeInv, Discipline, Whole, NEW t \in Thread, EvictAgain(t)
  PROVE  Whole'
<1>1. t \in Thread /\ TidyOf(th[t]) /\ FlowOf(t, th[t]) /\ NoRoot \notin Root
  BY Threads, ThreadOrderly
<1>2. th[t].pc \in {"evict_again"} /\ p' = p /\ UNCHANGED <<pma, readers, clients>>
  BY <1>1 DEF EvictAgain, at, pma_vars, TidyOf
<1>3. Moved(t) /\ Carry(th'[t], th[t]) /\ th'[t].r = th[t].r /\ th'[t].batch = th[t].batch
      /\ th[t].r = NoRoot
  BY <1>1, <1>2, EvictAgainStep, IdleTyped DEF Carry, Working, HoldWork, FreeWork, RootWork, TidyOf, RootSteps,
     FlowOf, Course, Frees, AllocSteps, RangeSteps, PageSteps, EvictSteps
<1> QED BY <1>1, <1>2, <1>3, UnmovedStill, QuietStep

LEMMA FreeNextNoneWhole ==
  ASSUME TypeInv, Discipline, Whole, NEW t \in Thread, FreeNextNone(t)
  PROVE  Whole'
<1>1. t \in Thread /\ TidyOf(th[t]) /\ FlowOf(t, th[t]) /\ NoRoot \notin Root
  BY Threads, ThreadOrderly
<1>2. th[t].pc \in {"next"} /\ p' = p /\ UNCHANGED <<pma, readers, clients>>
  BY <1>1 DEF FreeNextNone, at, pma_vars, TidyOf
<1>3. Moved(t) /\ Carry(th'[t], th[t]) /\ th'[t].r = th[t].r /\ th'[t].batch = th[t].batch
      /\ th[t].r = NoRoot
  BY <1>1, <1>2, FreeNextNoneStep, IdleTyped DEF Carry, Working, HoldWork, FreeWork, RootWork, TidyOf, RootSteps,
     Resumed, FlowOf, Course, Frees, AllocSteps, RangeSteps, PageSteps, EvictSteps
<1> QED BY <1>1, <1>2, <1>3, UnmovedStill, QuietStep

LEMMA TryFreeFailsWhole ==
  ASSUME TypeInv, Discipline, Whole, NEW t \in Thread, TryFreeFails(t)
  PROVE  Whole'
<1>1. t \in Thread /\ TidyOf(th[t]) /\ FlowOf(t, th[t]) /\ NoRoot \notin Root
  BY Threads, ThreadOrderly
<1>2. th[t].pc \in {"free"} /\ p' = p /\ UNCHANGED <<pma, readers, clients>>
  BY <1>1 DEF TryFreeFails, at, pma_vars, TidyOf
<1>3. Moved(t) /\ Carry(th'[t], th[t]) /\ th'[t].r = th[t].r /\ th'[t].batch = th[t].batch
      /\ th[t].r = NoRoot
  BY <1>1, <1>2, TryFreeFailsStep DEF Carry, Working, HoldWork, FreeWork, RootWork, TidyOf, RootSteps,
     SameLocals, FlowOf, Course, Frees, AllocSteps, RangeSteps, PageSteps, EvictSteps
<1> QED BY <1>1, <1>2, <1>3, UnmovedStill, QuietStep

LEMMA LockFreeWhole ==
  ASSUME TypeInv, Discipline, Whole, NEW t \in Thread, LockFree(t)
  PROVE  Whole'
<1>1. t \in Thread /\ TidyOf(th[t]) /\ FlowOf(t, th[t]) /\ NoRoot \notin Root
  BY Threads, ThreadOrderly
<1>2. th[t].pc \in {"lock_free"} /\ p' = p /\ UNCHANGED <<pma, readers, clients>>
  BY <1>1 DEF LockFree, at, pma_vars, TidyOf
<1>3. Moved(t) /\ Carry(th'[t], th[t]) /\ th'[t].r = th[t].r /\ th'[t].batch = th[t].batch
      /\ th[t].r = NoRoot
  BY <1>1, <1>2, LockFreeStep DEF Carry, Working, HoldWork, FreeWork, RootWork, TidyOf, RootSteps,
     SameLocals, FlowOf, Course, Frees, AllocSteps, RangeSteps, PageSteps, EvictSteps
<1> QED BY <1>1, <1>2, <1>3, UnmovedStill, QuietStep

LEMMA SplitFailsWhole ==
  ASSUME TypeInv, Discipline, Whole, NEW t \in Thread, SplitFails(t)
  PROVE  Whole'
<1>1. t \in Thread /\ TidyOf(th[t]) /\ FlowOf(t, th[t]) /\ NoRoot \notin Root
  BY Threads, ThreadOrderly
<1>2. th[t].pc \in {"split"} /\ p' = p /\ UNCHANGED <<pma, readers, clients>>
  BY <1>1 DEF SplitFails, at, pma_vars, TidyOf
<1>3. Moved(t) /\ Carry(th'[t], th[t]) /\ th'[t].r = th[t].r /\ th'[t].batch = th[t].batch
      /\ th[t].r = NoRoot
  BY <1>1, <1>2, SplitFailsStep DEF Carry, Working, HoldWork, FreeWork, RootWork, TidyOf, RootSteps,
     FlowOf, Course, Frees, AllocSteps, RangeSteps, PageSteps, EvictSteps
<1> QED BY <1>1, <1>2, <1>3, UnmovedStill, QuietStep

LEMMA TrackerErrorWhole ==
  ASSUME TypeInv, Discipline, Whole, NEW t \in Thread, TrackerError(t)
  PROVE  Whole'
<1>1. t \in Thread /\ TidyOf(th[t]) /\ FlowOf(t, th[t]) /\ NoRoot \notin Root
  BY Threads, ThreadOrderly
<1>2. th[t].pc \in {"done"} /\ p' = p /\ UNCHANGED <<pma, readers, clients>>
  BY <1>1 DEF TrackerError, at, pma_vars, TidyOf
<1>3. Moved(t) /\ Carry(th'[t], th[t]) /\ th'[t].r = th[t].r /\ th'[t].batch = th[t].batch
      /\ th[t].r = NoRoot
  BY <1>1, <1>2, TrackerErrorStep DEF Carry, Working, HoldWork, FreeWork, RootWork, TidyOf, RootSteps,
     FlowOf, Course, Frees, AllocSteps, RangeSteps, PageSteps, EvictSteps
<1> QED BY <1>1, <1>2, <1>3, UnmovedStill, QuietStep

LEMMA FlushWhole ==
  ASSUME TypeInv, Discipline, Whole, Flush
  PROVE  Whole'
<1>1. PThread \in Thread /\ TidyOf(th[PThread]) /\ FlowOf(PThread, th[PThread]) /\ NoRoot \notin Root
  BY Threads, ThreadOrderly
<1>2. th[PThread].pc \in {"flush"} /\ p' = p /\ UNCHANGED <<pma, readers, clients>>
  BY <1>1 DEF Flush, at, pma_vars, TidyOf
<1>3. Moved(PThread) /\ Carry(th'[PThread], th[PThread]) /\ th'[PThread].r = th[PThread].r /\ th'[PThread].batch = th[PThread].batch
      /\ th[PThread].r = NoRoot
  BY <1>1, <1>2, FlushStep DEF Carry, Working, HoldWork, FreeWork, RootWork, TidyOf, RootSteps,
     SameLocals, FlowOf, Course, Frees, AllocSteps, RangeSteps, PageSteps, EvictSteps
<1> QED BY <1>1, <1>2, <1>3, UnmovedStill, QuietStep

LEMMA FlushAgainWhole ==
  ASSUME TypeInv, Discipline, Whole, FlushAgain
  PROVE  Whole'
<1>1. PThread \in Thread /\ TidyOf(th[PThread]) /\ FlowOf(PThread, th[PThread]) /\ NoRoot \notin Root
  BY Threads, ThreadOrderly
<1>2. th[PThread].pc \in {"spin"} /\ p' = p /\ UNCHANGED <<pma, readers, clients>>
  BY <1>1 DEF FlushAgain, at, pma_vars, TidyOf
<1>3. Moved(PThread) /\ Carry(th'[PThread], th[PThread]) /\ th'[PThread].r = th[PThread].r /\ th'[PThread].batch = th[PThread].batch
      /\ th[PThread].r = NoRoot
  BY <1>1, <1>2, FlushAgainStep DEF Carry, Working, HoldWork, FreeWork, RootWork, TidyOf, RootSteps,
     SameLocals, FlowOf, Course, Frees, AllocSteps, RangeSteps, PageSteps, EvictSteps
<1> QED BY <1>1, <1>2, <1>3, UnmovedStill, QuietStep

LEMMA SpinPmaOwnedWhole ==
  ASSUME TypeInv, Discipline, Whole, SpinPmaOwned
  PROVE  Whole'
<1>1. PThread \in Thread /\ TidyOf(th[PThread]) /\ FlowOf(PThread, th[PThread]) /\ NoRoot \notin Root
  BY Threads, ThreadOrderly
<1>2. th[PThread].pc \in {"spin"} /\ p' = p /\ UNCHANGED <<pma, readers, clients>>
  BY <1>1 DEF SpinPmaOwned, at, pma_vars, TidyOf
<1>3. Moved(PThread) /\ Carry(th'[PThread], th[PThread]) /\ th'[PThread].r = th[PThread].r /\ th'[PThread].batch = th[PThread].batch
      /\ th[PThread].r = NoRoot
  BY <1>1, <1>2, SpinPmaOwnedStep DEF Carry, Working, HoldWork, FreeWork, RootWork, TidyOf, RootSteps,
     FlowOf, Course, Frees, AllocSteps, RangeSteps, PageSteps, EvictSteps
<1> QED BY <1>1, <1>2, <1>3, UnmovedStill, QuietStep

LEMMA RangeErrorWhole ==
  ASSUME TypeInv, Discipline, Whole, RangeError
  PROVE  Whole'
<1>1. PThread \in Thread /\ TidyOf(th[PThread]) /\ FlowOf(PThread, th[PThread]) /\ NoRoot \notin Root
  BY Threads, ThreadOrderly
<1>2. th[PThread].pc \in {"range_error"} /\ p' = p /\ UNCHANGED <<pma, readers, clients>>
  BY <1>1 DEF RangeError, at, pma_vars, TidyOf, range_returns
<1>3. Moved(PThread) /\ Carry(th'[PThread], th[PThread]) /\ th'[PThread].r = th[PThread].r /\ th'[PThread].batch = th[PThread].batch
      /\ th[PThread].r = NoRoot
  BY <1>1, <1>2, RangeErrorStep, IdleTyped DEF Carry, Working, HoldWork, FreeWork, RootWork, TidyOf, RootSteps,
     FlowOf, Course, Frees, AllocSteps, RangeSteps, PageSteps, EvictSteps
<1> QED BY <1>1, <1>2, <1>3, UnmovedStill, QuietStep

LEMMA StartRangeWhole ==
  ASSUME TypeInv, Discipline, Whole, StartRange
  PROVE  Whole'
<1>1. PThread \in Thread /\ TidyOf(th[PThread]) /\ FlowOf(PThread, th[PThread]) /\ NoRoot \notin Root
  BY Threads, ThreadOrderly
<1>2. th[PThread].pc \in {"idle"} /\ p' = p /\ UNCHANGED <<pma, readers, clients>>
  BY <1>1 DEF StartRange, at, pma_vars, TidyOf
<1>3. Moved(PThread) /\ Carry(th'[PThread], th[PThread]) /\ th'[PThread].r = th[PThread].r /\ th'[PThread].batch = th[PThread].batch
      /\ th[PThread].r = NoRoot
  BY <1>1, <1>2, StartRangeStep, IdleTyped DEF Carry, Working, HoldWork, FreeWork, RootWork, TidyOf, RootSteps,
     Started, FlowOf, Course, Frees, AllocSteps, RangeSteps, PageSteps, EvictSteps
<1> QED BY <1>1, <1>2, <1>3, UnmovedStill, QuietStep

LEMMA StartPagesWhole ==
  ASSUME TypeInv, Discipline, Whole, StartPages
  PROVE  Whole'
<1>1. PThread \in Thread /\ TidyOf(th[PThread]) /\ FlowOf(PThread, th[PThread]) /\ NoRoot \notin Root
  BY Threads, ThreadOrderly
<1>2. th[PThread].pc \in {"idle"} /\ p' = p /\ UNCHANGED <<pma, readers, clients>>
  BY <1>1 DEF StartPages, at, pma_vars, TidyOf
<1>3. Moved(PThread) /\ Carry(th'[PThread], th[PThread]) /\ th'[PThread].r = th[PThread].r /\ th'[PThread].batch = th[PThread].batch
      /\ th[PThread].r = NoRoot
  BY <1>1, <1>2, StartPagesStep, IdleTyped DEF Carry, Working, HoldWork, FreeWork, RootWork, TidyOf, RootSteps,
     Started, FlowOf, Course, Frees, AllocSteps, RangeSteps, PageSteps, EvictSteps
<1> QED BY <1>1, <1>2, <1>3, UnmovedStill, QuietStep

LEMMA StartAllocWhole ==
  ASSUME TypeInv, Discipline, Whole, NEW b \in Block, StartAlloc(b)
  PROVE  Whole'
<1>1. b \in Thread /\ TidyOf(th[b]) /\ FlowOf(b, th[b]) /\ NoRoot \notin Root
  BY Threads, ThreadOrderly
<1>2. th[b].pc \in {"idle"} /\ p' = p /\ UNCHANGED <<pma, readers, clients>>
  BY <1>1 DEF StartAlloc, at, pma_vars, TidyOf
<1>3. Moved(b) /\ Carry(th'[b], th[b]) /\ th'[b].r = th[b].r /\ th'[b].batch = th[b].batch
      /\ th[b].r = NoRoot
  BY <1>1, <1>2, StartAllocStep, IdleTyped DEF Carry, Working, HoldWork, FreeWork, RootWork, TidyOf, RootSteps,
     Started, FlowOf, Course, Frees, AllocSteps, RangeSteps, PageSteps, EvictSteps
<1> QED BY <1>1, <1>2, <1>3, UnmovedStill, QuietStep

LEMMA StartSplitWhole ==
  ASSUME TypeInv, Discipline, Whole, NEW b \in Block, StartSplit(b)
  PROVE  Whole'
<1>1. b \in Thread /\ TidyOf(th[b]) /\ FlowOf(b, th[b]) /\ NoRoot \notin Root
  BY Threads, ThreadOrderly
<1>2. th[b].pc \in {"idle"} /\ p' = p /\ UNCHANGED <<pma, readers, clients>>
  BY <1>1 DEF StartSplit, at, pma_vars, TidyOf
<1>3. Moved(b) /\ Carry(th'[b], th[b]) /\ th'[b].r = th[b].r /\ th'[b].batch = th[b].batch
      /\ th[b].r = NoRoot
  BY <1>1, <1>2, StartSplitStep, IdleTyped DEF Carry, Working, HoldWork, FreeWork, RootWork, TidyOf, RootSteps,
     Started, FlowOf, Course, Frees, AllocSteps, RangeSteps, PageSteps, EvictSteps
<1> QED BY <1>1, <1>2, <1>3, UnmovedStill, QuietStep

LEMMA StartKernelAllocWhole ==
  ASSUME TypeInv, Discipline, Whole, StartKernelAlloc
  PROVE  Whole'
<1>1. KThread \in Thread /\ TidyOf(th[KThread]) /\ FlowOf(KThread, th[KThread]) /\ NoRoot \notin Root
  BY Threads, ThreadOrderly
<1>2. th[KThread].pc \in {"idle"} /\ p' = p /\ UNCHANGED <<pma, readers, clients>>
  BY <1>1 DEF StartKernelAlloc, at, pma_vars, TidyOf
<1>3. Moved(KThread) /\ Carry(th'[KThread], th[KThread]) /\ th'[KThread].r = th[KThread].r /\ th'[KThread].batch = th[KThread].batch
      /\ th[KThread].r = NoRoot
  BY <1>1, <1>2, StartKernelAllocStep, IdleTyped DEF Carry, Working, HoldWork, FreeWork, RootWork, TidyOf, RootSteps,
     Started, FlowOf, Course, Frees, AllocSteps, RangeSteps, PageSteps, EvictSteps
<1> QED BY <1>1, <1>2, <1>3, UnmovedStill, QuietStep

-----------------------------------------------------------------------------
(* The steps of an eviction that change nothing but the thread.            *)

LEMMA UserMapped ==
  ASSUME NEW c \in Chunk, ChunkInv(c), p.state[c] = "ALLOCATED", p.type[c[1]] = "USER"
  PROVE  /\ p.va_block[c] \in Block /\ Has(p.va_block[c], c)
         /\ c \notin used_chunks[p.va_block[c]]
<1>1. PICK t \in Thread : Has(t, c)
  BY DEF ChunkInv
<1>2. OwnedBy(t, c) /\ WorkedBy(t, c)
  BY DEF ChunkInv
<1>3. CASE Owns(t, c)
  <2>1. t \in Block
    BY <1>2, <1>3 DEF OwnedBy, mem_type, Owns
  <2>2. p.va_block[c] = t /\ c \notin used_chunks[t]
    BY <1>2, <1>3, <2>1, Threads DEF OwnedBy, Owns
  <2> QED BY <1>1, <2>1, <2>2
<1>4. CASE Works(th[t], c)
  <2>1. th[t].pc \in FreeWork
    BY <1>2, <1>4 DEF WorkedBy, Works
  <2>2. t \in Block /\ p.va_block[c] = t
    BY <1>2, <1>4, <2>1 DEF WorkedBy, mem_type, FreeWork, RootWork
  <2>3. c \notin used_chunks[t]
    BY <1>2, <2>2 DEF OwnedBy
  <2> QED BY <1>1, <2>2, <2>3
<1> QED BY <1>1, <1>3, <1>4 DEF Has

LEMMA FamilyIndexed ==
  ASSUME NEW r \in Root
  PROVE  \A c \in family(r) : \E i \in 0 .. NSub : c = <<r, i>>
<1>1. \A c \in family(r) : c \in Chunk /\ c[1] = r
  BY FamilyFacts
<1> QED BY <1>1, ChunkFacts

(* What the thread that uses a root chunk may rely on.                     *)
LEMMA UserProgress ==
  ASSUME Whole, NEW t \in Thread, th[t].r \in Root
  PROVE  /\ Progress(th[t], th[t].r) /\ RootInv(th[t].r)
         /\ \A u \in Thread : th[u].r = th[t].r => u = t
BY DEF Whole, RootInv, Uses

LEMMA RelockWhole ==
  ASSUME TypeInv, Discipline, Whole, NEW t \in Thread, Relock(t)
  PROVE  Whole'
<1>1. TidyOf(th[t]) /\ FlowOf(t, th[t])
  BY ThreadOrderly
<1>2. th[t].pc = "relock" /\ p' = p /\ UNCHANGED <<pma, readers, clients>>
  BY <1>1 DEF Relock, TidyOf, pma_vars
<1>3. Moved(t) /\ th'[t].pc = "find" /\ SameLocals(th'[t], th[t])
  BY <1>2, RelockStep
<1>4. Carry(th'[t], th[t])
  BY <1>2, <1>3 DEF Carry, Working, HoldWork, FreeWork, RootWork
<1>5. th[t].r \in Root
  BY <1>1, <1>2 DEF FlowOf, Locals, RootSteps
<1>6. Progress(th[t], th[t].r)
  BY <1>5, UserProgress
<1>7. \A c \in Chunk : \A u \in Thread : Works(th'[u], c) => Works(th[u], c)
  BY <1>3, <1>4, Carried DEF Moved, Onward
<1>8. family(th[t].r) \subseteq Chunk
  BY <1>5, FamilyFacts
<1>9. Progress(th[t], th[t].r)'
  BY <1>2, <1>3, <1>6, <1>7, <1>8 DEF Progress, Evictors, SameLocals
<1> QED BY <1>2, <1>3, <1>4, <1>9, UnmovedStill, QuietStep DEF SameLocals, Evictors

LEMMA LockRangeWhole ==
  ASSUME TypeInv, Discipline, Whole, LockRange
  PROVE  Whole'
<1>1. PThread \in Thread /\ FlowOf(PThread, th[PThread])
  BY Threads, ThreadOrderly
<1>2. th[PThread].pc = "lock_range" /\ p' = p /\ UNCHANGED <<pma, readers, clients>>
  BY DEF LockRange, pma_vars, at
<1>3. Moved(PThread) /\ th'[PThread].pc = "pin_free" /\ SameLocals(th'[PThread], th[PThread])
  BY <1>2, LockRangeStep
<1>4. Carry(th'[PThread], th[PThread])
  BY <1>2, <1>3 DEF Carry, Working, HoldWork, FreeWork, RootWork
<1>5. th[PThread].r \in Root
  BY <1>1, <1>2 DEF FlowOf, Locals
<1>6. Progress(th[PThread], th[PThread].r)
  BY <1>1, <1>5, UserProgress
<1>7. Progress(th[PThread], th[PThread].r)'
  BY <1>2, <1>3, <1>6 DEF Progress, Evictors, SameLocals
<1> QED BY <1>1, <1>2, <1>3, <1>4, <1>7, UnmovedStill, QuietStep DEF SameLocals, Evictors

LEMMA FindWhole ==
  ASSUME TypeInv, Discipline, Whole, NEW t \in Thread, Find(t)
  PROVE  Whole'
<1> DEFINE r == th[t].r
<1>2. th[t].pc = "find" /\ p' = p /\ UNCHANGED <<pma, readers, clients>>
  BY DEF Find, pma_vars, at
<1>3. /\ Moved(t) /\ th'[t].pc = "va_block" /\ th'[t].r = r /\ th'[t].batch = th[t].batch /\ r \in Root
      /\ \E i \in 0 .. NSub : p.state[<<r, i>>] = "ALLOCATED" /\ th'[t].va = p.va_block[<<r, i>>]
  BY FindStep
<1>4. Carry(th'[t], th[t])
  BY <1>2, <1>3 DEF Carry, Working, HoldWork, FreeWork, RootWork
<1>5. Progress(th[t], r) /\ RootInv(r)
  BY <1>3, UserProgress
<1>6. th'[t].va \in Block
  <2>1. PICK i \in 0 .. NSub : p.state[<<r, i>>] = "ALLOCATED" /\ th'[t].va = p.va_block[<<r, i>>]
    BY <1>3
  <2>2. PICK c \in Chunk : c = <<r, i>>
    BY <1>3, ChunkFacts
  <2>3. c[1] = r /\ ChunkInv(c)
    BY <2>2 DEF Whole
  <2>4. p.type[r] = "USER"
    BY <1>2, <1>5 DEF Progress, Evictors, RootInv, Listing
  <2> QED BY <2>1, <2>2, <2>3, <2>4, UserMapped
<1>7. \A c \in Chunk : \A u \in Thread : Works(th'[u], c) => Works(th[u], c)
  BY <1>3, <1>4, Carried DEF Moved, Onward
<1>8. family(r) \subseteq Chunk
  BY <1>3, FamilyFacts
<1>9. Progress(th[t], r)'
  BY <1>2, <1>3, <1>5, <1>6, <1>7, <1>8 DEF Progress, Evictors
<1> QED BY <1>2, <1>3, <1>4, <1>9, UnmovedStill, QuietStep DEF Evictors

LEMMA FindNoneWhole ==
  ASSUME TypeInv, Discipline, Whole, NEW t \in Thread, FindNone(t)
  PROVE  Whole'
<1> DEFINE r == th[t].r
<1>1. FlowOf(t, th[t])
  BY ThreadOrderly
<1>2. /\ th[t].pc = "find" /\ p' = p /\ UNCHANGED <<pma, readers, clients>>
      /\ \A i \in 0 .. NSub : p.state[<<r, i>>] # "ALLOCATED"
  BY DEF FindNone, pma_vars, at
<1>3. Moved(t) /\ th'[t].pc = "merge" /\ SameLocals(th'[t], th[t])
  BY FindNoneStep
<1>4. Carry(th'[t], th[t])
  BY <1>2, <1>3 DEF Carry, Working, HoldWork, FreeWork, RootWork
<1>5. r \in Root
  BY <1>1, <1>2 DEF FlowOf, Locals, RootSteps
<1>6. Progress(th[t], r)
  BY <1>5, UserProgress
<1>7. \A c \in Chunk : \A u \in Thread : Works(th'[u], c) => Works(th[u], c)
  BY <1>3, <1>4, Carried DEF Moved, Onward
<1>8. family(r) \subseteq Chunk /\ \A c \in family(r) : p.state[c] # "ALLOCATED"
  BY <1>2, <1>5, FamilyFacts, FamilyIndexed
<1>9. Progress(th[t], r)'
  BY <1>2, <1>3, <1>6, <1>7, <1>8 DEF Progress, Evictors, SameLocals
<1> QED BY <1>2, <1>3, <1>4, <1>9, UnmovedStill, QuietStep DEF SameLocals, Evictors

LEMMA PmaPinInUseWhole ==
  ASSUME TypeInv, Discipline, Whole, NEW t \in Thread, PmaPinInUse(t)
  PROVE  Whole'
<1>1. th[t].pc = "pma_pin" /\ p' = p /\ UNCHANGED <<pma, readers, clients>>
  BY DEF PmaPinInUse, pma_vars, at
<1>2. Moved(t) /\ th'[t].pc = "free_root" /\ th'[t].r = th[t].r /\ th'[t].batch = th[t].batch
  BY PmaPinInUseStep
<1>3. Carry(th'[t], th[t])
  BY <1>1, <1>2 DEF Carry, RootWork
<1>4. Progress(th[t], th[t].r)' /\ th[t].pc \notin Evictors
  BY <1>1, <1>2 DEF Progress, Evictors
<1> QED BY <1>1, <1>2, <1>3, <1>4, UnmovedStill, QuietStep

LEMMA PagesCheckWhole ==
  ASSUME TypeInv, Discipline, Whole, PagesCheck
  PROVE  Whole'
<1> DEFINE t == PThread
<1>1. t \in Thread /\ th[t].pc = "pages_check" /\ p' = p /\ UNCHANGED <<pma, readers, clients>>
  BY Threads DEF PagesCheck, pma_vars, at
<1>2. Moved(t) /\ th'[t].pc = "free_root" /\ th'[t].r = th[t].r /\ th'[t].batch = th[t].batch
  BY PagesCheckStep
<1>3. Carry(th'[t], th[t])
  BY <1>1, <1>2 DEF Carry, RootWork
<1>4. Progress(th[t], th[t].r)' /\ th[t].pc \notin Evictors
  BY <1>1, <1>2 DEF Progress, Evictors
<1> QED BY <1>1, <1>2, <1>3, <1>4, UnmovedStill, QuietStep

-----------------------------------------------------------------------------
(* The steps that move pages between PMM, PMA and RM.                      *)

(* The operations that the steps belong to.                                *)
LEMMA Courses ==
  ASSUME NEW t, NEW x \in Local, FlowOf(t, x)
  PROVE  /\ x.pc \in RangeSteps => x.op = "range" /\ t = PThread
         /\ x.pc \in PageSteps => x.op = "pages" /\ t = PThread
         /\ x.pc \in AllocSteps => x.op = "alloc" /\ t # PThread
<1>1. Course(x) /\ (x.op \in {"range", "pages"} <=> (t = PThread /\ x.pc # "idle"))
  BY DEF FlowOf
<1>2. x.pc \in RangeSteps => x.op = "range"
  BY <1>1 DEF Course, Frees, AllocSteps, RangeSteps, PageSteps, EvictSteps
<1>3. x.pc \in PageSteps => x.op = "pages"
  BY <1>1 DEF Course, Frees, AllocSteps, RangeSteps, PageSteps, EvictSteps
<1>4. x.pc \in AllocSteps => x.op = "alloc" /\ x.pc # "idle"
  BY <1>1 DEF Course, Frees, AllocSteps, RangeSteps, PageSteps, EvictSteps
<1> QED BY <1>1, <1>2, <1>3, <1>4

(* A root chunk that PMA owns is in nobody's hands but those of a thread   *)
(* that is just returning it.                                              *)
LEMMA PmaOwnedUser ==
  ASSUME TypeInv, Discipline, Whole, NEW r \in Root, p.state[root_chunk(r)] = "PMA_OWNED"
  PROVE  /\ \A u \in Thread : th[u].r = r => \/ th[u].pc = "pma_free" /\ pma[r] \in {"unpinned", "pinned"}
                                             \/ th[u].pc = "pages_next" /\ pma[r] = "rm" /\ u = PThread
         /\ ~p.in_eviction[r]
<1>1. ~p.in_eviction[r]
  BY DEF Whole, RootInv, Listing
<1>2. ASSUME NEW u \in Thread, th[u].r = r
      PROVE  \/ th[u].pc = "pma_free" /\ pma[r] \in {"unpinned", "pinned"}
             \/ th[u].pc = "pages_next" /\ pma[r] = "rm" /\ u = PThread
  <2>1. th[u] \in Local /\ TidyOf(th[u]) /\ FlowOf(u, th[u]) /\ Progress(th[u], r) /\ NoRoot \notin Root
    BY <1>2, ThreadOrderly, UserProgress, Threads
  <2>2. th[u].pc \in RootSteps \ {"relock_error", "abort", "abort_walk"}
    BY <1>2, <2>1 DEF TidyOf
  <2>3. th[u].pc \notin Evictors
    BY <1>1, <2>1 DEF Progress
  <2>4. th[u].pc \notin RootWork
    <3>1. SUFFICES ASSUME th[u].pc \in RootWork PROVE FALSE
      OBVIOUS
    <3>2. Works(th[u], root_chunk(r))
      BY <1>2, <3>1 DEF Works
    <3>3. root_chunk(r) \in Chunk
      BY ChunkFacts
    <3>4. WorkedBy(u, root_chunk(r))
      BY <3>3 DEF Whole, ChunkInv
    <3> QED BY <3>1, <3>2, <3>4 DEF WorkedBy
  <2>5. th[u].pc \in {"pma_free", "pages_next"}
    BY <2>2, <2>3, <2>4 DEF RootSteps, Evictors, RootWork
  <2>6. ASSUME th[u].pc = "pages_next" PROVE u = PThread
    BY <2>1, <2>6, Courses DEF PageSteps
  <2> QED BY <2>1, <2>5, <2>6 DEF Progress
<1> QED BY <1>1, <1>2

LEMMA FreePagesOwned ==
  ASSUME Whole, NEW r \in Root, pma[r] \in {"free", "rm"}
  PROVE  p.state[root_chunk(r)] = "PMA_OWNED"
BY DEF Whole, RootInv, PmaOf, pma_state

(* PMA or RM gets a root chunk that no thread holds on to.                 *)
LEMMA PageGiven ==
  ASSUME Whole, NEW t \in Thread, Moved(t), NEW r \in Root, p.state[root_chunk(r)] = "PMA_OWNED",
         SameRoot(r), StillWorks(t, r), pma'[r] \in {"free", "rm"},
         \A u \in Thread : r \notin th'[u].batch,
         \A u \in Thread : th'[u].r = r => u = t,
         th'[t].r = r => th'[t].pc = "pages_next" /\ pma'[r] = "rm"
  PROVE  RootInv(r)'
<1>1. RootShape(r)'
  BY RootShapeKept DEF Whole, RootInv, RootShape
<1>2. p'.state[root_chunk(r)] = "PMA_OWNED"
  BY DEF SameRoot, family
<1>3. PmaOf(r)'
  BY <1>2 DEF PmaOf
<1>4. \A u \in Thread : Batched(u, r)'
  BY DEF Batched
<1>5. \A u \in Thread : Uses(u, r)'
  <2>1. th'[t].r = r => Progress(th[t], r)'
    BY <1>2 DEF Progress, Evictors
  <2> QED BY <2>1 DEF Uses
<1> QED BY <1>1, <1>3, <1>4, <1>5 DEF RootInv, RootShape

LEMMA SameHere ==
  ASSUME p' = p
  PROVE  \A r \in Root : SameRoot(r)
BY DEF SameRoot

LEMMA IdleWorkless ==
  /\ idle.pc \notin Working /\ idle.r \notin Root /\ idle.batch = {}
  /\ \A c \in Chunk : ~Works(idle, c)
BY IdleTyped, Threads, Workless DEF Working, HoldWork, FreeWork, RootWork

LEMMA RmFreeWhole ==
  ASSUME TypeInv, Discipline, Whole, RmFree
  PROVE  Whole'
<1>1. PICK r \in Root : /\ pma[r] = "rm" /\ r \notin th[PThread].batch
                        /\ ~(th[PThread].pc = "pages_next" /\ th[PThread].r = r)
                        /\ pma' = [pma EXCEPT ![r] = "free"]
  BY DEF RmFree, at
<1>2. PThread \in Thread /\ Moved(PThread) /\ th' = th /\ p' = p /\ UNCHANGED <<readers, clients>>
  BY Threads DEF RmFree, Moved
<1>3. \A c \in Chunk : ChunkInv(c)'
  <2>1. \A c \in Chunk : Onward(th'[PThread], th[PThread], c)
    BY <1>2 DEF Onward
  <2> QED BY <1>2, <2>1, UnmovedStill, QuietChunks
<1>4. pma \in [Root -> {"free", "unpinned", "pinned", "rm"}] /\ readers \subseteq Thread
  BY DEF TypeInv, TypeOK
<1>5. ASSUME NEW s \in Root PROVE RootInv(s)'
  <2>1. SameRoot(s) /\ StillWorks(PThread, s) /\ RootInv(s)
    BY <1>2, SameHere DEF StillWorks, Whole
  <2>2. CASE s = r
    <3>1. p.state[root_chunk(r)] = "PMA_OWNED" /\ pma'[r] = "free"
      BY <1>1, <1>4, FreePagesOwned
    <3>2. \A u \in Thread : th'[u].r # r
      BY <1>1, <1>2, <3>1, PmaOwnedUser
    <3>3. \A u \in Thread : Batched(u, r)
      BY <2>1, <2>2 DEF RootInv
    <3>4. \A u \in Thread : r \notin th'[u].batch
      BY <1>1, <1>2, <3>3 DEF Batched, pma_state
    <3> QED BY <1>2, <2>1, <2>2, <3>1, <3>2, <3>4, PageGiven
  <2>3. CASE s # r
    <3>1. pma'[s] = pma[s] /\ Steady(PThread, s)
      BY <1>1, <1>2, <1>4, <2>1, <2>3 DEF Steady, Pinning
    <3>2. th'[PThread].r = s => Progress(th[PThread], s)'
      <4>1. th[PThread].r = s => Progress(th[PThread], s)
        BY <1>2, <2>1 DEF RootInv, Uses
      <4> QED BY <1>2, <3>1, <4>1 DEF Progress
    <3> QED BY <1>2, <1>4, <2>1, <3>1, <3>2, RootKept
  <2> QED BY <2>2, <2>3
<1> QED BY <1>3, <1>5 DEF Whole

LEMMA PagesErrorWhole ==
  ASSUME TypeInv, Discipline, Whole, PagesError
  PROVE  Whole'
<1> DEFINE t == PThread
           batch == th[t].batch
<1>1. /\ t \in Thread /\ th[t].pc = "pages_error" /\ p' = p /\ UNCHANGED <<readers, clients>>
      /\ pma' = [r \in Root |-> IF r \in batch THEN "free" ELSE pma[r]]
  BY Threads DEF PagesError, at
<1>2. Moved(t) /\ th'[t] = idle
  BY PagesErrorStep
<1>3. TidyOf(th[t]) /\ th[t].r = NoRoot /\ NoRoot \notin Root
  BY <1>1, Threads, ThreadOrderly DEF TidyOf, RootSteps
<1>4. \A c \in Chunk : Onward(th'[t], th[t], c)
  <2>1. Carry(th'[t], th[t])
    BY <1>1, <1>2, IdleWorkless DEF Carry, Working, HoldWork, FreeWork, RootWork
  <2> QED BY <2>1, Carried
<1>5. \A c \in Chunk : ChunkInv(c)'
  BY <1>1, <1>2, <1>4, UnmovedStill, QuietChunks
<1>6. readers \subseteq Thread
  BY DEF TypeInv, TypeOK
<1>7. ASSUME NEW s \in Root PROVE RootInv(s)'
  <2>1. SameRoot(s) /\ StillWorks(t, s) /\ RootInv(s)
    BY <1>1, <1>3, SameHere DEF StillWorks, Whole, Merging
  <2>2. \A u \in Thread : Batched(u, s)
    BY <2>1 DEF RootInv
  <2>3. CASE s \in batch
    <3>1. p.state[root_chunk(s)] = "PMA_OWNED" /\ pma'[s] = "free"
      BY <1>1, <2>2, <2>3 DEF Batched
    <3>2. \A u \in Thread : th'[u].r # s
      BY <1>1, <1>2, <2>2, <2>3, IdleWorkless DEF Batched, Moved
    <3>3. \A u \in Thread : s \notin th'[u].batch
      BY <1>1, <1>2, <2>2, <2>3, IdleWorkless DEF Batched, Moved
    <3> QED BY <1>1, <1>2, <2>1, <3>1, <3>2, <3>3, PageGiven
  <2>4. CASE s \notin batch
    <3>1. pma'[s] = pma[s]
      BY <1>1, <2>4
    <3>2. \A c \in family(s) : Works(th'[t], c) => Works(th[t], c)
      BY <1>4, FamilyFacts DEF Onward
    <3>3. Steady(t, s) /\ th'[t].r # s
      BY <1>1, <1>2, <2>1, <2>4, <3>2, IdleWorkless DEF Steady, Returning, Pinning
    <3> QED BY <1>1, <1>2, <1>6, <2>1, <3>1, <3>3, RootKept
  <2> QED BY <2>3, <2>4
<1> QED BY <1>5, <1>7 DEF Whole

LEMMA PagesNextWhole ==
  ASSUME TypeInv, Discipline, Whole, PagesNext
  PROVE  Whole'
<1> DEFINE t == PThread
           r == th[t].r
<1>1. t \in Thread /\ th[t].pc = "pages_next" /\ p' = p /\ UNCHANGED <<pma, readers, clients>>
  BY Threads DEF PagesNext, at, pma_vars
<1>2. /\ Moved(t) /\ r \in Root /\ th'[t].pc \in {"idle", "lock_pages"} /\ th'[t].r \notin Root
      /\ th'[t].batch = {} \/ th'[t].batch = th[t].batch \cup {r}
  BY PagesNextStep, IdleTyped, Threads
<1>3. \A c \in Chunk : Onward(th'[t], th[t], c)
  <2>1. Carry(th'[t], th[t])
    BY <1>1, <1>2 DEF Carry, Working, HoldWork, FreeWork, RootWork
  <2> QED BY <2>1, Carried
<1>4. \A c \in Chunk : ChunkInv(c)'
  BY <1>1, <1>2, <1>3, UnmovedStill, QuietChunks
<1>5. readers \subseteq Thread
  BY DEF TypeInv, TypeOK
<1>6. /\ p.state[root_chunk(r)] = "PMA_OWNED" /\ pma[r] = "rm"
      /\ \A u \in Thread : th[u].r = r => u = t
  BY <1>1, <1>2, UserProgress DEF Progress
<1>7. ASSUME NEW s \in Root PROVE RootInv(s)'
  <2>1. SameRoot(s) /\ StillWorks(t, s) /\ RootInv(s)
    BY <1>1, SameHere DEF StillWorks, Whole, Merging, Evictors
  <2>2. \A u \in Thread : Batched(u, s)
    BY <2>1 DEF RootInv
  <2>3. CASE s = r
    <3>1. RootShape(s)'
      BY <1>1, <1>2, <2>1, RootShapeKept DEF RootInv, RootShape
    <3>2. PmaOf(s)'
      BY <1>1, <1>6, <2>3 DEF PmaOf
    <3>3. \A u \in Thread : th'[u].r # s
      BY <1>2, <1>6, <2>3 DEF Moved
    <3>4. \A u \in Thread : s \in th'[u].batch => u = t
      BY <1>1, <1>2, <2>2, <2>3 DEF Moved, Batched
    <3>5. \A u \in Thread : Batched(u, s)'
      BY <1>1, <1>6, <2>3, <3>3, <3>4 DEF Batched
    <3>6. \A u \in Thread : Uses(u, s)'
      BY <3>3 DEF Uses
    <3> QED BY <3>1, <3>2, <3>5, <3>6 DEF RootInv, RootShape
  <2>4. CASE s # r
    <3>1. \A c \in family(s) : Works(th'[t], c) => Works(th[t], c)
      BY <1>3, FamilyFacts DEF Onward
    <3>2. Returning(th[t], s) => pma[s] = "rm"
      BY <1>1, <2>2 DEF Returning, Batched
    <3>3. Steady(t, s) /\ th'[t].r # s
      BY <1>2, <2>1, <2>4, <3>1, <3>2 DEF Steady, Pinning
    <3> QED BY <1>1, <1>2, <1>5, <2>1, <3>3, RootKept
  <2> QED BY <2>3, <2>4
<1> QED BY <1>4, <1>7 DEF Whole

LEMMA PmaFreeWhole ==
  ASSUME TypeInv, Discipline, Whole, NEW t \in Thread, PmaFree(t)
  PROVE  Whole'
<1> DEFINE r == th[t].r
<1>1. /\ th[t].pc = "pma_free" /\ p' = p /\ UNCHANGED clients /\ readers' = readers \ {t}
      /\ pma' = [pma EXCEPT ![r] = IF th[t].ret = "pages_next" THEN "rm" ELSE "free"]
  BY DEF PmaFree, at
<1>2. TidyOf(th[t]) /\ FlowOf(t, th[t]) /\ NoRoot \notin Root
  BY Threads, ThreadOrderly
<1>3. /\ Moved(t) /\ r \in Root /\ th'[t].pc = th[t].ret
      /\ th'[t].batch = (IF th[t].ret = "idle" THEN {} ELSE th[t].batch)
      /\ th'[t].r = IF th[t].ret = "pages_next" THEN r ELSE NoRoot
  BY PmaFreeStep DEF Resumed
<1>4. /\ th[t].ret \in {"idle", "evict_again", "pick", "alloc_error", "spin", "range_error",
                          "pages_next", "pages_error"}
      /\ th[t].batch # {} => t = PThread /\ th[t].op = "pages"
      /\ th[t].ret = "idle" => th[t].op # "pages"
  BY <1>1, <1>2 DEF TidyOf, FlowOf, Course, Frees, AllocSteps, RangeSteps, PageSteps, EvictSteps
<1>5. \A c \in Chunk : Onward(th'[t], th[t], c)
  <2>1. Carry(th'[t], th[t])
    BY <1>1, <1>3, <1>4 DEF Carry, Working, HoldWork, FreeWork, RootWork
  <2> QED BY <2>1, Carried
<1>6. \A c \in Chunk : ChunkInv(c)'
  BY <1>1, <1>3, <1>5, UnmovedStill, QuietChunks
<1>7. readers \subseteq Thread /\ pma \in [Root -> {"free", "unpinned", "pinned", "rm"}]
  BY DEF TypeInv, TypeOK
<1>8. /\ p.state[root_chunk(r)] = "PMA_OWNED"
      /\ \A u \in Thread : th[u].r = r => u = t
  BY <1>1, <1>3, UserProgress DEF Progress
<1>9. ASSUME NEW s \in Root PROVE RootInv(s)'
  <2>1. SameRoot(s) /\ StillWorks(t, s) /\ RootInv(s)
    BY <1>1, SameHere DEF StillWorks, Whole, Merging, Evictors
  <2>2. \A u \in Thread : Batched(u, s)
    BY <2>1 DEF RootInv
  <2>3. CASE s = r
    <3>1. pma'[s] = IF th[t].ret = "pages_next" THEN "rm" ELSE "free"
      BY <1>1, <1>3, <1>7, <2>3
    <3>2. \A u \in Thread : s \notin th[u].batch
      BY <2>2, <2>3 DEF Batched
    <3>3. \A u \in Thread : s \notin th'[u].batch
      BY <1>3, <3>2 DEF Moved
    <3>4. \A u \in Thread : th'[u].r = s => u = t
      BY <1>3, <1>8, <2>3 DEF Moved
    <3>5. th'[t].r = s => th'[t].pc = "pages_next" /\ pma'[s] = "rm"
      BY <1>2, <1>3, <2>3, <3>1
    <3> QED BY <1>3, <1>8, <2>1, <2>3, <3>1, <3>3, <3>4, <3>5, PageGiven
  <2>4. CASE s # r
    <3>1. \A c \in family(s) : Works(th'[t], c) => Works(th[t], c)
      BY <1>5, FamilyFacts DEF Onward
    <3>2. Returning(th[t], s) => pma[s] = "rm"
      BY <1>4, <2>2, <2>4 DEF Returning, Batched
    <3>3. Steady(t, s) /\ th'[t].r # s
      BY <1>2, <1>3, <2>1, <2>4, <3>1, <3>2 DEF Steady, Pinning
    <3>4. pma'[s] = pma[s]
      BY <1>1, <1>7, <2>4
    <3> QED BY <1>1, <1>3, <1>7, <2>1, <3>3, <3>4, RootKept
  <2> QED BY <2>3, <2>4
<1> QED BY <1>6, <1>9 DEF Whole

LEMMA RangeOkWhole ==
  ASSUME TypeInv, Discipline, Whole, Marked, RangeOk
  PROVE  Whole'
<1> DEFINE t == PThread
<1>1. /\ t \in Thread /\ th[t].pc = "range_ok" /\ p' = p /\ UNCHANGED <<readers, clients>>
      /\ pma' = [r \in Root |-> IF r \in evicting THEN "rm" ELSE pma[r]]
  BY Threads DEF RangeOk, at
<1>2. Moved(t) /\ th'[t] = idle
  BY RangeOkStep
<1>3. /\ TidyOf(th[t]) /\ th[t].r = NoRoot /\ NoRoot \notin Root /\ th[t].batch = {}
      /\ th[t].op = "range"
  BY <1>1, Threads, ThreadOrderly, Courses DEF TidyOf, RootSteps, RangeSteps
<1>4. \A c \in Chunk : Onward(th'[t], th[t], c)
  <2>1. Carry(th'[t], th[t])
    BY <1>1, <1>2, IdleWorkless DEF Carry, Working, HoldWork, FreeWork, RootWork
  <2> QED BY <2>1, Carried
<1>5. \A c \in Chunk : ChunkInv(c)'
  BY <1>1, <1>2, <1>4, UnmovedStill, QuietChunks
<1>6. readers \subseteq Thread
  BY DEF TypeInv, TypeOK
<1>7. ASSUME NEW s \in Root PROVE RootInv(s)'
  <2>1. SameRoot(s) /\ StillWorks(t, s) /\ RootInv(s)
    BY <1>1, <1>3, SameHere DEF StillWorks, Whole, Merging
  <2>3. CASE s \in evicting
    <3>1. /\ p.state[root_chunk(s)] = "PMA_OWNED" /\ pma'[s] = "rm" /\ pma[s] = "free"
          /\ \A u \in Thread : s \notin th[u].batch
      BY <1>1, <1>3, <2>3 DEF Marked
    <3>2. \A u \in Thread : th[u].r # s
      BY <3>1, PmaOwnedUser
    <3>3. \A u \in Thread : s \notin th'[u].batch /\ th'[u].r # s
      BY <1>1, <1>2, <3>1, <3>2, IdleWorkless DEF Moved
    <3> QED BY <1>1, <1>2, <2>1, <3>1, <3>3, PageGiven
  <2>4. CASE s \notin evicting
    <3>1. pma'[s] = pma[s]
      BY <1>1, <2>4
    <3>2. \A c \in family(s) : Works(th'[t], c) => Works(th[t], c)
      BY <1>4, FamilyFacts DEF Onward
    <3>3. Steady(t, s) /\ th'[t].r # s
      BY <1>1, <1>2, <1>3, <2>1, <3>2, IdleWorkless DEF Steady, Returning, Pinning
    <3> QED BY <1>1, <1>2, <1>6, <2>1, <3>1, <3>3, RootKept
  <2> QED BY <2>3, <2>4
<1> QED BY <1>5, <1>7 DEF Whole

LEMMA PmaAllocWhole ==
  ASSUME TypeInv, Discipline, Whole, NEW t \in Thread, PmaAlloc(t)
  PROVE  Whole'
<1> DEFINE batch == th'[t].batch
<1>1. /\ th[t].pc = "pma_alloc" /\ p' = p /\ UNCHANGED clients /\ readers' = readers \cup {t}
  BY DEF PmaAlloc, at
<1>2. /\ Moved(t) /\ th'[t].c = th[t].c /\ th'[t].r = th[t].r /\ th'[t].pc = "init"
      /\ batch \subseteq pma_available
      /\ pma' = [r \in Root |-> IF r \notin batch THEN pma[r]
                                ELSE IF t \in Block THEN "unpinned" ELSE "pinned"]
  BY PmaAllocStep
<1>3. /\ th[t].r = NoRoot /\ NoRoot \notin Root /\ th[t].c = NoChunk /\ NoChunk \notin Chunk
      /\ th[t].batch = {} /\ t # PThread
  BY <1>1, Threads, ThreadOrderly, Courses DEF TidyOf, RootSteps, AllocSteps, FlowOf, Locals
<1>4. \A c \in Chunk : Onward(th'[t], th[t], c)
  BY <1>1, <1>2, <1>3 DEF Onward, Works, HoldWork, FreeWork, RootWork
<1>5. \A c \in Chunk : ChunkInv(c)'
  BY <1>1, <1>2, <1>4, UnmovedStill, QuietChunks
<1>6. readers \subseteq Thread
  BY DEF TypeInv, TypeOK
<1>7. ASSUME NEW s \in Root PROVE RootInv(s)'
  <2>1. SameRoot(s) /\ StillWorks(t, s) /\ RootInv(s)
    BY <1>1, <1>3, SameHere DEF StillWorks, Whole, Merging
  <2>3. CASE s \in batch
    <3>1. pma[s] = "free" /\ pma'[s] = IF t \in Block THEN "unpinned" ELSE "pinned"
      BY <1>2, <2>3 DEF pma_available
    <3>2. p.state[root_chunk(s)] = "PMA_OWNED"
      BY <3>1, FreePagesOwned
    <3>3. \A u \in Thread : th[u].r # s
      BY <3>1, <3>2, PmaOwnedUser
    <3>4. \A u \in Thread : s \notin th[u].batch
      BY <2>1, <3>1 DEF RootInv, Batched, pma_state
    <3>5. \A u \in Thread : th'[u].r # s /\ (s \in th'[u].batch => u = t)
      BY <1>2, <3>3, <3>4 DEF Moved
    <3>6. RootShape(s)'
      BY <1>2, <2>1, RootShapeKept DEF RootInv, RootShape
    <3>7. PmaOf(s)'
      BY <1>1, <2>3, <3>2 DEF PmaOf, Returning
    <3>8. \A u \in Thread : Batched(u, s)'
      BY <1>1, <1>3, <3>1, <3>2, <3>5 DEF Batched, pma_state, mem_type
    <3>9. \A u \in Thread : Uses(u, s)'
      BY <3>5 DEF Uses
    <3> QED BY <3>6, <3>7, <3>8, <3>9 DEF RootInv, RootShape
  <2>4. CASE s \notin batch
    <3>1. pma'[s] = pma[s]
      BY <1>2, <2>4
    <3>2. \A c \in family(s) : Works(th'[t], c) => Works(th[t], c)
      BY <1>4, FamilyFacts DEF Onward
    <3>3. Steady(t, s) /\ th'[t].r # s
      BY <1>1, <1>2, <1>3, <2>1, <2>4, <3>2 DEF Steady, Returning, Pinning
    <3> QED BY <1>1, <1>2, <1>6, <2>1, <3>1, <3>3, RootKept
  <2> QED BY <2>3, <2>4
<1> QED BY <1>5, <1>7 DEF Whole

-----------------------------------------------------------------------------
(* The steps that hand a chunk to a client or take it back.                *)

LEMMA HandedOver ==
  ASSUME TypeInv, Whole, NEW t \in Thread, Moved(t), p' = p, UNCHANGED <<pma, readers>>, NEW c \in Chunk,
         th[t].pc \notin Evictors \cup {"free_locked", "merge_locked", "pma_free", "set_type"},
         th'[t].batch = th[t].batch, th'[t].r \notin Root,
         \A e \in Chunk : e # c => SameClients(e) /\ Onward(th'[t], th[t], e),
         Works(th'[t], c) => Works(th[t], c) \/ p.state[c] = "ALLOCATED" \/ ~p.in_eviction[c[1]],
         ChunkInv(c)'
  PROVE  Whole'
<1>1. ASSUME NEW e \in Chunk, e # c PROVE ChunkInv(e)'
  BY <1>1, ChunkKept DEF Whole, SameChunk
<1>2. ASSUME NEW r \in Root PROVE RootInv(r)'
  <2>1. SameRoot(r) /\ RootInv(r) /\ readers \subseteq Thread
    BY SameHere DEF Whole, TypeInv, TypeOK
  <2>2. \A e \in family(r) : Works(th'[t], e) => Works(th[t], e) \/ p.state[e] = "ALLOCATED" \/ ~p.in_eviction[r]
    BY FamilyFacts DEF Onward
  <2>3. Steady(t, r)
    BY <2>2 DEF Steady, StillWorks, Merging, Returning, Pinning
  <2> QED BY <2>1, <2>3, RootKept
<1> QED BY <1>1, <1>2 DEF Whole

LEMMA DoneWhole ==
  ASSUME TypeInv, Discipline, Whole, NEW t \in Thread, Done(t)
  PROVE  Whole'
<1>0. PICK c \in Chunk : c = th[t].c
  <2>1. th[t].pc = "done"
    BY DEF Done, at
  <2> QED BY <2>1, ThreadOrderly DEF FlowOf, Locals, ChunkSteps
<1>1. /\ th[t].pc = "done" /\ t \in Block /\ p' = p /\ UNCHANGED <<pma, readers>> /\ kchunks' = kchunks
      /\ \/ /\ free_chunks' = [free_chunks EXCEPT ![t] = free_chunks[t] \cup {c}]
            /\ UNCHANGED <<chunks, used_chunks>>
         \/ /\ chunks' = [chunks EXCEPT ![t] = chunks[t] \cup {c}]
            /\ used_chunks' = [used_chunks EXCEPT ![t] = used_chunks[t] \cup {c}]
            /\ UNCHANGED free_chunks
  BY <1>0 DEF Done, at, pma_vars
<1>2. Moved(t) /\ th'[t] = idle
  BY DoneStep
<1>3. th[t].batch = {}
  BY <1>1, ThreadOrderly, Courses DEF TidyOf, AllocSteps
<1>4. /\ chunks \in [Block -> SUBSET Chunk] /\ used_chunks \in [Block -> SUBSET Chunk]
      /\ free_chunks \in [Block -> SUBSET Chunk]
  BY DEF TypeInv, TypeOK
<1>5. \A e \in Chunk : Works(th[t], e) <=> e = c
  BY <1>0, <1>1 DEF Works, HoldWork, FreeWork, RootWork
<1>6. \A e \in Chunk : ~Works(th'[t], e)
  BY <1>2, IdleWorkless
<1>7. \A e \in Chunk : e # c => SameClients(e) /\ Onward(th'[t], th[t], e)
  BY <1>1, <1>4, <1>5, <1>6 DEF SameClients, Onward
<1>8. ChunkInv(c)'
  <2>1. ChunkInv(c) /\ Works(th[t], c) /\ Has(t, c)
    BY <1>3, <1>5 DEF Whole, Has
  <2>2. OwnedBy(t, c) /\ WorkedBy(t, c) /\ ~Owns(t, c)
    BY <2>1 DEF ChunkInv, OwnedBy
  <2>3. p.state[c] = "TEMP_PINNED" /\ ~p.in_eviction[c[1]] /\ p.type[c[1]] = mem_type(t)
    BY <1>1, <2>1, <2>2 DEF WorkedBy, HoldWork, RootWork
  <2>4. c \notin chunks[t] /\ c \notin used_chunks[t] /\ c \notin free_chunks[t]
    BY <1>1, <2>2 DEF OwnedBy, Owns
  <2>5. /\ c \in used_chunks'[t] => c \in chunks'[t]
        /\ c \in chunks'[t] => c \notin free_chunks'[t] /\ c \in used_chunks'[t]
        /\ c \in chunks'[t] \/ c \in free_chunks'[t]
    BY <1>1, <1>4, <2>4
  <2>6. OwnedBy(t, c)' /\ Has(t, c)'
    BY <1>1, <1>3, <1>6, <2>3, <2>5, Threads DEF OwnedBy, Owns, Has, mem_type
  <2>7. WorkedBy(t, c)'
    BY <1>3, <1>6 DEF WorkedBy
  <2>8. \A u \in Thread : u # t => ~Has(u, c) /\ SameOwner(u, c)
    BY <1>1, <1>3, <1>4, <2>1, Holders DEF SameOwner
  <2> QED BY <1>2, <1>3, <2>1, <2>6, <2>7, <2>8, OneHolder
<1> QED BY <1>1, <1>2, <1>3, <1>6, <1>7, <1>8, IdleWorkless, HandedOver DEF Evictors

LEMMA PopulateWhole ==
  ASSUME TypeInv, Discipline, Whole, NEW b \in Block, Populate(b)
  PROVE  Whole'
<1>1. PICK c \in free_chunks[b] :
        /\ free_chunks' = [free_chunks EXCEPT ![b] = free_chunks[b] \ {c}]
        /\ used_chunks' = [used_chunks EXCEPT ![b] = used_chunks[b] \cup {c}]
        /\ chunks' = [chunks EXCEPT ![b] = chunks[b] \cup {c}]
  BY DEF Populate
<1>2. /\ b \in Thread /\ th' = th /\ Moved(b) /\ th[b].pc = "idle" /\ p' = p /\ UNCHANGED <<pma, readers>>
      /\ kchunks' = kchunks
  BY Threads DEF Populate, pma_vars, at, Moved
<1>3. /\ chunks \in [Block -> SUBSET Chunk] /\ used_chunks \in [Block -> SUBSET Chunk]
      /\ free_chunks \in [Block -> SUBSET Chunk] /\ c \in Chunk
  BY DEF TypeInv, TypeOK
<1>4. \A e \in Chunk : e # c => SameClients(e) /\ Onward(th'[b], th[b], e)
  BY <1>1, <1>2, <1>3 DEF SameClients, Onward
<1>5. th'[b].r \notin Root
  <2>1. TidyOf(th[b]) /\ NoRoot \notin Root
    BY <1>2, ThreadOrderly, Threads
  <2> QED BY <1>2, <2>1 DEF TidyOf, RootSteps
<1>6. ChunkInv(c)'
  <2>1. ChunkInv(c) /\ Has(b, c)
    BY <1>1, <1>3 DEF Whole, Has, Owns
  <2>2. OwnedBy(b, c) /\ WorkedBy(b, c) /\ Owns(b, c)
    BY <1>1, <1>2, <2>1 DEF ChunkInv, Owns
  <2>3. p.state[c] = "TEMP_PINNED" /\ ~p.in_eviction[c[1]] /\ p.type[c[1]] = mem_type(b) /\ ~Works(th[b], c)
    BY <1>1, <2>2 DEF OwnedBy
  <2>4. c \notin free_chunks'[b] /\ c \in used_chunks'[b] /\ c \in chunks'[b]
    BY <1>1, <1>3
  <2>5. OwnedBy(b, c)' /\ Has(b, c)'
    BY <1>2, <2>3, <2>4, Threads DEF OwnedBy, Owns, Has, mem_type
  <2>6. WorkedBy(b, c)'
    BY <1>2, <2>3 DEF WorkedBy
  <2>7. \A u \in Thread : u # b => ~Has(u, c) /\ SameOwner(u, c)
    BY <1>1, <1>2, <1>3, <2>1, Holders DEF SameOwner
  <2> QED BY <1>2, <1>3, <2>1, <2>5, <2>6, <2>7, OneHolder
<1>7. th[b].pc \notin Evictors \cup {"free_locked", "merge_locked", "pma_free", "set_type"}
  BY <1>2 DEF Evictors
<1> QED BY <1>2, <1>3, <1>4, <1>5, <1>6, <1>7, HandedOver

(* The thread of a client starts to free one of its chunks.                *)
LEMMA FreeStarted ==
  ASSUME TypeInv, Discipline, Whole, NEW t \in Thread, Moved(t), p' = p, UNCHANGED <<pma, readers>>,
         th[t].pc = "idle", th'[t].pc = "free", th'[t].r = NoRoot, th'[t].batch = {},
         NEW c \in Chunk, th'[t].c = c, Owns(t, c), ~Owns(t, c)',
         t \in Block => c \notin used_chunks[t] /\ c \notin used_chunks'[t],
         \A e \in Chunk : e # c => SameClients(e),
         \A u \in Thread : u # t => SameOwner(u, c)
  PROVE  Whole'
<1>1. th[t] = idle /\ NoRoot \notin Root
  <2>1. Course(th[t])
    BY ThreadOrderly DEF FlowOf
  <2> QED BY <2>1, Threads DEF Course, Frees, AllocSteps, RangeSteps, PageSteps, EvictSteps
<1>2. /\ \A e \in Chunk : ~Works(th[t], e)
      /\ \A e \in Chunk : Works(th'[t], e) <=> e = c
  BY <1>1, IdleWorkless DEF Works, HoldWork, FreeWork, RootWork
<1>3. \A e \in Chunk : e # c => Onward(th'[t], th[t], e)
  BY <1>2 DEF Onward
<1>4. ChunkInv(c) /\ Has(t, c)
  BY DEF Whole, Has
<1>5. OwnedBy(t, c)
  BY <1>4 DEF ChunkInv
<1>6. /\ p.type[c[1]] = mem_type(t)
      /\ \/ p.state[c] = "ALLOCATED" /\ (t \in Block => p.va_block[c] = t)
         \/ p.state[c] = "TEMP_PINNED" /\ ~p.in_eviction[c[1]]
  BY <1>5, Threads DEF OwnedBy, Owns
<1>7. OwnedBy(t, c)'
  BY DEF OwnedBy, Owns
<1>8. WorkedBy(t, c)' /\ Has(t, c)'
  BY <1>2, <1>6 DEF WorkedBy, Has, RootWork, HoldWork, FreeWork, mem_type
<1>9. \A u \in Thread : u # t => ~Has(u, c)
  BY <1>4, Holders
<1>10. ChunkInv(c)'
  BY <1>4, <1>7, <1>8, <1>9, OneHolder
<1> QED BY <1>1, <1>3, <1>6, <1>10, IdleWorkless, HandedOver DEF Evictors

LEMMA StartReleaseWhole ==
  ASSUME TypeInv, Discipline, Whole, NEW b \in Block, StartRelease(b)
  PROVE  Whole'
<1>1. /\ Moved(b) /\ Started(th'[b], "free", "release") /\ th[b].pc = "idle"
      /\ th'[b].c \in free_chunks[b]
      /\ free_chunks' = [free_chunks EXCEPT ![b] = free_chunks[b] \ {th'[b].c}]
  BY StartReleaseStep
<1>2. b \in Thread /\ b # KThread /\ p' = p /\ UNCHANGED <<pma, readers, chunks, used_chunks, kchunks>>
  BY Threads DEF StartRelease, pma_vars
<1>3. PICK c \in Chunk : c = th'[b].c
  BY <1>1 DEF TypeInv, TypeOK
<1>4. free_chunks \in [Block -> SUBSET Chunk]
  BY DEF TypeInv, TypeOK
<1>5. OwnedBy(b, c)
  BY <1>2 DEF Whole, ChunkInv
<1>6. /\ Owns(b, c) /\ ~Owns(b, c)' /\ c \notin used_chunks[b] /\ c \notin used_chunks'[b]
      /\ \A e \in Chunk : e # c => SameClients(e)
      /\ \A u \in Thread : u # b => SameOwner(u, c)
  BY <1>1, <1>2, <1>3, <1>4, <1>5 DEF Owns, OwnedBy, SameClients, SameOwner
<1> QED BY <1>1, <1>2, <1>3, <1>6, FreeStarted DEF Started

LEMMA StartFreeWhole ==
  ASSUME TypeInv, Discipline, Whole, NEW b \in Block, StartFree(b)
  PROVE  Whole'
<1>1. /\ Moved(b) /\ Started(th'[b], "free", "free") /\ th[b].pc = "idle"
      /\ th'[b].c \in chunks[b] \ used_chunks[b]
      /\ chunks' = [chunks EXCEPT ![b] = chunks[b] \ {th'[b].c}]
  BY StartFreeStep
<1>2. b \in Thread /\ b # KThread /\ p' = p /\ UNCHANGED <<pma, readers, free_chunks, used_chunks, kchunks>>
  BY Threads DEF StartFree, pma_vars
<1>3. PICK c \in Chunk : c = th'[b].c
  BY <1>1 DEF TypeInv, TypeOK
<1>4. chunks \in [Block -> SUBSET Chunk]
  BY DEF TypeInv, TypeOK
<1>5. OwnedBy(b, c)
  BY <1>2 DEF Whole, ChunkInv
<1>6. /\ Owns(b, c) /\ ~Owns(b, c)' /\ c \notin used_chunks[b] /\ c \notin used_chunks'[b]
      /\ \A e \in Chunk : e # c => SameClients(e)
      /\ \A u \in Thread : u # b => SameOwner(u, c)
  BY <1>1, <1>2, <1>3, <1>4, <1>5 DEF Owns, OwnedBy, SameClients, SameOwner
<1> QED BY <1>1, <1>2, <1>3, <1>6, FreeStarted DEF Started

LEMMA StartKernelFreeWhole ==
  ASSUME TypeInv, Discipline, Whole, StartKernelFree
  PROVE  Whole'
<1> DEFINE t == KThread
<1>1. /\ Moved(t) /\ Started(th'[t], "free", "free") /\ th[t].pc = "idle"
      /\ th'[t].c \in kchunks /\ kchunks' = kchunks \ {th'[t].c}
  BY StartKernelFreeStep
<1>2. t \in Thread /\ t \notin Block /\ p' = p /\ UNCHANGED <<pma, readers, chunks, free_chunks, used_chunks>>
  BY Threads DEF StartKernelFree, pma_vars
<1>3. PICK c \in Chunk : c = th'[t].c
  BY <1>1 DEF TypeInv, TypeOK
<1>6. /\ Owns(t, c) /\ ~Owns(t, c)'
      /\ \A e \in Chunk : e # c => SameClients(e)
      /\ \A u \in Thread : u # t => SameOwner(u, c)
  BY <1>1, <1>2, <1>3 DEF Owns, SameClients, SameOwner
<1> QED BY <1>1, <1>2, <1>3, <1>6, FreeStarted DEF Started

-----------------------------------------------------------------------------
(* The steps that change one root chunk.                                   *)

(* Counting subchunks.                                                     *)
LEMMA SubchunksUnited ==
  ASSUME NEW r \in Root, NEW A \in SUBSET subchunks(r), NEW B \in SUBSET subchunks(r), A \cap B = {}
  PROVE  /\ Cardinality(A \cup B) = Cardinality(A) + Cardinality(B)
         /\ Cardinality(A) \in Nat /\ Cardinality(B) \in Nat
<1>1. IsFiniteSet(A) /\ IsFiniteSet(B) /\ Cardinality(A) \in Nat /\ Cardinality(B) \in Nat
  BY SomeSubchunks
<1>2. Cardinality(A \cup B) = Cardinality(A) + Cardinality(B) - Cardinality(A \cap B)
  BY <1>1, FS_Union
<1>3. Cardinality(A \cap B) = 0
  BY FS_EmptySet
<1> QED BY <1>1, <1>2, <1>3

LEMMA SubchunkAdded ==
  ASSUME NEW r \in Root, NEW A \in SUBSET subchunks(r), NEW c \in subchunks(r), c \notin A
  PROVE  Cardinality(A \cup {c}) = Cardinality(A) + 1
<1>1. IsFiniteSet(A)
  BY SomeSubchunks
<1> QED BY <1>1, FS_AddElement

LEMMA SubchunkRemoved ==
  ASSUME NEW r \in Root, NEW A \in SUBSET subchunks(r), NEW c \in A
  PROVE  Cardinality(A \ {c}) = Cardinality(A) - 1
<1>1. IsFiniteSet(A)
  BY SomeSubchunks
<1> QED BY <1>1, FS_RemoveElement

LEMMA SubchunksPresent ==
  ASSUME NEW r \in Root, NEW A \in SUBSET subchunks(r)
  PROVE  /\ A # {} <=> Cardinality(A) > 0
         /\ Cardinality(A) = 1 => \A c \in A : A = {c}
<1>1. IsFiniteSet(A) /\ Cardinality(A) \in Nat
  BY SomeSubchunks
<1>2. Cardinality(A) = 0 <=> A = {}
  BY <1>1, FS_EmptySet
<1>3. ASSUME Cardinality(A) = 1, NEW c \in A PROVE A = {c}
  <2>1. IsFiniteSet(A \ {c}) /\ Cardinality(A \ {c}) = 0
    BY <1>1, <1>3, FS_RemoveElement
  <2>2. A \ {c} = {}
    BY <2>1, FS_EmptySet
  <2> QED BY <2>2
<1> QED BY <1>1, <1>2, <1>3

(* A thread that works on no root chunk but r.                             *)
WorksIn(x, r) == (\A c \in Chunk : Works(x, c) => c[1] = r) /\ (x.r \in Root => x.r = r)

LEMMA InRoot ==
  ASSUME NEW x, NEW r, x.r \in Root => x.r = r,
         x.pc \in HoldWork \cup FreeWork \cup {"merge_locked"} /\ x.c \in Chunk => x.c[1] = r,
         x.pc = "merge_locked" => x.c \in Chunk
  PROVE  WorksIn(x, r)
<1>1. ASSUME NEW c \in Chunk, Works(x, c) PROVE c[1] = r
  <2>1. ASSUME c = root_chunk(x.r) PROVE c[1] = x.r /\ x.r \in Root
    BY <2>1 DEF Chunk, root_chunk
  <2> QED BY <1>1, <2>1 DEF Works
<1> QED BY <1>1 DEF WorksIn

LEMMA MergesIn ==
  ASSUME NEW x, NEW r \in Root, WorksIn(x, r), NEW s \in Root, s # r
  PROVE  ~Merging(x, s)
<1>1. /\ root_chunk(s) \in Chunk /\ root_chunk(s)[1] = s /\ <<s, 1>> \in Chunk
      /\ <<s, 1>>[1] = s /\ <<s, 1>>[2] # 0
  BY ChunkFacts
<1> QED BY <1>1 DEF WorksIn, Works, Merging, FreeWork

Beside(r) ==
  /\ \A s \in Root : s # r => SameRoot(s)
  /\ \A c \in Chunk : c[1] # r => SameChunk(c)

LEMMA FrameBeside ==
  ASSUME NEW r, Frame(p, p', r)
  PROVE  Beside(r)
BY OtherRoots, OtherChunks DEF Beside

(* Thread t goes on with its work on other root chunks.                    *)
Aside(t, r) ==
  /\ \A c \in Chunk : c[1] # r => Onward(th'[t], th[t], c)
  /\ \A s \in Root : s # r => ~Merging(th[t], s) /\ th[t].r # s /\ th'[t].r # s

LEMMA StaysIn ==
  ASSUME NEW t, NEW r \in Root, WorksIn(th[t], r), WorksIn(th'[t], r)
  PROVE  Aside(t, r)
BY MergesIn DEF Aside, WorksIn, Onward

LEMMA OnRoot ==
  ASSUME TypeInv, Whole, NEW t \in Thread, Moved(t), NEW r \in Root, Beside(r), Aside(t, r),
         \A c \in Chunk : c[1] # r => SameClients(c),
         \A s \in Root : s # r => /\ pma'[s] = pma[s] /\ (s \in th'[t].batch <=> s \in th[t].batch)
                                  /\ s \in th[t].batch /\ t \in readers => t \in readers',
         \A u \in Thread \ {t} : u \in readers => u \in readers',
         \A c \in family(r) : ChunkInv(c)', RootInv(r)'
  PROVE  Whole'
<1>1. ASSUME NEW c \in Chunk PROVE ChunkInv(c)'
  <2>1. CASE c[1] = r
    BY <2>1, FamilyFacts
  <2>2. CASE c[1] # r
    <3>1. SameChunk(c) /\ SameClients(c) /\ ChunkInv(c)
      BY <2>2 DEF Whole, Beside
    <3>2. Onward(th'[t], th[t], c)
      BY <2>2 DEF Aside
    <3> QED BY <3>1, <3>2, ChunkKept
  <2> QED BY <2>1, <2>2
<1>2. ASSUME NEW s \in Root, s # r PROVE RootInv(s)'
  <2>1. SameRoot(s) /\ RootInv(s) /\ readers \subseteq Thread
    BY <1>2 DEF Whole, Beside, TypeInv, TypeOK
  <2>2. ~Merging(th[t], s) /\ th[t].r # s /\ th'[t].r # s
    BY <1>2 DEF Aside
  <2>3. \A c \in family(s) : Works(th'[t], c) => Works(th[t], c)
    BY <1>2, FamilyFacts DEF Aside, Onward
  <2>4. Steady(t, s)
    BY <1>2, <2>2, <2>3 DEF Steady, StillWorks, Merging, Returning, Pinning
  <2> QED BY <1>2, <2>1, <2>2, <2>4, RootKept
<1> QED BY <1>1, <1>2 DEF Whole

(* The threads that have a root chunk which is neither in eviction nor     *)
(* owned by PMA.                                                           *)
LEMMA RootUsers ==
  ASSUME TypeInv, Discipline, Whole, NEW r \in Root, ~p.in_eviction[r], p.state[root_chunk(r)] # "PMA_OWNED"
  PROVE  \A u \in Thread : /\ r \notin th[u].batch
                           /\ th[u].r = r => /\ th[u].pc \in RootWork /\ Works(th[u], root_chunk(r))
                                             /\ p.state[root_chunk(r)] = "TEMP_PINNED"
<1> SUFFICES ASSUME NEW u \in Thread
             PROVE  /\ r \notin th[u].batch
                    /\ th[u].r = r => /\ th[u].pc \in RootWork /\ Works(th[u], root_chunk(r))
                                      /\ p.state[root_chunk(r)] = "TEMP_PINNED"
  OBVIOUS
<1>1. RootInv(r) /\ root_chunk(r) \in Chunk /\ NoRoot \notin Root
  BY ChunkFacts, Threads DEF Whole
<1>2. r \notin th[u].batch
  BY <1>1 DEF RootInv, Batched
<1>3. ASSUME th[u].r = r
      PROVE  /\ th[u].pc \in RootWork /\ Works(th[u], root_chunk(r))
             /\ p.state[root_chunk(r)] = "TEMP_PINNED"
  <2>1. TidyOf(th[u]) /\ Progress(th[u], r)
    BY <1>1, <1>3, ThreadOrderly DEF RootInv, Uses
  <2>2. th[u].pc \in RootSteps \ {"relock_error", "abort", "abort_walk"}
    BY <1>1, <1>3, <2>1 DEF TidyOf
  <2>3. th[u].pc \notin Evictors /\ th[u].pc \notin {"pma_free", "pages_next"}
    BY <2>1 DEF Progress
  <2>4. th[u].pc \in RootWork
    BY <2>2, <2>3 DEF RootSteps, Evictors, RootWork
  <2>5. Works(th[u], root_chunk(r))
    BY <1>3, <2>4 DEF Works
  <2>6. WorkedBy(u, root_chunk(r))
    BY <1>1 DEF Whole, ChunkInv
  <2> QED BY <2>4, <2>5, <2>6 DEF WorkedBy
<1> QED BY <1>2, <1>3

Unused(r) == \A u \in Thread : th[u].r # r /\ r \notin th[u].batch

LEMMA UnusedUses ==
  ASSUME NEW r, Unused(r)
  PROVE  \A u \in Thread : Uses(u, r) /\ Batched(u, r)
BY DEF Unused, Uses, Batched

LEMMA UnusedStill ==
  ASSUME NEW t \in Thread, Moved(t), NEW r, Unused(r), th'[t].r # r, r \notin th'[t].batch
  PROVE  Unused(r)' /\ \A u \in Thread : Uses(u, r)' /\ Batched(u, r)'
BY DEF Unused, Moved, Uses, Batched

(* A chunk that nobody holds.                                              *)
LEMMA NobodyHolds ==
  ASSUME NEW c \in Chunk, \A u \in Thread : ~Has(u, c)', \A b \in Block : c \notin used_chunks'[b],
         p'.state[c] # "ALLOCATED", p'.state[c] = "TEMP_PINNED" => p'.in_eviction[c[1]]
  PROVE  ChunkInv(c)'
<1>1. ASSUME NEW u \in Thread PROVE OwnedBy(u, c)' /\ WorkedBy(u, c)'
  BY DEF Has, OwnedBy, Owns, WorkedBy
<1> QED BY <1>1 DEF ChunkInv

LEMMA StillUnheld ==
  ASSUME NEW t \in Thread, Moved(t), NEW c \in Chunk, ChunkInv(c), SameClients(c),
         p.state[c] \notin {"TEMP_PINNED", "ALLOCATED"}, ~Works(th'[t], c)
  PROVE  /\ \A u \in Thread : ~Has(u, c)' /\ ~Has(u, c)
         /\ \A b \in Block : c \notin used_chunks'[b]
         /\ p'.state[c] \notin {"TEMP_PINNED", "ALLOCATED"} => ChunkInv(c)'
<1>1. \A u \in Thread : ~Has(u, c)
  BY Holders
<1>2. \A u \in Thread : ~Has(u, c)'
  BY <1>1 DEF Has, Owns, SameClients, Moved
<1>3. \A b \in Block : c \notin used_chunks'[b]
  <2>1. \A b \in Block : c \in used_chunks[b] => c \in chunks[b]
    BY Threads DEF ChunkInv, OwnedBy
  <2> QED BY <1>1, <2>1, Threads DEF Has, Owns, SameClients
<1>4. p'.state[c] \notin {"TEMP_PINNED", "ALLOCATED"} => ChunkInv(c)'
  BY <1>2, <1>3, NobodyHolds
<1> QED BY <1>1, <1>2, <1>3, <1>4

(* An allocation takes a free chunk.                                       *)
LEMMA ChunkTaken ==
  ASSUME TypeInv, Discipline, Whole, NEW t \in Thread, Moved(t), UNCHANGED <<pma, readers, clients>>,
         th[t].pc \notin Working, th[t].r \notin Root, th'[t].r = th[t].r, th'[t].batch = th[t].batch,
         NEW m, NEW size, m = mem_type(t), NEW s \in SUBSET Stale(m, size),
         NEW c \in free_list(m, size) \ Stale(m, size), p' = claim(skipping(s), c, no_decision),
         th'[t].c = c, th'[t].pc \in {"done", "split"}
  PROVE  Whole'
<1> DEFINE q == skipping(s)
           sub == c # root_chunk(c[1])
<1>1. PICK r \in Root : r = c[1]
  BY StateTyped, FreeListed, ChunkFacts
<1>2. c \in Chunk /\ c \in p.free /\ p.type[r] = m /\ ~p.in_eviction[r] /\ p \in PmmType /\ ListsInjective(p)
  BY <1>1, StateTyped, FreeListed DEF Stale
<1>3. /\ SameLists(p, q) /\ q.free = p.free \ s /\ q.state = p.state /\ q.va_block = p.va_block
      /\ q.pinned_leaf_chunks = p.pinned_leaf_chunks /\ q.type = p.type /\ q.allocated = p.allocated
      /\ q.in_eviction = p.in_eviction
  BY <1>2, Skipped
<1>4. \A e \in s : e \in Chunk /\ p.in_eviction[e[1]] /\ e # root_chunk(e[1])
  <2> SUFFICES ASSUME NEW e \in s PROVE e \in Chunk /\ p.in_eviction[e[1]] /\ e # root_chunk(e[1])
    OBVIOUS
  <2>1. e \in Chunk /\ e \in p.free /\ p.in_eviction[e[1]] /\ e[1] \in Root
    BY <1>2, FreeListed, ChunkFacts DEF Stale
  <2>2. Listing(e[1])
    BY <2>1 DEF Whole, RootInv
  <2> QED BY <2>1, <2>2 DEF Listing, linked
<1> HIDE DEF q
<1>5. /\ Updated(q, p', c) /\ Frame(q, p', r)
      /\ \A e \in Chunk : p'.state[e] = IF e = c THEN "TEMP_PINNED" ELSE p.state[e]
      /\ p'.va_block = p.va_block /\ p'.type = p.type /\ p'.in_eviction = p.in_eviction
      /\ p'.allocated[r] = p.allocated[r] + (IF sub THEN 1 ELSE 0)
      /\ p'.pinned_leaf_chunks[r] = p.pinned_leaf_chunks[r] + (IF sub THEN 1 ELSE 0)
  <2>1. q \in PmmType /\ ListsInjective(q) /\ p' = claim(q, c, no_decision)
    BY <1>3 DEF SameLists, q
  <2> QED BY <1>1, <1>2, <1>3, <2>1, Claimed
<1>6. Beside(r)
  <2>1. \A e \in Chunk : e[1] # r => SameChunk(e)
    <3>1. \A e \in Chunk : e[1] \in Root /\ root_chunk(e[1]) \in Chunk /\ root_chunk(e[1])[1] = e[1]
      BY ChunkFacts
    <3> QED BY <1>1, <1>3, <1>5, <3>1 DEF SameChunk
  <2>2. ASSUME NEW z \in Root, z # r PROVE SameRoot(z)
    <3>1. family(z) \subseteq Chunk /\ (\A e \in family(z) : e[1] = z) /\ root_chunk(z) \in family(z)
      BY FamilyFacts DEF family
    <3>2. root_chunk(z) \in q.free <=> root_chunk(z) \in p.free
      <4>1. root_chunk(z)[1] = z
        BY ChunkFacts
      <4>2. root_chunk(z) \notin s
        BY <1>4, <4>1
      <4> QED BY <1>3, <4>2
    <3> QED BY <1>3, <1>5, <2>2, <3>1, <3>2 DEF Frame, SameRoot, SameLists
  <2> QED BY <2>1, <2>2 DEF Beside
<1>7. RootInv(r) /\ Tree(r) /\ Listing(r) /\ Counted(r) /\ PmaOf(r)
  BY DEF Whole, RootInv
<1>8. c \in family(r) /\ family(r) \subseteq Chunk /\ root_chunk(r) \in family(r) /\ root_chunk(r)[1] = r
      /\ subchunks(r) \subseteq family(r) /\ root_chunk(r) \notin subchunks(r)
  BY <1>1, <1>2, FamilyFacts, ChunkFacts DEF family
<1>9. p.state[c] = "FREE" /\ p.state[root_chunk(r)] = IF sub THEN "IS_SPLIT" ELSE "FREE"
  BY <1>1, <1>2, <1>7, <1>8 DEF Tree, family
<1>10. /\ \A e \in Chunk : ~Works(th[t], e)
       /\ \A e \in Chunk : Works(th'[t], e) <=> e = c
  BY <1>2, Workless DEF Works, HoldWork, FreeWork, RootWork
<1>11. \A e \in Chunk : SameClients(e)
  BY ClientsStill
<1>12. ASSUME NEW e \in family(r), e # c PROVE ChunkInv(e)'
  <2>1. ChunkInv(e) /\ e \in Chunk /\ e[1] = r /\ ~Works(th'[t], e)
    BY <1>8, <1>10, <1>12, FamilyFacts DEF Whole
  <2>2. CASE sub
    <3>1. SameChunk(e)
      BY <1>1, <1>5, <1>8, <1>12, <2>1, <2>2 DEF SameChunk
    <3> QED BY <1>10, <1>11, <2>1, <3>1, ChunkKept DEF Onward
  <2>3. CASE ~sub
    <3>1. p.state[e] = "NO_CHUNK" /\ p'.state[e] = "NO_CHUNK"
      BY <1>1, <1>5, <1>7, <1>8, <1>9, <1>12, <2>1, <2>3 DEF Tree, family
    <3> QED BY <1>11, <2>1, <3>1, StillUnheld
  <2> QED BY <2>2, <2>3
<1>13. ChunkInv(c)'
  <2>1. ChunkInv(c) /\ \A u \in Thread : ~Has(u, c)
    BY <1>2, <1>9, Holders DEF Whole
  <2>2. OwnedBy(t, c)'
    <3>1. ~Owns(t, c)' /\ (t \in Block => c \notin used_chunks'[t])
      BY <1>2, <1>11, <2>1 DEF ChunkInv, OwnedBy, Has, Owns, SameClients
    <3> QED BY <3>1 DEF OwnedBy, Owns
  <2>3. WorkedBy(t, c)' /\ Has(t, c)'
    BY <1>1, <1>2, <1>5, <1>10 DEF WorkedBy, Has, RootWork, HoldWork, FreeWork, mem_type
  <2>4. \A u \in Thread : u # t => ~Has(u, c) /\ SameOwner(u, c)
    BY <1>2, <1>11, <2>1 DEF SameClients, SameOwner
  <2>5. p'.state[c] = "TEMP_PINNED"
    BY <1>2, <1>5
  <2> QED BY <1>2, <2>1, <2>2, <2>3, <2>4, <2>5, OneHolder
<1>14. /\ linked(p', r) /\ UpdatedListing(p', c, p.list_state[r])
       /\ \A e \in Chunk : e # root_chunk(r) /\ e # c => (e \in p'.free <=> e \in q.free)
       /\ sub => c \notin p'.free
  <2>1. linked(q, r)
    <3>1. root_chunk(r) \in q.free <=> root_chunk(r) \in p.free
      BY <1>2, <1>3, <1>4, <1>8
    <3> QED BY <1>3, <1>7, <3>1 DEF Listing, linked, SameLists
  <2>2. q.list_state[r] = p.list_state[r]
    BY <1>3 DEF SameLists
  <2> QED BY <1>1, <1>2, <1>5, <2>1, <2>2 DEF Updated
<1>15. AllocatedIn(p, r) \in SUBSET subchunks(r) /\ PinnedIn(p, r) \in SUBSET subchunks(r)
  BY DEF AllocatedIn, PinnedIn
<1>16. sub => /\ p.pinned_leaf_chunks[r] = Cardinality(PinnedIn(p, r)) /\ p.pinned_leaf_chunks[r] \in Nat
              /\ p.allocated[r] = Cardinality(AllocatedIn(p, r)) /\ p.allocated[r] \in Nat
  BY <1>2, <1>7, <1>9, <1>15, SomeSubchunks DEF Counted
<1>17. ~Listed(p', r) /\ p'.list_state[r] # "FREE"
  <2>1. CASE sub
    <3>1. p'.state[root_chunk(r)] = "IS_SPLIT" /\ p'.pinned_leaf_chunks[r] > 0
      BY <1>1, <1>5, <1>8, <1>9, <1>16, <2>1
    <3>2. chunk_is_root_chunk_pinned(p', r)
      BY <3>1 DEF chunk_is_root_chunk_pinned
    <3>3. p.type[r] # "USER" => ~Listed(p, r) /\ p.list_state[r] # "FREE"
      BY <1>2, <1>7, <1>9, <2>1 DEF Listing
    <3> QED BY <1>1, <1>5, <1>14, <2>1, <3>1, <3>2, <3>3 DEF UpdatedListing, Listed
  <2>2. CASE ~sub
    <3>1. p'.state[root_chunk(r)] = "TEMP_PINNED"
      BY <1>1, <1>2, <1>5, <2>2
    <3> QED BY <1>1, <1>14, <2>2, <3>1 DEF UpdatedListing, Listed
  <2> QED BY <2>1, <2>2
<1>18. Tree(r)'
  <2>1. p'.state[root_chunk(r)] = IF sub THEN "IS_SPLIT" ELSE "TEMP_PINNED"
    BY <1>1, <1>2, <1>5, <1>8, <1>9
  <2>2. root_chunk(r) \notin p'.free
    BY <1>14, <1>17 DEF linked
  <2>3. \A e \in family(r) : e \in p'.free => p'.state[e] = "FREE"
    BY <1>1, <1>3, <1>5, <1>7, <1>8, <1>14, <2>2 DEF Tree
  <2>4. \A e \in subchunks(r) : IF sub THEN p'.state[e] \in {"FREE", "TEMP_PINNED", "ALLOCATED"}
                                ELSE p'.state[e] = "NO_CHUNK"
    BY <1>1, <1>5, <1>7, <1>8, <1>9 DEF Tree
  <2> QED BY <2>1, <2>3, <2>4 DEF Tree
<1>19. Listing(r)'
  <2>1. ~InUse(r)'
    <3>1. CASE sub
      <4>1. p'.state[root_chunk(r)] = "IS_SPLIT" /\ p'.pinned_leaf_chunks[r] > 0
        BY <1>1, <1>5, <1>8, <1>9, <1>16, <3>1
      <4> QED BY <4>1 DEF InUse
    <3>2. CASE ~sub
      BY <1>1, <1>2, <1>5, <3>2 DEF InUse
    <3> QED BY <3>1, <3>2
  <2>2. p'.state[root_chunk(r)] # "FREE"
    BY <1>1, <1>2, <1>5, <1>8, <1>9
  <2> QED BY <1>2, <1>5, <1>14, <1>17, <2>1, <2>2 DEF Listing
<1>20. Counted(r)'
  <2>1. CASE sub
    <3>1. c \in subchunks(r) /\ c \notin AllocatedIn(p, r) /\ c \notin PinnedIn(p, r)
      BY <1>1, <1>2, <1>9, <2>1, ChunkFacts DEF AllocatedIn, PinnedIn
    <3>2. AllocatedIn(p', r) = AllocatedIn(p, r) \cup {c} /\ PinnedIn(p', r) = PinnedIn(p, r) \cup {c}
      BY <1>5, <1>8, <3>1 DEF AllocatedIn, PinnedIn
    <3>3. /\ Cardinality(AllocatedIn(p', r)) = Cardinality(AllocatedIn(p, r)) + 1
          /\ Cardinality(PinnedIn(p', r)) = Cardinality(PinnedIn(p, r)) + 1
      BY <1>15, <3>1, <3>2, SubchunkAdded
    <3> QED BY <1>5, <1>16, <2>1, <3>3 DEF Counted
  <2>2. CASE ~sub
    BY <1>1, <1>2, <1>5, <2>2 DEF Counted
  <2> QED BY <2>1, <2>2
<1>21. Evicting(r)' /\ PmaOf(r)'
  <2>1. p.state[root_chunk(r)] # "PMA_OWNED" /\ p'.state[root_chunk(r)] # "PMA_OWNED"
    BY <1>2, <1>5, <1>8, <1>9
  <2>2. Pinned(r)' <=> Pinned(r)
    BY PinsStill DEF Working, HoldWork, FreeWork, RootWork
  <2> QED BY <1>2, <1>5, <1>7, <2>1, <2>2 DEF Evicting, PmaOf
<1>22. \A u \in Thread : Uses(u, r)' /\ Batched(u, r)'
  <2>1. Unused(r)
    BY <1>2, <1>9, RootUsers DEF Unused
  <2> QED BY <2>1, UnusedStill DEF Unused
<1>23. RootInv(r)'
  BY <1>18, <1>19, <1>20, <1>21, <1>22 DEF RootInv
<1>24. Aside(t, r)
  <2>1. WorksIn(th[t], r) /\ WorksIn(th'[t], r)
    BY <1>1, <1>10 DEF WorksIn
  <2> QED BY <2>1, StaysIn
<1> QED BY <1>6, <1>11, <1>12, <1>13, <1>23, <1>24, OnRoot

LEMMA FoundOrNot ==
  ASSUME TypeInv, Discipline, Whole, NEW t \in Thread, Moved(t), UNCHANGED <<pma, readers, clients>>,
         th[t].pc \in {"claim", "claim_again", "claim_bigger"}, th'[t].r = th[t].r, th'[t].batch = th[t].batch,
         NEW size, NEW o \in claims(mem_type(t), size), p' = o[1], th'[t].c = o[2],
         th'[t].pc \in IF o[2] # NoChunk THEN {"done", "split"} ELSE {"pma_alloc", "lock_split", "claim_bigger"}
  PROVE  Whole'
<1> DEFINE stale == Stale(mem_type(t), size)
<1>1. p \in PmmType /\ ListsInjective(p) /\ TidyOf(th[t]) /\ NoRoot \notin Root /\ NoChunk \notin Chunk
  BY StateTyped, ThreadOrderly, Threads
<1>2. th[t].pc \notin Working /\ th[t].r \notin Root
  BY <1>1 DEF Working, HoldWork, FreeWork, RootWork, TidyOf, RootSteps
<1>3. CASE o[2] = NoChunk /\ o[1] = skipping(stale)
  <2>1. /\ SameLists(p, p') /\ p'.free = p.free \ stale /\ p'.state = p.state /\ p'.va_block = p.va_block
        /\ p'.pinned_leaf_chunks = p.pinned_leaf_chunks /\ p'.type = p.type /\ p'.allocated = p.allocated
        /\ p'.in_eviction = p.in_eviction
    BY <1>1, <1>3, Skipped
  <2>2. \A r \in Root : root_chunk(r) \notin stale
    <3> SUFFICES ASSUME NEW r \in Root, root_chunk(r) \in stale PROVE FALSE
      OBVIOUS
    <3>1. root_chunk(r) \in p.free /\ p.in_eviction[r]
      BY <1>1, FreeListed, ChunkFacts DEF Stale
    <3>2. Listing(r)
      BY DEF Whole, RootInv
    <3> QED BY <3>1, <3>2 DEF Listing, linked
  <2>3. Unmoved
    BY <2>1, <2>2 DEF Unmoved, SameChunk, SameRoot, SameLists
  <2>4. Carry(th'[t], th[t])
    BY <1>2, <1>3 DEF Carry, Working, HoldWork, FreeWork, RootWork
  <2> QED BY <1>2, <2>3, <2>4, QuietStep
<1>4. ASSUME NEW s \in SUBSET stale, NEW c \in free_list(mem_type(t), size) \ stale,
             o[2] = c, o[1] = claim(skipping(s), c, no_decision)
      PROVE  Whole'
  <2>1. o[2] # NoChunk
    BY <1>1, <1>4, FreeListed
  <2> QED BY <1>2, <1>4, <2>1, ChunkTaken
<1> QED BY <1>3, <1>4, ClaimCases

LEMMA ClaimWhole ==
  ASSUME TypeInv, Discipline, Whole, NEW t \in Thread, Claim(t)
  PROVE  Whole'
<1>1. th[t].pc = "claim" /\ UNCHANGED <<pma, readers, clients>>
  BY DEF Claim, at, pma_vars
<1> QED BY <1>1, ClaimStep, FoundOrNot

LEMMA ClaimAgainWhole ==
  ASSUME TypeInv, Discipline, Whole, NEW t \in Thread, ClaimAgain(t)
  PROVE  Whole'
<1>1. th[t].pc = "claim_again" /\ UNCHANGED <<pma, readers, clients>>
  BY DEF ClaimAgain, at, pma_vars
<1> QED BY <1>1, ClaimAgainStep, FoundOrNot

LEMMA ClaimBiggerWhole ==
  ASSUME TypeInv, Discipline, Whole, NEW t \in Thread, ClaimBigger(t)
  PROVE  Whole'
<1>1. th[t].pc = "claim_bigger" /\ UNCHANGED <<pma, readers, clients>>
  BY DEF ClaimBigger, at, pma_vars
<1> QED BY <1>1, ClaimBiggerStep, FoundOrNot

(* The other chunks of a root chunk when one of them, c, changes.          *)
LEMMA Siblings ==
  ASSUME Whole, NEW t \in Thread, Moved(t), NEW c \in Chunk, NEW r \in Root, r = c[1],
         \A e \in Chunk : e # c => p'.state[e] = p.state[e] /\ p'.va_block[e] = p.va_block[e],
         p'.type[r] = p.type[r], p'.in_eviction[r] = p.in_eviction[r],
         c = root_chunk(r) => p.state[c] # "IS_SPLIT",
         \A e \in Chunk : e # c => SameClients(e) /\ Onward(th'[t], th[t], e)
  PROVE  \A e \in family(r) : e # c => ChunkInv(e)'
<1> SUFFICES ASSUME NEW e \in family(r), e # c PROVE ChunkInv(e)'
  OBVIOUS
<1>1. e \in Chunk /\ e[1] = r /\ root_chunk(r) \in Chunk
  BY FamilyFacts, ChunkFacts
<1>2. e \in Chunk /\ e[1] = r /\ ChunkInv(e) /\ root_chunk(r) \in Chunk
  BY <1>1 DEF Whole
<1>3. CASE c # root_chunk(r)
  <2>1. SameChunk(e)
    BY <1>2, <1>3 DEF SameChunk
  <2> QED BY <1>2, <2>1, ChunkKept
<1>4. CASE c = root_chunk(r)
  <2>1. Tree(r) /\ e \in subchunks(r)
    BY <1>4 DEF Whole, RootInv, family
  <2>2. p.state[e] = "NO_CHUNK" /\ p'.state[e] = "NO_CHUNK"
    BY <1>2, <1>4, <2>1 DEF Tree
  <2>3. ~Works(th'[t], e)
    BY <1>2, <2>2, Holders DEF Has, Onward
  <2> QED BY <1>2, <2>2, <2>3, StillUnheld
<1> QED BY <1>3, <1>4

(* A pinned chunk keeps its root off the lists, unless its holder is just  *)
(* merging.                                                                *)
LEMMA PinnedUnlisted ==
  ASSUME Whole, NEW c \in Chunk, NEW r \in Root, r = c[1], ~p.in_eviction[r],
         p.state[c] = "TEMP_PINNED", NEW t \in Thread, Has(t, c), ~Merging(th[t], r), p \in PmmType
  PROVE  /\ ~Listed(p, r) /\ p.list_state[r] \in {"NONE", "EVICTION"}
         /\ c # root_chunk(r) => p.state[root_chunk(r)] = "IS_SPLIT"
<1>1. Tree(r) /\ Listing(r) /\ Counted(r)
  BY DEF Whole, RootInv
<1>2. c # root_chunk(r) => c \in subchunks(r) /\ c[2] # 0
  BY ChunkFacts
<1>3. root_chunk(r) \in Chunk /\ root_chunk(r)[1] = r
  BY ChunkFacts
<1>4. c # root_chunk(r) => p.state[root_chunk(r)] = "IS_SPLIT"
  BY <1>1, <1>2 DEF Tree
<1>5. \A u \in Thread : u # t => ~Has(u, c)
  BY Holders DEF Whole
<1>6. ~InUse(r)
  <2>1. CASE c = root_chunk(r)
    BY <2>1 DEF InUse
  <2>2. CASE c # root_chunk(r)
    <3>1. PinnedIn(p, r) \in SUBSET subchunks(r) /\ c \in PinnedIn(p, r)
      BY <1>2, <2>2 DEF PinnedIn
    <3>2. p.pinned_leaf_chunks[r] = Cardinality(PinnedIn(p, r))
      BY <1>1, <1>4, <2>2 DEF Counted
    <3>3. p.pinned_leaf_chunks[r] > 0
      BY <3>1, <3>2, SubchunksPresent
    <3> QED BY <1>4, <2>2, <3>3 DEF InUse
  <2> QED BY <2>1, <2>2
<1>7. ASSUME NEW u \in Thread, Merging(th[u], r) PROVE FALSE
  <2>1. u # t
    BY <1>7
  <2>2. ~Works(th[u], c)
    BY <1>5, <2>1 DEF Has
  <2>3. CASE th[u].pc = "merge_locked" /\ th[u].c[1] = r
    <3>1. c = root_chunk(r)
      BY <1>2, <2>2, <2>3 DEF Works
    <3>2. PICK e \in Chunk : e[1] = r /\ e[2] # 0
      BY ChunkFacts
    <3>3. Works(th[u], e) /\ WorkedBy(u, e)
      BY <2>3, <3>2 DEF Works, Whole, ChunkInv
    <3> QED BY <2>3, <3>1, <3>2, <3>3 DEF WorkedBy
  <2>4. CASE th[u].pc = "free_locked" /\ th[u].c = root_chunk(r)
    <3>1. Works(th[u], root_chunk(r))
      BY <2>4 DEF Works, FreeWork
    <3>2. c # root_chunk(r)
      BY <2>2, <3>1
    <3>3. Has(u, root_chunk(r))
      BY <3>1 DEF Has
    <3> QED BY <1>3, <1>4, <3>2, <3>3, Holders DEF Whole
  <2> QED BY <1>7, <2>3, <2>4 DEF Merging
<1>8. ~Listed(p, r)
  BY <1>1, <1>6, <1>7 DEF Listing
<1>9. p.list_state[r] # "FREE"
  BY <1>1, <1>4 DEF Listing
<1>10. p.list_state[r] \in ListStates
  BY Fields
<1> QED BY <1>4, <1>8, <1>9, <1>10 DEF Listed, ListStates

(* Nobody evicts or returns a root chunk in which another thread holds a   *)
(* chunk.                                                                  *)
LEMMA HeldUnused ==
  ASSUME TypeInv, Discipline, Whole, NEW c \in Chunk, NEW r \in Root, r = c[1], ~p.in_eviction[r],
         NEW t \in Thread, Has(t, c), th[t].pc \notin RootWork
  PROVE  Unused(r) /\ p.state[root_chunk(r)] = IF c = root_chunk(r) THEN p.state[c] ELSE "IS_SPLIT"
<1>1. p.state[c] \in {"TEMP_PINNED", "ALLOCATED"} /\ \A u \in Thread : u # t => ~Has(u, c)
  BY Holders DEF Whole
<1>2. c # root_chunk(r) => c \in subchunks(r)
  BY ChunkFacts
<1>3. c # root_chunk(r) => p.state[root_chunk(r)] = "IS_SPLIT"
  BY <1>1, <1>2 DEF Whole, RootInv, Tree
<1>4. p.state[root_chunk(r)] # "PMA_OWNED"
  BY <1>1, <1>3
<1>5. ASSUME NEW u \in Thread PROVE th[u].r # r /\ r \notin th[u].batch
  BY <1>1, <1>3, <1>4, RootUsers DEF Has
<1> QED BY <1>3, <1>5 DEF Unused

LEMMA UnpinCounted ==
  ASSUME NEW r \in Root, NEW c \in subchunks(r), ~p.in_eviction[r], Counted(r),
         p.state[root_chunk(r)] = "IS_SPLIT", p.state[c] = "TEMP_PINNED",
         \A e \in subchunks(r) : p'.state[e] = IF e = c THEN "ALLOCATED" ELSE p.state[e],
         p'.allocated[r] = p.allocated[r], p'.pinned_leaf_chunks[r] = p.pinned_leaf_chunks[r] - 1
  PROVE  Counted(r)' /\ p'.pinned_leaf_chunks[r] \in Nat
<1>1. AllocatedIn(p', r) = AllocatedIn(p, r) /\ PinnedIn(p', r) = PinnedIn(p, r) \ {c} /\ c \in PinnedIn(p, r)
  BY DEF AllocatedIn, PinnedIn
<1>2. PinnedIn(p, r) \in SUBSET subchunks(r)
  BY DEF PinnedIn
<1>3. Cardinality(PinnedIn(p', r)) = Cardinality(PinnedIn(p, r)) - 1
  BY <1>1, <1>2, SubchunkRemoved
<1>4. p.pinned_leaf_chunks[r] = Cardinality(PinnedIn(p, r)) /\ Cardinality(PinnedIn(p, r)) > 0
      /\ Cardinality(PinnedIn(p, r)) \in Nat
  BY <1>1, <1>2, SomeSubchunks, SubchunksPresent DEF Counted
<1> QED BY <1>1, <1>3, <1>4 DEF Counted

LEMMA KernelDoneWhole ==
  ASSUME TypeInv, Discipline, Whole, NEW t \in Thread, KernelDone(t)
  PROVE  Whole'
<1>0. PICK c \in Chunk : c = th[t].c
  <2>1. th[t].pc = "done"
    BY DEF KernelDone, at
  <2> QED BY <2>1, ThreadOrderly DEF FlowOf, Locals, ChunkSteps
<1> DEFINE sub == c # root_chunk(c[1])
<1>1. /\ th[t].pc = "done" /\ t = KThread /\ t \notin Block /\ p' = chunk_unpin(p, c, "ALLOCATED")
      /\ kchunks' = kchunks \cup {c} /\ UNCHANGED <<pma, readers, chunks, used_chunks, free_chunks>>
  BY <1>0, Threads DEF KernelDone, at, pma_vars
<1>2. Moved(t) /\ th'[t] = idle
  BY KernelDoneStep
<1>3. PICK r \in Root : r = c[1]
  BY ChunkFacts
<1>4. p \in PmmType /\ ListsInjective(p) /\ TidyOf(th[t]) /\ NoRoot \notin Root
  BY StateTyped, ThreadOrderly, Threads
<1>5. /\ SameLists(p, p') /\ p'.free = p.free
      /\ \A e \in Chunk : p'.state[e] = IF e = c THEN "ALLOCATED" ELSE p.state[e]
      /\ p'.va_block = p.va_block /\ p'.type = p.type /\ p'.allocated = p.allocated
      /\ \A s \in Root : p'.pinned_leaf_chunks[s] =
           IF s # r THEN p.pinned_leaf_chunks[s] ELSE IF sub THEN p.pinned_leaf_chunks[r] - 1
           ELSE p.pinned_leaf_chunks[r]
      /\ p'.in_eviction = p.in_eviction
  <2>1. "ALLOCATED" \in ChunkStates
    BY DEF ChunkStates
  <2> QED BY <1>1, <1>3, <1>4, <2>1, ChunkUnpinned
<1>6. Frame(p, p', r)
  BY <1>3, <1>5 DEF Frame, SameLists
<1>7. /\ \A e \in Chunk : Works(th[t], e) <=> e = c
      /\ \A e \in Chunk : ~Works(th'[t], e)
  BY <1>0, <1>1, <1>2, IdleWorkless DEF Works, HoldWork, FreeWork, RootWork
<1>8. ChunkInv(c) /\ Has(t, c) /\ OwnedBy(t, c) /\ WorkedBy(t, c) /\ ~Owns(t, c)
  BY <1>7 DEF Whole, ChunkInv, OwnedBy, Has
<1>9. p.state[c] = "TEMP_PINNED" /\ ~p.in_eviction[r] /\ p.type[r] = "KERNEL"
  BY <1>1, <1>3, <1>7, <1>8 DEF WorkedBy, HoldWork, RootWork, mem_type
<1>10. Unused(r) /\ p.state[root_chunk(r)] = IF sub THEN "IS_SPLIT" ELSE "TEMP_PINNED"
  BY <1>1, <1>3, <1>8, <1>9, HeldUnused DEF RootWork
<1>11. \A e \in Chunk : e # c => SameClients(e) /\ Onward(th'[t], th[t], e)
  BY <1>1, <1>7 DEF SameClients, Onward
<1>12. \A e \in family(r) : e # c => ChunkInv(e)'
  BY <1>2, <1>3, <1>5, <1>9, <1>11, Siblings
<1>13. ChunkInv(c)'
  <2>1. Owns(t, c)' /\ Has(t, c)'
    BY <1>1 DEF Owns, Has
  <2>2. OwnedBy(t, c)'
    BY <1>1, <1>3, <1>5, <1>7, <1>9 DEF OwnedBy, mem_type
  <2>3. WorkedBy(t, c)'
    BY <1>7 DEF WorkedBy
  <2>4. \A u \in Thread : u # t => ~Has(u, c) /\ SameOwner(u, c)
    BY <1>1, <1>8, Holders DEF SameOwner
  <2>5. p'.state[c] = "ALLOCATED"
    BY <1>5
  <2> QED BY <1>2, <1>8, <2>1, <2>2, <2>3, <2>4, <2>5, OneHolder
<1>14. Tree(r) /\ Listing(r) /\ Counted(r) /\ PmaOf(r)
  BY DEF Whole, RootInv
<1>15. /\ family(r) \subseteq Chunk /\ root_chunk(r) \in family(r) /\ subchunks(r) \subseteq family(r)
       /\ root_chunk(r) \notin subchunks(r) /\ (sub => c \in subchunks(r))
  BY <1>3, FamilyFacts, ChunkFacts DEF family
<1>16. p'.state[root_chunk(r)] = IF sub THEN "IS_SPLIT" ELSE "ALLOCATED"
  BY <1>3, <1>5, <1>10, <1>15
<1>17. Tree(r)'
  BY <1>3, <1>5, <1>9, <1>10, <1>14, <1>15, <1>16 DEF Tree
<1>18. Listing(r)'
  <2>1. linked(p', r) /\ p'.list_state[r] = p.list_state[r]
    BY <1>5, <1>14 DEF Listing, linked, SameLists
  <2>2. ~Listed(p, r) /\ p.list_state[r] # "FREE"
    BY <1>9, <1>10, <1>14 DEF Listing
  <2> QED BY <1>5, <1>9, <1>16, <2>1, <2>2 DEF Listing, Listed, InUse
<1>19. Counted(r)'
  <2>1. CASE sub
    BY <1>3, <1>5, <1>9, <1>10, <1>14, <1>15, <2>1, UnpinCounted
  <2>2. CASE ~sub
    BY <1>16, <2>2 DEF Counted
  <2> QED BY <2>1, <2>2
<1>20. Evicting(r)' /\ PmaOf(r)'
  <2>1. Pinned(r)' <=> Pinned(r)
    BY <1>1, <1>2, IdleTyped, PinsStill
  <2> QED BY <1>1, <1>5, <1>9, <1>10, <1>14, <1>16, <2>1 DEF Evicting, PmaOf
<1>21. \A u \in Thread : Uses(u, r)' /\ Batched(u, r)'
  BY <1>2, <1>10, IdleWorkless, UnusedStill
<1>22. RootInv(r)'
  BY <1>17, <1>18, <1>19, <1>20, <1>21 DEF RootInv
<1>23. Aside(t, r)
  <2>1. th[t].r = NoRoot
    BY <1>1, <1>4 DEF TidyOf, RootSteps
  <2>2. WorksIn(th[t], r) /\ WorksIn(th'[t], r)
    BY <1>2, <1>3, <1>4, <1>7, <2>1, IdleWorkless DEF WorksIn
  <2> QED BY <2>2, StaysIn
<1>24. th[t].batch = {}
  BY <1>1, ThreadOrderly, Courses DEF TidyOf, AllocSteps
<1>25. \A e \in family(r) : ChunkInv(e)'
  BY <1>12, <1>13
<1>26. \A e \in Chunk : e[1] # r => SameClients(e)
  BY <1>3, <1>11
<1> QED BY <1>1, <1>2, <1>6, <1>22, <1>23, <1>24, <1>25, <1>26, IdleWorkless, FrameBeside, OnRoot

LEMMA UnpinWhole ==
  ASSUME TypeInv, Discipline, Whole, NEW b \in Block, Unpin(b)
  PROVE  Whole'
<1>0. PICK c \in used_chunks[b], d \in Decisions :
        /\ p' = gpu_unpin_temp(p, c, b, d)
        /\ used_chunks' = [used_chunks EXCEPT ![b] = used_chunks[b] \ {c}]
  BY DEF Unpin
<1> DEFINE sub == c # root_chunk(c[1])
<1>1. /\ b \in Thread /\ th' = th /\ Moved(b) /\ th[b].pc = "idle"
      /\ UNCHANGED <<pma, readers, chunks, free_chunks, kchunks>>
  BY Threads DEF Unpin, pma_vars, at, Moved
<1>2. /\ chunks \in [Block -> SUBSET Chunk] /\ used_chunks \in [Block -> SUBSET Chunk] /\ c \in Chunk
  BY DEF TypeInv, TypeOK
<1>3. PICK r \in Root : r = c[1]
  BY <1>2, ChunkFacts
<1>4. p \in PmmType /\ ListsInjective(p) /\ TidyOf(th[b]) /\ NoRoot \notin Root
  BY <1>1, StateTyped, ThreadOrderly, Threads
<1>5. /\ Frame(p, p', r)
      /\ linked(p, r) /\ p.list_state[r] \in {"NONE", "EVICTION"} => linked(p', r)
      /\ UpdatedListing(p', c, IF sub THEN p.list_state[r] ELSE "NONE")
      /\ \A e \in Chunk : e # root_chunk(r) => (e \in p'.free <=> e \in p.free)
      /\ \A e \in Chunk : p'.state[e] = IF e = c THEN "ALLOCATED" ELSE p.state[e]
      /\ \A e \in Chunk : p'.va_block[e] = IF e = c THEN b ELSE p.va_block[e]
      /\ p'.type = p.type /\ p'.in_eviction = p.in_eviction /\ p'.allocated = p.allocated
      /\ p'.pinned_leaf_chunks[r] = p.pinned_leaf_chunks[r] - (IF sub THEN 1 ELSE 0)
  BY <1>0, <1>2, <1>3, <1>4, TempUnpinned
<1>6. ChunkInv(c) /\ OwnedBy(b, c) /\ Owns(b, c) /\ Has(b, c)
  BY <1>0, <1>1, <1>2 DEF Whole, ChunkInv, OwnedBy, Owns, Has
<1>7. p.state[c] = "TEMP_PINNED" /\ ~p.in_eviction[r] /\ p.type[r] = "USER" /\ c \in chunks[b]
      /\ c \notin free_chunks[b] /\ ~Works(th[b], c)
  BY <1>0, <1>3, <1>6 DEF OwnedBy, mem_type
<1>8. Unused(r) /\ p.state[root_chunk(r)] = IF sub THEN "IS_SPLIT" ELSE "TEMP_PINNED"
  BY <1>1, <1>2, <1>3, <1>6, <1>7, HeldUnused DEF RootWork
<1>9. \A e \in Chunk : e # c => SameClients(e) /\ Onward(th'[b], th[b], e)
  BY <1>0, <1>1, <1>2 DEF SameClients, Onward
<1>10. \A e \in family(r) : e # c => ChunkInv(e)'
  BY <1>1, <1>2, <1>3, <1>5, <1>7, <1>9, Siblings
<1>11. ChunkInv(c)'
  <2>1. c \notin used_chunks'[b] /\ c \in chunks'[b] /\ c \notin free_chunks'[b]
    BY <1>0, <1>1, <1>2, <1>7
  <2>2. Owns(b, c)' /\ Has(b, c)'
    BY <2>1 DEF Owns, Has
  <2>3. p'.state[c] = "ALLOCATED" /\ p'.va_block[c] = b /\ p'.type[c[1]] = "USER"
    BY <1>2, <1>3, <1>5, <1>7
  <2>4. OwnedBy(b, c)'
    BY <1>1, <1>7, <2>1, <2>3, Threads DEF OwnedBy, mem_type
  <2>5. WorkedBy(b, c)'
    BY <1>1, <1>7 DEF WorkedBy
  <2>6. \A u \in Thread : u # b => ~Has(u, c) /\ SameOwner(u, c)
    BY <1>0, <1>1, <1>2, <1>6, Holders DEF SameOwner
  <2> QED BY <1>1, <1>2, <1>6, <2>2, <2>3, <2>4, <2>5, <2>6, OneHolder
<1>12. Tree(r) /\ Listing(r) /\ Counted(r) /\ PmaOf(r)
  BY DEF Whole, RootInv
<1>13. /\ family(r) \subseteq Chunk /\ root_chunk(r) \in family(r) /\ subchunks(r) \subseteq family(r)
       /\ root_chunk(r) \notin subchunks(r) /\ (sub => c \in subchunks(r))
  BY <1>2, <1>3, FamilyFacts, ChunkFacts DEF family
<1>14. p'.state[root_chunk(r)] = IF sub THEN "IS_SPLIT" ELSE "ALLOCATED"
  BY <1>3, <1>5, <1>8, <1>13
<1>15. linked(p', r)
  <2>1. ~Merging(th[b], r)
    BY <1>1 DEF Merging
  <2>2. p.list_state[r] \in {"NONE", "EVICTION"}
    BY <1>1, <1>2, <1>3, <1>4, <1>6, <1>7, <2>1, PinnedUnlisted
  <2> QED BY <1>5, <1>12, <2>2 DEF Listing
<1>16. sub => Counted(r)' /\ p'.pinned_leaf_chunks[r] \in Nat
  BY <1>3, <1>5, <1>7, <1>8, <1>12, <1>13, UnpinCounted
<1>17. p'.list_state[r] # "FREE" /\ (Listed(p', r) <=> InUse(r)')
  <2>1. CASE sub
    <3>1. chunk_is_root_chunk_pinned(p', r) <=> p'.pinned_leaf_chunks[r] > 0
      BY <1>14, <2>1 DEF chunk_is_root_chunk_pinned
    <3>2. InUse(r)' <=> ~(p'.pinned_leaf_chunks[r] > 0)
      <4>1. p'.type[r] = "USER" /\ p'.state[root_chunk(r)] = "IS_SPLIT"
        BY <1>5, <1>7, <1>14, <2>1
      <4>2. p'.pinned_leaf_chunks[r] = 0 <=> ~(p'.pinned_leaf_chunks[r] > 0)
        BY <1>16, <2>1
      <4> QED BY <4>1, <4>2 DEF InUse
    <3> QED BY <1>3, <1>5, <1>7, <1>14, <2>1, <3>1, <3>2 DEF UpdatedListing, Listed
  <2>2. CASE ~sub
    <3>1. ~chunk_is_root_chunk_pinned(p', r) /\ InUse(r)'
      BY <1>5, <1>7, <1>14, <2>2 DEF chunk_is_root_chunk_pinned, InUse
    <3> QED BY <1>3, <1>5, <1>7, <1>14, <2>2, <3>1 DEF UpdatedListing, Listed
  <2> QED BY <2>1, <2>2
<1>18. Tree(r)'
  <2>1. root_chunk(r) \notin p'.free /\ c \notin p.free
    BY <1>7, <1>12, <1>13, <1>15, <1>17, <1>2, <1>3, FamilyFacts DEF linked, Tree
  <2> QED BY <1>3, <1>5, <1>8, <1>12, <1>13, <1>14, <2>1 DEF Tree
<1>19. Listing(r)'
  BY <1>5, <1>7, <1>14, <1>15, <1>17 DEF Listing
<1>20. Counted(r)'
  BY <1>14, <1>16 DEF Counted
<1>21. Evicting(r)' /\ PmaOf(r)'
  BY <1>1, <1>5, <1>7, <1>8, <1>12, <1>14, PinsStill DEF Evicting, PmaOf
<1>22. \A u \in Thread : Uses(u, r)' /\ Batched(u, r)'
  BY <1>1, <1>8, UnusedStill DEF Unused
<1>23. RootInv(r)'
  BY <1>18, <1>19, <1>20, <1>21, <1>22 DEF RootInv
<1>24. Aside(b, r)
  <2>1. th[b].r = NoRoot
    BY <1>1, <1>4 DEF TidyOf, RootSteps
  <2>2. WorksIn(th[b], r)
    BY <1>1, <1>4, <2>1, Workless DEF WorksIn, Working, HoldWork, FreeWork, RootWork
  <2> QED BY <1>1, <2>2, StaysIn
<1>25. \A e \in family(r) : ChunkInv(e)'
  BY <1>10, <1>11
<1>26. \A e \in Chunk : e[1] # r => SameClients(e)
  BY <1>3, <1>9
<1> QED BY <1>1, <1>5, <1>23, <1>24, <1>25, <1>26, FrameBeside, OnRoot

-----------------------------------------------------------------------------
(* Freeing a chunk.                                                        *)

LEMMA GivenUp ==
  ASSUME Whole, NEW t \in Thread, Moved(t), NEW c \in Chunk, Works(th[t], c), ~Works(th'[t], c),
         SameClients(c)
  PROVE  /\ \A u \in Thread : ~Has(u, c)'
         /\ \A b \in Block : c \notin used_chunks'[b]
<1>1. ChunkInv(c) /\ Has(t, c)
  BY DEF Whole, Has
<1>2. \A u \in Thread : ~Owns(u, c) /\ (u # t => ~Works(th[u], c))
  BY <1>1, Holders DEF Has, ChunkInv, OwnedBy
<1>3. \A u \in Thread : ~Owns(u, c)' /\ ~Works(th'[u], c)
  BY <1>2 DEF Owns, SameClients, Moved
<1>4. \A b \in Block : c \notin used_chunks[b]
  BY <1>1, <1>2, Threads DEF ChunkInv, OwnedBy, Owns
<1> QED BY <1>3, <1>4 DEF Has, SameClients

(* A chunk of a root chunk in eviction stays pinned for the evicting       *)
(* thread.                                                                 *)
LEMMA FreedForEviction ==
  ASSUME TypeInv, Discipline, Whole, NEW t \in Thread, Moved(t), UNCHANGED <<pma, readers, clients>>,
         NEW c \in Chunk, th[t].c = c, th[t].pc \in {"free", "free_locked"}, NEW d, p' = chunk_free_locked(p, c, d),
         p.in_eviction[c[1]], th'[t].pc \notin Working, th'[t].r \notin Root, th'[t].batch = th[t].batch
  PROVE  Whole'
<1> DEFINE sub == c # root_chunk(c[1])
<1>1. PICK r \in Root : r = c[1]
  BY ChunkFacts
<1>2. p \in PmmType /\ ListsInjective(p) /\ TidyOf(th[t]) /\ NoRoot \notin Root
  BY StateTyped, ThreadOrderly, Threads
<1>3. /\ Frame(p, p', r) /\ SameLists(p, p') /\ p'.free = p.free
      /\ \A e \in Chunk : p'.state[e] = IF e = c THEN "TEMP_PINNED" ELSE p.state[e]
      /\ \A e \in Chunk : p'.va_block[e] = IF e = c THEN NoBlock ELSE p.va_block[e]
      /\ p'.type = p.type /\ p'.in_eviction = p.in_eviction /\ p'.allocated = p.allocated
      /\ p'.pinned_leaf_chunks[r] = p.pinned_leaf_chunks[r] + (IF sub THEN 1 ELSE 0)
  BY <1>1, <1>2, FreedInEviction
<1>4. /\ \A e \in Chunk : Works(th[t], e) <=> e = c
      /\ \A e \in Chunk : ~Works(th'[t], e)
  BY Workless DEF Works, HoldWork, FreeWork, RootWork
<1>5. ChunkInv(c) /\ Has(t, c) /\ WorkedBy(t, c)
  BY <1>4 DEF Whole, ChunkInv, Has
<1>6. p.state[c] \in {"ALLOCATED", "TEMP_PINNED"} /\ (sub => p.state[c] = "ALLOCATED")
  <2>1. sub => c[2] # 0
    BY ChunkFacts
  <2> QED BY <1>4, <1>5, <2>1 DEF WorkedBy, FreeWork
<1>7. \A e \in Chunk : SameClients(e)
  BY ClientsStill
<1>8. \A e \in Chunk : e # c => SameClients(e) /\ Onward(th'[t], th[t], e)
  BY <1>4, <1>7 DEF Onward
<1>9. \A e \in family(r) : e # c => ChunkInv(e)'
  BY <1>1, <1>3, <1>6, <1>8, Siblings
<1>10. ChunkInv(c)'
  <2>1. p'.state[c] = "TEMP_PINNED" /\ p'.in_eviction[c[1]]
    BY <1>3
  <2> QED BY <1>4, <1>7, <2>1, GivenUp, NobodyHolds
<1>11. RootInv(r) /\ Tree(r) /\ Listing(r) /\ Counted(r) /\ PmaOf(r) /\ Evicting(r)
  BY DEF Whole, RootInv
<1>12. /\ family(r) \subseteq Chunk /\ root_chunk(r) \in family(r) /\ subchunks(r) \subseteq family(r)
       /\ root_chunk(r) \notin subchunks(r) /\ (sub => c \in subchunks(r)) /\ c \in family(r)
  BY <1>1, FamilyFacts, ChunkFacts DEF family
<1>13. /\ p.state[root_chunk(r)] = IF sub THEN "IS_SPLIT" ELSE p.state[c]
       /\ p'.state[root_chunk(r)] = IF sub THEN "IS_SPLIT" ELSE "TEMP_PINNED"
  <2>1. p.state[root_chunk(r)] = IF sub THEN "IS_SPLIT" ELSE p.state[c]
    BY <1>1, <1>6, <1>11, <1>12 DEF Tree
  <2> QED BY <1>1, <1>3, <1>12, <2>1
<1>14. Tree(r)'
  <2>1. c \notin p.free
    BY <1>6, <1>11, <1>12 DEF Tree
  <2> QED BY <1>3, <1>6, <1>11, <1>12, <1>13, <2>1 DEF Tree
<1>15. Listing(r)'
  <2>1. linked(p', r) /\ p'.list_state[r] = p.list_state[r]
    BY <1>3, <1>11 DEF Listing, linked, SameLists
  <2> QED BY <1>1, <1>3, <1>11, <1>13, <2>1 DEF Listing
<1>16. Counted(r)'
  <2>1. CASE sub
    <3>1. ~\E u \in Thread : th[u].pc = "merge_locked" /\ th[u].c[1] = r
      <4> SUFFICES ASSUME NEW u \in Thread, th[u].pc = "merge_locked", th[u].c[1] = r PROVE FALSE
        OBVIOUS
      <4>1. Works(th[u], c)
        BY <1>1, <2>1, ChunkFacts DEF Works
      <4> QED BY <1>5, <4>1 DEF ChunkInv, Has
    <3>2. /\ AllocatedIn(p', r) = AllocatedIn(p, r) /\ PinnedIn(p', r) = PinnedIn(p, r) \cup {c}
          /\ c \notin PinnedIn(p, r) /\ PinnedIn(p, r) \in SUBSET subchunks(r)
      BY <1>3, <1>6, <1>12, <2>1 DEF AllocatedIn, PinnedIn
    <3>3. Cardinality(PinnedIn(p', r)) = Cardinality(PinnedIn(p, r)) + 1
      BY <1>12, <2>1, <3>2, SubchunkAdded
    <3> QED BY <1>3, <1>11, <1>13, <2>1, <3>1, <3>2, <3>3 DEF Counted
  <2>2. CASE ~sub
    BY <1>13, <2>2 DEF Counted
  <2> QED BY <2>1, <2>2
<1>17. th[t].r = NoRoot
  BY <1>2 DEF TidyOf, RootSteps
<1>18. Evicting(r)'
  <2>1. PICK u \in Thread : th[u].r = r /\ th[u].pc \in Evictors
    BY <1>1, <1>11 DEF Evicting
  <2>2. th'[u] = th[u]
    BY <1>2, <1>17, <2>1 DEF Moved
  <2> QED BY <2>1, <2>2 DEF Evicting
<1>19. PmaOf(r)'
  <2>1. Pinned(r)' <=> Pinned(r)
    BY PinsStill DEF Working, HoldWork, FreeWork, RootWork
  <2> QED BY <1>1, <1>3, <1>11, <1>13, <2>1 DEF PmaOf, Listing
<1>20. ASSUME NEW u \in Thread PROVE Uses(u, r)' /\ Batched(u, r)'
  <2>1. \A v \in Thread : r \notin th'[v].batch
    BY <1>1, <1>11 DEF RootInv, Listing, Batched, Moved
  <2>2. \A v \in Thread : th'[v].r = r => v # t /\ th'[v] = th[v] /\ th[v].r = r
    BY <1>2, <1>17 DEF Moved
  <2>3. \A e \in Chunk : \A v \in Thread : Works(th'[v], e) => Works(th[v], e) /\ e # c
    BY <1>4, <1>5 DEF Moved, ChunkInv, Has
  <2>4. ASSUME th'[u].r = r PROVE Progress(th[u], r)'
    <3>1. Progress(th[u], r) /\ th'[u] = th[u]
      BY <1>11, <2>2, <2>4 DEF RootInv, Uses
    <3>2. p.state[root_chunk(r)] # "PMA_OWNED"
      BY <1>1, <1>11 DEF Listing
    <3> QED BY <1>3, <1>12, <2>3, <3>1, <3>2 DEF Progress
  <2>5. \A v \in Thread : th'[u].r = r /\ th'[v].r = r => v = u
    BY <1>11, <2>2 DEF RootInv, Uses
  <2> QED BY <2>1, <2>4, <2>5 DEF Uses, Batched
<1>21. RootInv(r)'
  BY <1>14, <1>15, <1>16, <1>18, <1>19, <1>20 DEF RootInv
<1>22. Aside(t, r)
  <2>1. WorksIn(th[t], r) /\ WorksIn(th'[t], r)
    BY <1>1, <1>2, <1>4, <1>17 DEF WorksIn
  <2> QED BY <2>1, StaysIn
<1>23. \A e \in family(r) : ChunkInv(e)'
  BY <1>9, <1>10
<1> QED BY <1>3, <1>7, <1>21, <1>22, <1>23, FrameBeside, OnRoot

LEMMA FreedCounted ==
  ASSUME NEW r \in Root, NEW c \in subchunks(r), ~p.in_eviction[r], Counted(r),
         p.state[root_chunk(r)] = "IS_SPLIT", p.state[c] \in {"TEMP_PINNED", "ALLOCATED"},
         \A e \in subchunks(r) : p'.state[e] = IF e = c THEN "FREE" ELSE p.state[e],
         p'.allocated[r] = p.allocated[r] - 1,
         p'.pinned_leaf_chunks[r] = p.pinned_leaf_chunks[r] - (IF p.state[c] = "TEMP_PINNED" THEN 1 ELSE 0)
  PROVE  /\ p.allocated[r] # 1 => Counted(r)'
         /\ p'.pinned_leaf_chunks[r] \in Nat
<1>1. /\ AllocatedIn(p', r) = AllocatedIn(p, r) \ {c} /\ c \in AllocatedIn(p, r)
      /\ PinnedIn(p', r) = PinnedIn(p, r) \ {c}
      /\ c \in PinnedIn(p, r) <=> p.state[c] = "TEMP_PINNED"
  BY DEF AllocatedIn, PinnedIn
<1>2. PinnedIn(p, r) \in SUBSET subchunks(r) /\ AllocatedIn(p, r) \in SUBSET subchunks(r)
  BY DEF PinnedIn, AllocatedIn
<1>3. Cardinality(PinnedIn(p, r)) \in Nat /\ Cardinality(AllocatedIn(p, r)) \in Nat
  BY <1>2, SomeSubchunks
<1>4. Cardinality(AllocatedIn(p', r)) = Cardinality(AllocatedIn(p, r)) - 1 /\ Cardinality(AllocatedIn(p, r)) > 0
  BY <1>1, <1>2, SubchunkRemoved, SubchunksPresent
<1>5. /\ Cardinality(PinnedIn(p', r)) = Cardinality(PinnedIn(p, r)) - (IF p.state[c] = "TEMP_PINNED" THEN 1 ELSE 0)
      /\ p.state[c] = "TEMP_PINNED" => Cardinality(PinnedIn(p, r)) > 0
  <2>1. CASE p.state[c] = "TEMP_PINNED"
    BY <1>1, <1>2, <2>1, SubchunkRemoved, SubchunksPresent
  <2>2. CASE p.state[c] # "TEMP_PINNED"
    <3>1. PinnedIn(p', r) = PinnedIn(p, r)
      BY <1>1, <2>2
    <3> QED BY <1>3, <2>2, <3>1
  <2> QED BY <2>1, <2>2
<1>6. p.pinned_leaf_chunks[r] = Cardinality(PinnedIn(p, r)) /\ p.allocated[r] = Cardinality(AllocatedIn(p, r))
  BY DEF Counted
<1> QED BY <1>3, <1>4, <1>5, <1>6 DEF Counted

(* A chunk goes to a free list.                                            *)
LEMMA FreedToList ==
  ASSUME TypeInv, Discipline, Whole, NEW t \in Thread, Moved(t), UNCHANGED <<pma, readers, clients>>,
         NEW c \in Chunk, th[t].c = c, th[t].pc \in {"free", "free_locked"}, NEW d, p' = chunk_free_locked(p, c, d),
         ~p.in_eviction[c[1]], ~chunk_is_last_allocated_child(p, c),
         th'[t].pc \notin Working, th'[t].r \notin Root, th'[t].batch = th[t].batch
  PROVE  Whole'
<1> DEFINE sub == c # root_chunk(c[1])
<1>1. PICK r \in Root : r = c[1]
  BY ChunkFacts
<1>2. p \in PmmType /\ ListsInjective(p) /\ TidyOf(th[t]) /\ NoRoot \notin Root
  BY StateTyped, ThreadOrderly, Threads
<1>3. /\ Updated(p, p', c) /\ Frame(p, p', r)
      /\ \A e \in Chunk : p'.state[e] = IF e = c THEN "FREE" ELSE p.state[e]
      /\ \A e \in Chunk : p'.va_block[e] = IF e = c THEN NoBlock ELSE p.va_block[e]
      /\ p'.type = p.type /\ p'.in_eviction = p.in_eviction
      /\ p'.allocated[r] = p.allocated[r] - (IF sub THEN 1 ELSE 0)
      /\ p'.pinned_leaf_chunks[r] =
           p.pinned_leaf_chunks[r] - (IF sub /\ p.state[c] = "TEMP_PINNED" THEN 1 ELSE 0)
  BY <1>1, <1>2, Freed
<1>4. /\ \A e \in Chunk : Works(th[t], e) <=> e = c
      /\ \A e \in Chunk : ~Works(th'[t], e)
  BY Workless DEF Works, HoldWork, FreeWork, RootWork
<1>5. ChunkInv(c) /\ Has(t, c)
  BY <1>4 DEF Whole, Has
<1>6. p.state[c] \in {"ALLOCATED", "TEMP_PINNED"}
  BY <1>5, Holders
<1>7. \A e \in Chunk : SameClients(e)
  BY ClientsStill
<1>8. \A e \in Chunk : e # c => SameClients(e) /\ Onward(th'[t], th[t], e)
  BY <1>4, <1>7 DEF Onward
<1>9. \A e \in family(r) : e # c => ChunkInv(e)'
  BY <1>1, <1>3, <1>6, <1>8, Siblings
<1>10. ChunkInv(c)'
  <2>1. p'.state[c] = "FREE"
    BY <1>3
  <2> QED BY <1>4, <1>7, <2>1, GivenUp, NobodyHolds
<1>11. Tree(r) /\ Listing(r) /\ Counted(r) /\ PmaOf(r)
  BY DEF Whole, RootInv
<1>12. /\ family(r) \subseteq Chunk /\ root_chunk(r) \in family(r) /\ subchunks(r) \subseteq family(r)
       /\ root_chunk(r) \notin subchunks(r) /\ (sub => c \in subchunks(r)) /\ c \in family(r)
  BY <1>1, FamilyFacts, ChunkFacts DEF family
<1>13. Unused(r) /\ p.state[root_chunk(r)] = IF sub THEN "IS_SPLIT" ELSE p.state[c]
  BY <1>1, <1>5, HeldUnused DEF RootWork
<1>14. p'.state[root_chunk(r)] = IF sub THEN "IS_SPLIT" ELSE "FREE"
  BY <1>1, <1>3, <1>12, <1>13
<1>15. sub => Counted(r)' /\ p'.pinned_leaf_chunks[r] \in Nat
  <2> SUFFICES ASSUME sub PROVE Counted(r)' /\ p'.pinned_leaf_chunks[r] \in Nat
    OBVIOUS
  <2>1. p.allocated[r] # 1
    BY <1>1, RootTest DEF chunk_is_last_allocated_child
  <2> QED BY <1>1, <1>3, <1>6, <1>11, <1>12, <1>13, <2>1, FreedCounted
<1>16. /\ linked(p', r) /\ UpdatedListing(p', c, p.list_state[r])
       /\ \A e \in Chunk : e # root_chunk(r) /\ e # c => (e \in p'.free <=> e \in p.free)
  BY <1>1, <1>3, <1>11 DEF Updated, Listing
<1>17. IF sub THEN /\ p'.list_state[r] # "FREE" /\ (Listed(p', r) <=> InUse(r)')
                   /\ Listed(p', r) => p'.type[r] = "USER"
       ELSE p'.list_state[r] = "FREE"
  <2>1. CASE sub
    <3>1. chunk_is_root_chunk_pinned(p', r) <=> p'.pinned_leaf_chunks[r] > 0
      BY <1>14, <2>1 DEF chunk_is_root_chunk_pinned
    <3>2. InUse(r)' <=> p'.type[r] = "USER" /\ ~(p'.pinned_leaf_chunks[r] > 0)
      <4>1. p'.pinned_leaf_chunks[r] = 0 <=> ~(p'.pinned_leaf_chunks[r] > 0)
        BY <1>15, <2>1
      <4> QED BY <1>14, <2>1, <4>1 DEF InUse
    <3>3. p.type[r] # "USER" => ~Listed(p, r) /\ p.list_state[r] # "FREE"
      BY <1>1, <1>11, <1>13, <2>1 DEF Listing
    <3> QED BY <1>1, <1>3, <1>14, <1>16, <2>1, <3>1, <3>2, <3>3 DEF UpdatedListing, Listed
  <2>2. CASE ~sub
    BY <1>1, <1>14, <1>16, <2>2 DEF UpdatedListing
  <2> QED BY <2>1, <2>2
<1>18. Tree(r)'
  <2>1. root_chunk(r) \in p'.free => ~sub
    BY <1>16, <1>17 DEF linked
  <2> QED BY <1>1, <1>3, <1>6, <1>11, <1>12, <1>13, <1>14, <1>16, <2>1 DEF Tree
<1>19. Listing(r)'
  <2>1. ~sub => ~InUse(r)' /\ ~Listed(p', r)
    BY <1>14, <1>17 DEF InUse, Listed
  <2> QED BY <1>1, <1>3, <1>14, <1>16, <1>17, <2>1 DEF Listing
<1>20. Counted(r)'
  BY <1>14, <1>15 DEF Counted
<1>21. Evicting(r)' /\ PmaOf(r)'
  <2>1. Pinned(r)' <=> Pinned(r)
    BY PinsStill DEF Working, HoldWork, FreeWork, RootWork
  <2> QED BY <1>1, <1>3, <1>6, <1>11, <1>13, <1>14, <2>1 DEF Evicting, PmaOf
<1>22. \A u \in Thread : Uses(u, r)' /\ Batched(u, r)'
  BY <1>13, UnusedStill DEF Unused
<1>23. RootInv(r)'
  BY <1>18, <1>19, <1>20, <1>21, <1>22 DEF RootInv
<1>24. Aside(t, r)
  <2>1. th[t].r = NoRoot
    BY <1>2 DEF TidyOf, RootSteps
  <2>2. WorksIn(th[t], r) /\ WorksIn(th'[t], r)
    BY <1>1, <1>2, <1>4, <2>1 DEF WorksIn
  <2> QED BY <2>2, StaysIn
<1>25. \A e \in family(r) : ChunkInv(e)'
  BY <1>9, <1>10
<1> QED BY <1>3, <1>7, <1>23, <1>24, <1>25, FrameBeside, OnRoot

LEMMA TryFreeWhole ==
  ASSUME TypeInv, Discipline, Whole, NEW t \in Thread, TryFree(t)
  PROVE  Whole'
<1>1. PICK d \in Decisions : p' = chunk_free_locked(p, th[t].c, d)
  BY DEF TryFree
<1>2. /\ th[t].pc = "free" /\ ~chunk_is_last_allocated_child(p, th[t].c)
      /\ UNCHANGED <<pma, readers, clients>>
  BY DEF TryFree, at, pma_vars
<1>3. PICK c \in Chunk : c = th[t].c
  BY TryFreeStep
<1>4. TidyOf(th[t]) /\ FlowOf(t, th[t]) /\ th[t] \in Local /\ NoRoot \notin Root
  BY ThreadOrderly, Threads
<1>5. th[t].r = NoRoot /\ th[t].batch = {}
  <2>1. th[t].op # "pages"
    BY <1>2, <1>4 DEF FlowOf, Course, Frees, AllocSteps, RangeSteps, PageSteps, EvictSteps
  <2> QED BY <1>2, <1>4, <2>1 DEF TidyOf, RootSteps
<1>6. Moved(t) /\ th'[t].pc \notin Working /\ th'[t].r \notin Root /\ th'[t].batch = th[t].batch
  <2>1. CASE chunk_is_root_chunk(th[t].c)
    BY <1>4, <1>5, <2>1, TryFreeStep DEF SameLocals, Working, HoldWork, FreeWork, RootWork
  <2>2. CASE ~chunk_is_root_chunk(th[t].c)
    <3>1. th[t].ret \in {"idle", "evict_again"}
      BY <1>2, <1>4 DEF FlowOf, Course, Frees, AllocSteps, RangeSteps, PageSteps, EvictSteps
    <3>2. Moved(t) /\ Resumed(th'[t], th[t])
      BY <2>2, TryFreeStep
    <3>3. CASE th'[t] = idle
      BY <1>5, <3>2, <3>3, IdleWorkless
    <3>4. CASE th'[t] # idle
      BY <1>4, <1>5, <3>1, <3>2, <3>4 DEF Resumed, Working, HoldWork, FreeWork, RootWork
    <3> QED BY <3>3, <3>4
  <2> QED BY <2>1, <2>2
<1> QED BY <1>1, <1>2, <1>3, <1>6, FreedForEviction, FreedToList

(* The subchunks become the root chunk, which the thread then frees.       *)
LEMMA MergeLockedWhole ==
  ASSUME TypeInv, Discipline, Whole, NEW t \in Thread, MergeLocked(t)
  PROVE  Whole'
<1>1. th[t].pc = "merge_locked" /\ UNCHANGED <<pma, readers, clients>>
  BY DEF MergeLocked, at, pma_vars
<1>2. PICK c \in Chunk : c = th[t].c
  BY MergeLockedStep
<1>3. PICK r \in Root : r = c[1]
  BY ChunkFacts
<1>4. p \in PmmType /\ ListsInjective(p) /\ TidyOf(th[t]) /\ NoRoot \notin Root
  BY StateTyped, ThreadOrderly, Threads
<1>5. /\ Moved(t) /\ th'[t].pc = "free_locked" /\ th'[t].c = root_chunk(r)
      /\ th'[t].r = NoRoot /\ th[t].r = NoRoot /\ th'[t].batch = th[t].batch
  BY <1>1, <1>2, <1>3, <1>4, MergeLockedStep DEF TidyOf, RootSteps
<1>6. /\ root_chunk(r) \in Chunk /\ root_chunk(r)[1] = r /\ root_chunk(r)[2] = 0
      /\ <<r, 1>> \in subchunks(r)
      /\ family(r) \subseteq Chunk /\ family(r) = {root_chunk(r)} \cup subchunks(r)
      /\ \A e \in subchunks(r) : e \in Chunk /\ e[1] = r /\ e[2] # 0 /\ e # root_chunk(r)
  BY ChunkFacts, FamilyFacts DEF family
<1>7. /\ \A e \in subchunks(r) : Works(th[t], e) /\ ~Works(th'[t], e)
      /\ \A e \in Chunk : Works(th'[t], e) <=> e = root_chunk(r)
      /\ \A e \in Chunk : Works(th[t], e) => e[1] = r
  BY <1>1, <1>2, <1>3, <1>5, <1>6 DEF Works, HoldWork, FreeWork, RootWork
<1>8. /\ \A e \in subchunks(r) : p.state[e] = "TEMP_PINNED"
      /\ p.state[root_chunk(r)] = "IS_SPLIT" /\ p.type[r] = mem_type(t)
  <2>1. ASSUME NEW e \in subchunks(r)
        PROVE  p.state[e] = "TEMP_PINNED" /\ p.state[root_chunk(r)] = "IS_SPLIT" /\ p.type[r] = mem_type(t)
    <3>1. WorkedBy(t, e)
      BY <1>6 DEF Whole, ChunkInv
    <3> QED BY <1>1, <1>6, <1>7, <3>1 DEF WorkedBy, RootWork
  <2> QED BY <1>6, <2>1
<1>9. /\ SameLists(p, p') /\ p'.free = p.free /\ p'.type = p.type /\ p'.in_eviction = p.in_eviction
      /\ p'.state[root_chunk(r)] = "TEMP_PINNED"
      /\ \A e \in subchunks(r) : p'.state[e] = "NO_CHUNK"
      /\ Frame(p, p', r)
  <2>1. p' = merge_gpu_chunk(p, r)
    BY <1>2, <1>3 DEF MergeLocked
  <2>2. p.state[<<r, 1>>] = "TEMP_PINNED"
    BY <1>6, <1>8
  <2>3. /\ SameLists(p, p') /\ p'.free = p.free /\ p'.type = p.type /\ p'.in_eviction = p.in_eviction
        /\ \A e \in Chunk : p'.state[e] = IF e = root_chunk(r) THEN "TEMP_PINNED"
                                          ELSE IF e[1] = r THEN "NO_CHUNK" ELSE p.state[e]
        /\ \A e \in Chunk : e[1] # r => p'.va_block[e] = p.va_block[e]
        /\ \A s \in Root : s # r => /\ p'.allocated[s] = p.allocated[s]
                                    /\ p'.pinned_leaf_chunks[s] = p.pinned_leaf_chunks[s]
    BY <1>4, <2>1, <2>2, ChunkMerged
  <2> QED BY <1>6, <2>3 DEF Frame, SameLists
<1>10. \A e \in Chunk : SameClients(e)
  BY <1>1, ClientsStill
<1>11. \A e \in subchunks(r) : ChunkInv(e)'
  <2> TAKE e \in subchunks(r)
  <2>1. (\A u \in Thread : ~Has(u, e)') /\ \A b \in Block : e \notin used_chunks'[b]
    BY <1>5, <1>6, <1>7, <1>10, GivenUp
  <2> QED BY <1>6, <1>9, <2>1, NobodyHolds
<1>12. ChunkInv(root_chunk(r))'
  <2>1. ChunkInv(root_chunk(r)) /\ \A u \in Thread : ~Has(u, root_chunk(r))
    BY <1>6, <1>8, Holders DEF Whole
  <2>2. \A u \in Thread : SameOwner(u, root_chunk(r))
    BY <1>1 DEF SameOwner, clients
  <2>3. ~Owns(t, root_chunk(r))' /\ (t \in Block => root_chunk(r) \notin used_chunks'[t])
    <3>1. ~Owns(t, root_chunk(r)) /\ OwnedBy(t, root_chunk(r))
      BY <2>1 DEF Has, ChunkInv
    <3> QED BY <1>1, <3>1 DEF Owns, OwnedBy, clients
  <2>4. OwnedBy(t, root_chunk(r))'
    BY <2>3 DEF OwnedBy, Owns
  <2>5. WorkedBy(t, root_chunk(r))'
    BY <1>5, <1>6, <1>8, <1>9 DEF WorkedBy, FreeWork, HoldWork, RootWork, mem_type
  <2>6. Has(t, root_chunk(r))' /\ p'.state[root_chunk(r)] = "TEMP_PINNED"
    BY <1>6, <1>7, <1>9 DEF Has
  <2> QED BY <1>5, <1>6, <2>1, <2>2, <2>4, <2>5, <2>6, OneHolder
<1>13. Tree(r) /\ Listing(r) /\ Evicting(r) /\ PmaOf(r)
  BY DEF Whole, RootInv
<1>14. Tree(r)'
  BY <1>6, <1>8, <1>9, <1>13 DEF Tree
<1>15. Listing(r)'
  <2>1. linked(p', r) /\ p'.list_state[r] = p.list_state[r]
    BY <1>9, <1>13 DEF Listing, linked, SameLists
  <2>2. Merging(th'[t], r)
    BY <1>5 DEF Merging
  <2> QED BY <1>8, <1>9, <1>13, <2>1, <2>2 DEF Listing, Listed, InUse
<1>16. Counted(r)'
  BY <1>9 DEF Counted
<1>17. Evicting(r)'
  BY <1>4, <1>5, <1>9, <1>13 DEF Evicting, Moved
<1>18. PmaOf(r)'
  <2>1. Pinned(r)' <=> Pinned(r)
    BY <1>1, <1>5, PinsStill
  <2> QED BY <1>1, <1>8, <1>9, <1>13, <2>1 DEF PmaOf
<1>19. ASSUME NEW u \in Thread PROVE Uses(u, r)' /\ Batched(u, r)'
  <2>1. \A v \in Thread : Uses(v, r) /\ Batched(v, r)
    BY DEF Whole, RootInv
  <2>2. \A v \in Thread : r \notin th'[v].batch
    BY <1>5, <1>8, <2>1 DEF Batched, Moved
  <2>3. \A v \in Thread : th'[v].r = r => v # t /\ th'[v] = th[v] /\ th[v].r = r
    BY <1>4, <1>5 DEF Moved
  <2>4. ASSUME th'[u].r = r PROVE Progress(th[u], r)'
    <3>1. Progress(th[u], r) /\ th'[u] = th[u]
      BY <2>1, <2>3, <2>4 DEF Uses
    <3>2. th[u].pc \notin {"find", "va_block", "relock", "merge"}
      BY <1>6, <1>7, <1>8, <3>1 DEF Progress
    <3> QED BY <1>8, <1>9, <3>1, <3>2 DEF Progress
  <2> QED BY <2>1, <2>2, <2>3, <2>4 DEF Uses, Batched
<1>20. RootInv(r)'
  BY <1>14, <1>15, <1>16, <1>17, <1>18, <1>19 DEF RootInv
<1>21. Aside(t, r)
  <2>1. WorksIn(th[t], r) /\ WorksIn(th'[t], r)
    BY <1>4, <1>5, <1>6, <1>7 DEF WorksIn
  <2> QED BY <2>1, StaysIn
<1>22. \A e \in family(r) : ChunkInv(e)'
  BY <1>6, <1>11, <1>12
<1> QED BY <1>1, <1>5, <1>9, <1>10, <1>20, <1>21, <1>22, FrameBeside, OnRoot

(* The last allocated subchunk is freed: all of them are pinned.           *)
LEMMA LastChild ==
  ASSUME NEW r \in Root, NEW c \in subchunks(r), Counted(r), p.state[root_chunk(r)] = "IS_SPLIT",
         p.state[c] # "FREE", p.allocated[r] = 1
  PROVE  /\ \A e \in subchunks(r) : e # c => p.state[e] = "FREE"
         /\ \E e \in subchunks(r) : p.state[e] = "FREE"
         /\ ~p.in_eviction[r] => p.pinned_leaf_chunks[r] = IF p.state[c] = "TEMP_PINNED" THEN 1 ELSE 0
<1>1. AllocatedIn(p, r) = {c}
  <2>1. AllocatedIn(p, r) \in SUBSET subchunks(r) /\ c \in AllocatedIn(p, r)
    BY DEF AllocatedIn
  <2> QED BY <2>1, SubchunksPresent DEF Counted
<1>2. \A e \in subchunks(r) : e # c => p.state[e] = "FREE"
  BY <1>1 DEF AllocatedIn
<1>3. \E e \in subchunks(r) : e # c
  <2>1. <<r, 1>> \in subchunks(r) /\ <<r, 2>> \in subchunks(r) /\ <<r, 1>> # <<r, 2>>
    BY NSubAssumption DEF subchunks
  <2> QED BY <2>1
<1>4. PinnedIn(p, r) = IF p.state[c] = "TEMP_PINNED" THEN {c} ELSE {}
  BY <1>2 DEF PinnedIn
<1>5. Cardinality({c}) = 1 /\ Cardinality({}) = 0
  BY FS_Singleton, FS_EmptySet
<1>6. ~p.in_eviction[r] => p.pinned_leaf_chunks[r] = Cardinality(PinnedIn(p, r))
  BY DEF Counted
<1> QED BY <1>2, <1>3, <1>4, <1>5, <1>6

(* What the chunks are then.                                               *)
LEMMA MergePreparedFacts ==
  ASSUME TypeInv, Whole, NEW r \in Root, NEW c \in subchunks(r), NEW d,
         p' = prepare_for_merge(chunk_free_locked(p, c, d), r), p.state[root_chunk(r)] = "IS_SPLIT",
         p.allocated[r] = 1, p.state[c] \in {"TEMP_PINNED", "ALLOCATED"}
  PROVE  /\ Frame(p, p', r) /\ p'.type = p.type /\ p'.in_eviction = p.in_eviction
         /\ \A e \in subchunks(r) : p'.state[e] = "TEMP_PINNED" /\ e \notin p'.free
         /\ p'.state[root_chunk(r)] = "IS_SPLIT" /\ p'.allocated[r] = NSub
         /\ ~p.in_eviction[r] => p'.pinned_leaf_chunks[r] = NSub
         /\ linked(p', r)
         /\ IF p.in_eviction[r] THEN p'.list_state[r] = p.list_state[r]
            ELSE p'.list_state[r] # "FREE" /\ (Listed(p', r) => p.type[r] = "USER")
<1> DEFINE q == chunk_free_locked(p, c, d)
<1>1. p \in PmmType /\ ListsInjective(p) /\ Tree(r) /\ Listing(r) /\ Counted(r)
  BY StateTyped DEF Whole, RootInv
<1>2. c \in Chunk /\ c[1] = r /\ c # root_chunk(r) /\ root_chunk(r) \in Chunk /\ subchunks(r) \subseteq Chunk
      /\ root_chunk(r) \notin subchunks(r) /\ \A e \in subchunks(r) : e[1] = r
  BY ChunkFacts
<1>3. q \in PmmType /\ ListsInjective(q) /\ Frame(p, q, r)
  BY <1>1, <1>2, FreeTyped
<1>4. /\ SameLists(q, p') /\ p'.free = q.free \ subchunks(r)
      /\ \A e \in Chunk : p'.state[e] = IF e \in subchunks(r) THEN "TEMP_PINNED" ELSE q.state[e]
      /\ p'.va_block = q.va_block /\ p'.type = q.type /\ p'.in_eviction = q.in_eviction
      /\ \A s \in Root : p'.allocated[s] = IF s # r THEN q.allocated[s] ELSE NSub
      /\ \A s \in Root : p'.pinned_leaf_chunks[s] =
           IF s # r THEN q.pinned_leaf_chunks[s] ELSE q.pinned_leaf_chunks[r] + NSub
  <2> HIDE DEF q
  <2> QED BY <1>3, MergePrepared DEF q
<1>5. Frame(p, p', r)
  <2>1. Frame(q, p', r)
    BY <1>2, <1>4 DEF Frame, SameLists
  <2> QED BY <1>3, <2>1, FrameTwice
<1>6. /\ q.type = p.type /\ q.in_eviction = p.in_eviction /\ q.state[root_chunk(r)] = "IS_SPLIT"
      /\ linked(q, r)
      /\ IF p.in_eviction[r] THEN q.list_state[r] = p.list_state[r]
         ELSE q.list_state[r] # "FREE" /\ (Listed(q, r) => p.type[r] = "USER") /\ q.pinned_leaf_chunks[r] = 0
  <2>1. CASE p.in_eviction[r]
    <3>1. /\ SameLists(p, q) /\ q.free = p.free /\ q.type = p.type /\ q.in_eviction = p.in_eviction
          /\ \A e \in Chunk : q.state[e] = IF e = c THEN "TEMP_PINNED" ELSE p.state[e]
      BY <1>1, <1>2, <2>1, FreedInEviction
    <3>2. linked(q, r) /\ q.list_state[r] = p.list_state[r]
      BY <1>1, <3>1 DEF Listing, linked, SameLists
    <3> QED BY <1>2, <2>1, <3>1, <3>2
  <2>2. CASE ~p.in_eviction[r]
    <3>1. /\ Updated(p, q, c) /\ q.type = p.type /\ q.in_eviction = p.in_eviction
          /\ \A e \in Chunk : q.state[e] = IF e = c THEN "FREE" ELSE p.state[e]
          /\ q.pinned_leaf_chunks[r] = p.pinned_leaf_chunks[r] - (IF p.state[c] = "TEMP_PINNED" THEN 1 ELSE 0)
      BY <1>1, <1>2, <2>2, Freed
    <3>2. q.pinned_leaf_chunks[r] = 0
      <4>1. p.pinned_leaf_chunks[r] = IF p.state[c] = "TEMP_PINNED" THEN 1 ELSE 0
        BY <1>1, <2>2, LastChild
      <4> QED BY <3>1, <4>1
    <3>3. q.state[root_chunk(r)] = "IS_SPLIT"
      BY <1>2, <3>1
    <3>4. linked(q, r) /\ UpdatedListing(q, c, p.list_state[r])
      BY <1>1, <1>2, <3>1 DEF Updated, Listing
    <3>5. p.list_state[r] # "FREE" /\ (Listed(p, r) => p.type[r] = "USER")
      BY <1>1, <2>2 DEF Listing
    <3>6. q.list_state[r] # "FREE" /\ (Listed(q, r) => p.type[r] = "USER")
      BY <1>2, <3>1, <3>3, <3>4, <3>5 DEF UpdatedListing, Listed
    <3> QED BY <2>2, <3>1, <3>2, <3>3, <3>4, <3>6
  <2> QED BY <2>1, <2>2
<1>7. linked(p', r) /\ p'.list_state[r] = q.list_state[r]
  BY <1>2, <1>4, <1>6 DEF linked, SameLists
<1>8. ~p.in_eviction[r] => p'.pinned_leaf_chunks[r] = NSub
  BY <1>4, <1>6, NSubAssumption
<1>9. \A e \in subchunks(r) : p'.state[e] = "TEMP_PINNED" /\ e \notin p'.free
  BY <1>2, <1>4
<1>10. p'.state[root_chunk(r)] = "IS_SPLIT" /\ p'.allocated[r] = NSub
  BY <1>2, <1>4, <1>6
<1>11. IF p.in_eviction[r] THEN p'.list_state[r] = p.list_state[r]
       ELSE p'.list_state[r] # "FREE" /\ (Listed(p', r) => p.type[r] = "USER")
  BY <1>6, <1>7 DEF Listed
<1> QED BY <1>4, <1>5, <1>6, <1>7, <1>8, <1>9, <1>10, <1>11

LEMMA MergeBegins ==
  ASSUME TypeInv, Discipline, Whole, NEW t \in Thread, Moved(t), UNCHANGED <<pma, readers, clients>>,
         NEW r \in Root, NEW c \in subchunks(r), th[t].c = c, th[t].pc = "free_locked", NEW d,
         p' = prepare_for_merge(chunk_free_locked(p, c, d), r), p.allocated[r] = 1,
         th'[t].pc = "merge_locked", SameLocals(th'[t], th[t])
  PROVE  Whole'
<1>1. TidyOf(th[t]) /\ NoRoot \notin Root /\ NSub \in Nat /\ NSub >= 2
  BY ThreadOrderly, Threads, NSubAssumption
<1>2. th[t].r = NoRoot /\ th'[t].r = NoRoot /\ th'[t].c = c /\ th'[t].batch = th[t].batch
  BY <1>1 DEF TidyOf, RootSteps, SameLocals
<1>3. /\ c \in Chunk /\ c[1] = r /\ c[2] # 0 /\ c # root_chunk(r) /\ root_chunk(r) \in Chunk
      /\ root_chunk(r)[2] = 0 /\ root_chunk(r)[1] = r
      /\ family(r) = {root_chunk(r)} \cup subchunks(r) /\ family(r) \subseteq Chunk
      /\ \A e \in subchunks(r) : e \in Chunk /\ e[1] = r /\ e[2] # 0 /\ e # root_chunk(r)
  BY ChunkFacts, FamilyFacts DEF family
<1>4. /\ \A e \in Chunk : Works(th[t], e) <=> e = c
      /\ \A e \in Chunk : Works(th'[t], e) <=> e[1] = r /\ e[2] # 0
  BY <1>2, <1>3 DEF Works, HoldWork, FreeWork, RootWork
<1>5. ChunkInv(c) /\ Has(t, c) /\ WorkedBy(t, c) /\ ~Owns(t, c) /\ p.type[r] = mem_type(t)
      /\ p.state[c] \in {"TEMP_PINNED", "ALLOCATED"}
  <2>1. ChunkInv(c) /\ Has(t, c) /\ WorkedBy(t, c) /\ OwnedBy(t, c)
    BY <1>3, <1>4 DEF Whole, ChunkInv, Has
  <2> QED BY <1>3, <1>4, <2>1, Holders DEF WorkedBy, OwnedBy, RootWork
<1>6. Tree(r) /\ Listing(r) /\ Counted(r) /\ PmaOf(r) /\ Evicting(r)
  BY DEF Whole, RootInv
<1>7. p.state[root_chunk(r)] = "IS_SPLIT"
  BY <1>5, <1>6 DEF Tree
<1>8. /\ \A e \in subchunks(r) : e # c => p.state[e] = "FREE"
      /\ \E e \in subchunks(r) : p.state[e] = "FREE"
  BY <1>5, <1>6, <1>7, LastChild
<1>9. /\ Frame(p, p', r) /\ p'.type = p.type /\ p'.in_eviction = p.in_eviction
      /\ \A e \in subchunks(r) : p'.state[e] = "TEMP_PINNED" /\ e \notin p'.free
      /\ p'.state[root_chunk(r)] = "IS_SPLIT" /\ p'.allocated[r] = NSub
      /\ ~p.in_eviction[r] => p'.pinned_leaf_chunks[r] = NSub
      /\ linked(p', r)
      /\ IF p.in_eviction[r] THEN p'.list_state[r] = p.list_state[r]
         ELSE p'.list_state[r] # "FREE" /\ (Listed(p', r) => p.type[r] = "USER")
  BY <1>5, <1>7, MergePreparedFacts
<1>10. \A e \in Chunk : SameClients(e)
  BY ClientsStill
<1>11. ASSUME NEW e \in subchunks(r) PROVE ChunkInv(e)'
  <2>1. ChunkInv(e) /\ (\A u \in Thread : u # t => ~Has(u, e)) /\ ~Owns(t, e)
    <3>1. CASE e = c
      BY <1>3, <1>5, <3>1, Holders
    <3>2. CASE e # c
      BY <1>3, <1>8, <3>2, Holders DEF Whole, Has
    <3> QED BY <3>1, <3>2
  <2>2. \A u \in Thread : SameOwner(u, e)
    BY DEF SameOwner, clients
  <2>3. ~Owns(t, e)' /\ (t \in Block => e \notin used_chunks'[t])
    BY <2>1 DEF Owns, OwnedBy, clients, ChunkInv
  <2>4. OwnedBy(t, e)'
    BY <2>3 DEF OwnedBy, Owns
  <2>5. WorkedBy(t, e)'
    BY <1>3, <1>5, <1>9 DEF WorkedBy, FreeWork, HoldWork, RootWork, mem_type
  <2>6. Has(t, e)' /\ p'.state[e] = "TEMP_PINNED"
    BY <1>3, <1>4, <1>9 DEF Has
  <2> QED BY <1>3, <2>1, <2>2, <2>4, <2>5, <2>6, OneHolder
<1>12. ChunkInv(root_chunk(r))'
  <2>1. ChunkInv(root_chunk(r)) /\ ~Works(th'[t], root_chunk(r)) /\ SameClients(root_chunk(r))
    BY <1>3, <1>4, <1>10 DEF Whole
  <2> QED BY <1>3, <1>7, <1>9, <2>1, StillUnheld
<1>13. Tree(r)'
  <2>1. root_chunk(r) \notin p'.free
    BY <1>6, <1>7, <1>9 DEF linked, Listing
  <2> QED BY <1>3, <1>9, <2>1 DEF Tree
<1>14. Listing(r)'
  <2>1. Merging(th'[t], r)
    BY <1>2, <1>3 DEF Merging
  <2>2. ~p.in_eviction[r] => ~InUse(r)'
    BY <1>1, <1>9 DEF InUse
  <2> QED BY <1>6, <1>7, <1>9, <2>1, <2>2 DEF Listing
<1>15. Counted(r)'
  <2>1. AllocatedIn(p', r) = subchunks(r) /\ PinnedIn(p', r) = subchunks(r)
    BY <1>9 DEF AllocatedIn, PinnedIn
  <2>2. Cardinality(subchunks(r)) = NSub
    BY SubchunksCounted
  <2>3. th'[t].pc = "merge_locked" /\ th'[t].c[1] = r
    BY <1>2, <1>3
  <2> QED BY <1>1, <1>9, <2>1, <2>2, <2>3 DEF Counted
<1>16. Evicting(r)'
  BY <1>1, <1>2, <1>6, <1>9 DEF Evicting, Moved
<1>17. PmaOf(r)'
  BY <1>6, <1>7, <1>9, PinsStill DEF PmaOf
<1>18. ASSUME NEW u \in Thread PROVE Uses(u, r)' /\ Batched(u, r)'
  <2>1. \A v \in Thread : Uses(v, r) /\ Batched(v, r)
    BY DEF Whole, RootInv
  <2>2. \A v \in Thread : r \notin th'[v].batch
    BY <1>2, <1>7, <2>1 DEF Batched, Moved
  <2>3. \A v \in Thread : th'[v].r = r => v # t /\ th'[v] = th[v] /\ th[v].r = r
    BY <1>1, <1>2 DEF Moved
  <2>4. ASSUME th'[u].r = r PROVE Progress(th[u], r)'
    <3>1. Progress(th[u], r) /\ th'[u] = th[u]
      BY <2>1, <2>3, <2>4 DEF Uses
    <3>2. th[u].pc \notin {"find", "va_block", "relock", "merge"}
      BY <1>3, <1>8, <3>1 DEF Progress
    <3> QED BY <1>7, <1>9, <3>1, <3>2 DEF Progress
  <2> QED BY <2>1, <2>2, <2>3, <2>4 DEF Uses, Batched
<1>19. RootInv(r)'
  BY <1>13, <1>14, <1>15, <1>16, <1>17, <1>18 DEF RootInv
<1>20. Aside(t, r)
  <2>1. WorksIn(th[t], r) /\ WorksIn(th'[t], r)
    BY <1>1, <1>2, <1>3, <1>4 DEF WorksIn
  <2> QED BY <2>1, StaysIn
<1>21. \A e \in family(r) : ChunkInv(e)'
  BY <1>3, <1>11, <1>12
<1> QED BY <1>2, <1>9, <1>10, <1>19, <1>20, <1>21, FrameBeside, OnRoot

LEMMA FreeLockedWhole ==
  ASSUME TypeInv, Discipline, Whole, NEW t \in Thread, FreeLocked(t)
  PROVE  Whole'
<1>1. PICK d \in Decisions : p' = free_or_prepare_for_merge(p, th[t].c, d)
  BY DEF FreeLocked
<1>2. th[t].pc = "free_locked" /\ UNCHANGED <<pma, readers, clients>>
  BY DEF FreeLocked, at, pma_vars
<1>3. PICK c \in Chunk : c = th[t].c
  BY FreeLockedStep
<1>4. TidyOf(th[t]) /\ FlowOf(t, th[t]) /\ th[t] \in Local /\ NoRoot \notin Root
  BY ThreadOrderly, Threads
<1>5. CASE chunk_is_last_allocated_child(p, c)
  <2>1. c[1] \in Root /\ c \in subchunks(c[1]) /\ p.allocated[c[1]] = 1
    BY <1>5, ChunkFacts DEF chunk_is_last_allocated_child, chunk_is_root_chunk
  <2>2. p' = prepare_for_merge(chunk_free_locked(p, c, d), c[1])
    BY <1>1, <1>3, <1>5 DEF free_or_prepare_for_merge
  <2>3. Moved(t) /\ th'[t].pc = "merge_locked" /\ SameLocals(th'[t], th[t])
    BY <1>3, <1>5, FreeLockedStep
  <2> QED BY <1>2, <1>3, <2>1, <2>2, <2>3, MergeBegins
<1>6. CASE ~chunk_is_last_allocated_child(p, c)
  <2>1. p' = chunk_free_locked(p, c, d)
    BY <1>1, <1>3, <1>6 DEF free_or_prepare_for_merge
  <2>2. th[t].r = NoRoot /\ th[t].batch = {} /\ (th[t].op \in {"free", "release"} \/ th[t].ret = "alloc_error")
    BY <1>2, <1>4 DEF TidyOf, RootSteps, FlowOf, Course, Frees, AllocSteps, RangeSteps, PageSteps, EvictSteps
  <2>3. Moved(t) /\ th'[t].pc \notin Working /\ th'[t].r \notin Root /\ th'[t].batch = th[t].batch
    <3>1. CASE th[t].op \in {"free", "release"}
      BY <1>3, <1>4, <1>6, <2>2, <3>1, FreeLockedStep DEF SameLocals, Working, HoldWork, FreeWork, RootWork
    <3>2. CASE th[t].op \notin {"free", "release"}
      BY <1>3, <1>4, <1>6, <2>2, <3>2, FreeLockedStep DEF Resumed, Working, HoldWork, FreeWork, RootWork
    <3> QED BY <3>1, <3>2
  <2> QED BY <1>2, <1>3, <1>6, <2>1, <2>3, FreedForEviction, FreedToList
<1> QED BY <1>5, <1>6

-----------------------------------------------------------------------------
(* Evicting a root chunk.                                                  *)

(* A root chunk on a list, while no thread is merging it: nobody works on  *)
(* a pinned chunk of it.                                                   *)
LEMMA ListedAtRest ==
  ASSUME TypeInv, Discipline, Whole, NEW r \in Root, ~p.in_eviction[r], p.type[r] = "USER",
         p.state[root_chunk(r)] = "FREE" \/ InUse(r)
  PROVE  /\ Unused(r) /\ p.state[root_chunk(r)] # "PMA_OWNED"
         /\ \A c \in family(r) : p.state[c] # "TEMP_PINNED"
<1>1. Tree(r) /\ Counted(r)
  BY DEF Whole, RootInv
<1>2. p.state[root_chunk(r)] \notin {"PMA_OWNED", "TEMP_PINNED"}
  BY DEF InUse
<1>3. Unused(r)
  BY <1>2, RootUsers DEF Unused
<1>4. ASSUME NEW c \in subchunks(r) PROVE p.state[c] # "TEMP_PINNED"
  <2>1. CASE p.state[root_chunk(r)] = "IS_SPLIT"
    <3>1. p.pinned_leaf_chunks[r] = 0 /\ p.pinned_leaf_chunks[r] = Cardinality(PinnedIn(p, r))
      BY <1>1, <2>1 DEF InUse, Counted
    <3>2. PinnedIn(p, r) \in SUBSET subchunks(r)
      BY DEF PinnedIn
    <3>3. PinnedIn(p, r) = {}
      BY <3>1, <3>2, SubchunksPresent
    <3> QED BY <3>3 DEF PinnedIn
  <2>2. CASE p.state[root_chunk(r)] # "IS_SPLIT"
    BY <1>1, <2>2 DEF Tree
  <2> QED BY <2>1, <2>2
<1> QED BY <1>2, <1>3, <1>4 DEF family

LEMMA EvictionBegins ==
  ASSUME TypeInv, Discipline, Whole, NEW t \in Thread, Moved(t), UNCHANGED <<pma, readers, clients>>,
         NEW r \in Root, ~p.in_eviction[r], p.type[r] = "USER", p.state[root_chunk(r)] = "FREE" \/ InUse(r),
         p' = chunk_start_eviction(p, r), th[t].pc \notin Working, th[t].r \notin Root,
         th'[t].r = r, th'[t].pc \in {"pin_free", "lock_range"}, th'[t].batch = th[t].batch
  PROVE  Whole'
<1>1. /\ Unused(r) /\ p.state[root_chunk(r)] # "PMA_OWNED"
      /\ \A c \in family(r) : p.state[c] # "TEMP_PINNED"
  BY ListedAtRest
<1>2. p \in PmmType /\ ListsInjective(p)
  BY StateTyped
<1>3. /\ Frame(p, p', r) /\ linked(p', r) /\ p'.list_state[r] = "EVICTION" /\ p'.in_eviction[r]
      /\ p'.state = p.state /\ p'.va_block = p.va_block /\ p'.type = p.type
      /\ p'.allocated = p.allocated /\ p'.pinned_leaf_chunks = p.pinned_leaf_chunks
      /\ \A e \in Chunk : e # root_chunk(r) => (e \in p'.free <=> e \in p.free)
  BY <1>2, EvictionStarted
<1>4. /\ \A e \in Chunk : ~Works(th[t], e) /\ ~Works(th'[t], e)
      /\ \A s : ~Merging(th[t], s) /\ ~Merging(th'[t], s)
  <2>1. th'[t].pc \notin Working
    BY DEF Working, HoldWork, FreeWork, RootWork
  <2> QED BY <2>1, Workless
<1>5. \A e \in Chunk : SameClients(e)
  BY ClientsStill
<1>6. /\ root_chunk(r) \in family(r) /\ subchunks(r) \subseteq family(r) /\ family(r) \subseteq Chunk
      /\ root_chunk(r) \in Chunk
      /\ \A e \in family(r) : e[1] = r
  BY FamilyFacts DEF family
<1>7. ASSUME NEW e \in family(r) PROVE ChunkInv(e)'
  <2>1. e \in Chunk /\ e[1] = r /\ ChunkInv(e) /\ p.state[e] # "TEMP_PINNED"
    BY <1>1, <1>6 DEF Whole
  <2>2. \A u \in Thread : Works(th'[u], e) <=> Works(th[u], e)
    BY <1>4, <2>1 DEF Moved
  <2>3. \A u \in Thread : Owns(u, e)' <=> Owns(u, e)
    BY DEF Owns, clients
  <2>4. \A u \in Thread : Has(u, e)' <=> Has(u, e)
    BY <2>2, <2>3 DEF Has
  <2>5. ASSUME NEW u \in Thread PROVE OwnedBy(u, e)' /\ WorkedBy(u, e)'
    <3>1. OwnedBy(u, e) /\ WorkedBy(u, e)
      BY <2>1 DEF ChunkInv
    <3>2. OwnedBy(u, e)'
      BY <1>3, <2>1, <2>2, <2>3, <3>1 DEF OwnedBy, clients, mem_type
    <3>3. WorkedBy(u, e)'
      <4>1. CASE u = t
        BY <1>4, <2>1, <4>1 DEF WorkedBy
      <4>2. CASE u # t
        <5>1. th'[u] = th[u]
          BY <4>2 DEF Moved
        <5> QED BY <1>3, <2>1, <3>1, <5>1 DEF WorkedBy, mem_type
      <4> QED BY <4>1, <4>2
    <3> QED BY <3>2, <3>3
  <2> QED BY <1>3, <2>1, <2>4, <2>5 DEF ChunkInv
<1>8. Tree(r) /\ Counted(r) /\ PmaOf(r)
  BY DEF Whole, RootInv
<1>9. Tree(r)'
  <2>1. root_chunk(r) \notin p'.free
    BY <1>3 DEF linked
  <2> QED BY <1>3, <1>6, <1>8, <2>1 DEF Tree
<1>10. Listing(r)'
  BY <1>1, <1>3 DEF Listing
<1>11. Counted(r)'
  BY <1>3, <1>8 DEF Counted, AllocatedIn, PinnedIn
<1>12. Evicting(r)'
  BY DEF Evicting, Evictors
<1>13. PmaOf(r)'
  <2>1. Pinned(r)' <=> Pinned(r)
    BY PinsStill DEF Working, HoldWork, FreeWork, RootWork
  <2> QED BY <1>1, <1>3, <1>8, <2>1 DEF PmaOf
<1>14. ASSUME NEW u \in Thread PROVE Uses(u, r)' /\ Batched(u, r)'
  <2>1. \A v \in Thread : r \notin th'[v].batch /\ (th'[v].r = r => v = t)
    BY <1>1 DEF Unused, Moved
  <2>2. Progress(th[t], r)'
    BY <1>3 DEF Progress
  <2> QED BY <2>1, <2>2 DEF Uses, Batched
<1>15. RootInv(r)'
  BY <1>9, <1>10, <1>11, <1>12, <1>13, <1>14 DEF RootInv
<1>16. Aside(t, r)
  <2>1. WorksIn(th[t], r) /\ WorksIn(th'[t], r)
    BY <1>4 DEF WorksIn
  <2> QED BY <2>1, StaysIn
<1> QED BY <1>3, <1>5, <1>7, <1>15, <1>16, FrameBeside, OnRoot

(* pmm->lock keeps the thread that picks from meeting a merge.             *)
LEMMA PickWhole ==
  ASSUME TypeInv, Discipline, Whole, NEW t \in Thread, Pick(t)
  PROVE  Whole'
<1>1. th[t].pc = "pick" /\ UNCHANGED <<pma, readers, clients>>
  BY DEF Pick, at, pma_vars
<1>2. /\ Moved(t) /\ th'[t].batch = th[t].batch /\ th'[t].pc = "pin_free"
      /\ th'[t].r \in pick_candidates(p)
  BY PickStep
<1>3. PICK r \in Root : r = th'[t].r /\ p' = chunk_start_eviction(p, r)
  BY PickStep
<1>4. p \in PmmType /\ TidyOf(th[t]) /\ NoRoot \notin Root /\ lock = t
  BY <1>1, StateTyped, ThreadOrderly, Threads DEF NeedsLock, Discipline
<1>5. Listing(r)
  BY DEF Whole, RootInv
<1>6. (p.list_state[r] = "FREE" /\ p.type[r] = "USER") \/ Listed(p, r)
  BY <1>2, <1>3, <1>4, <1>5, Candidates DEF Listing, linked, Listed
<1>7. ~p.in_eviction[r]
  BY <1>5, <1>6 DEF Listing, Listed
<1>8. \A u \in Thread : ~Merging(th[u], r)
  BY <1>1, <1>4 DEF Merging, Discipline, NeedsLock
<1>9. p.type[r] = "USER" /\ (p.state[root_chunk(r)] = "FREE" \/ InUse(r))
  BY <1>5, <1>6, <1>7, <1>8 DEF Listing
<1>10. th[t].pc \notin Working /\ th[t].r \notin Root
  BY <1>1, <1>4 DEF TidyOf, RootSteps, Working, HoldWork, FreeWork, RootWork
<1> QED BY <1>1, <1>2, <1>3, <1>7, <1>9, <1>10, EvictionBegins

(* evict_range starts under list_lock alone.                               *)
LEMMA SpinStartWhole ==
  ASSUME TypeInv, Discipline, Whole, Marked, SpinStart
  PROVE  Whole'
<1>1. th[PThread].pc = "spin" /\ th[PThread].lo <= th[PThread].hi /\ UNCHANGED <<pma, readers, clients>>
      /\ PThread \in Thread
  BY Threads DEF SpinStart, at, pma_vars, address
<1>2. PICK r \in Root : r = th[PThread].lo
  BY SpinStartStep
<1>3. /\ Moved(PThread) /\ th'[PThread].batch = th[PThread].batch /\ th'[PThread].pc = "lock_range"
      /\ th'[PThread].r = r /\ p' = chunk_start_eviction(p, r) /\ chunk_is_evictable(p, r)
  BY <1>2, SpinStartStep
<1>4. /\ p \in PmmType /\ TidyOf(th[PThread]) /\ NoRoot \notin Root /\ th[PThread] \in Local
      /\ th[PThread].op = "range"
  BY <1>1, StateTyped, ThreadOrderly, Threads, Courses DEF RangeSteps
<1>5. p.state[root_chunk(r)] # "PMA_OWNED" /\ ~p.in_eviction[r] /\ ~chunk_is_root_chunk_pinned(p, r)
  BY <1>3 DEF chunk_is_evictable
<1>6. p.type[r] = "USER"
  <2>1. r \in evicting
    <3>1. th[PThread].lo \in Nat /\ th[PThread].hi \in Nat
      BY <1>4 DEF Local
    <3>2. r \in th[PThread].lo .. th[PThread].hi
      BY <1>1, <1>2, <3>1
    <3> QED BY <1>4, <3>2 DEF Marked
  <2>2. pma[r] \in {"free", "unpinned"}
    BY <1>4, <2>1 DEF Marked
  <2>3. pma[r] = IF Pinned(r) THEN "pinned" ELSE pma_state(p.type[r])
    BY <1>5 DEF Whole, RootInv, PmaOf
  <2>4. p.type[r] \in MemoryTypes
    BY <1>4, Fields
  <2> QED BY <2>2, <2>3, <2>4 DEF pma_state, MemoryTypes
<1>7. p.state[root_chunk(r)] = "FREE" \/ InUse(r)
  <2>1. Tree(r) /\ Counted(r)
    BY DEF Whole, RootInv
  <2>2. p.state[root_chunk(r)] \in {"FREE", "IS_SPLIT", "ALLOCATED"}
    <3>1. p.state[root_chunk(r)] \in ChunkStates
      <4>1. p.state \in [Chunk -> ChunkStates] /\ root_chunk(r) \in Chunk
        BY <1>4, Fields, ChunkFacts
      <4> QED BY <4>1
    <3> QED BY <1>5, <2>1, <3>1 DEF Tree, ChunkStates, chunk_is_root_chunk_pinned
  <2>3. CASE p.state[root_chunk(r)] = "IS_SPLIT"
    <3>1. ~(p.pinned_leaf_chunks[r] > 0)
      BY <1>5, <2>3 DEF chunk_is_root_chunk_pinned
    <3>2. p.pinned_leaf_chunks[r] \in Nat
      <4>1. p.pinned_leaf_chunks[r] = Cardinality(PinnedIn(p, r)) /\ PinnedIn(p, r) \in SUBSET subchunks(r)
        BY <1>5, <2>1, <2>3 DEF Counted, PinnedIn
      <4> QED BY <4>1, SomeSubchunks
    <3>3. p.pinned_leaf_chunks[r] = 0
      BY <3>1, <3>2
    <3> QED BY <1>6, <2>3, <3>3 DEF InUse
  <2> QED BY <1>6, <2>2, <2>3 DEF InUse
<1>8. th[PThread].pc \notin Working /\ th[PThread].r \notin Root
  BY <1>1, <1>4 DEF TidyOf, RootSteps, Working, HoldWork, FreeWork, RootWork
<1> QED BY <1>1, <1>3, <1>5, <1>6, <1>7, <1>8, EvictionBegins

(* The root chunk that thread t evicts, and the other threads: they may    *)
(* free chunks of it.                                                      *)
LEMMA EvictorFacts ==
  ASSUME TypeInv, Discipline, Whole, NEW t \in Thread, th[t].pc \in Evictors
  PROVE  /\ th[t].r \in Root /\ p.in_eviction[th[t].r]
         /\ RootInv(th[t].r) /\ Progress(th[t], th[t].r)
         /\ \A u \in Thread : th[u].r = th[t].r => u = t
         /\ p.state[root_chunk(th[t].r)] # "PMA_OWNED"
         /\ \A u \in Thread : th[t].r \notin th[u].batch
         /\ \A e \in Chunk : ~Works(th[t], e)
<1>1. th[t].r \in Root
  BY ThreadOrderly DEF FlowOf, Locals, RootSteps, Evictors
<1>2. /\ RootInv(th[t].r) /\ Progress(th[t], th[t].r)
      /\ \A u \in Thread : th[u].r = th[t].r => u = t
  BY <1>1, UserProgress
<1>3. p.in_eviction[th[t].r]
  BY <1>2 DEF Progress
<1>4. p.state[root_chunk(th[t].r)] # "PMA_OWNED"
  BY <1>2, <1>3 DEF RootInv, Listing
<1>5. \A u \in Thread : th[t].r \notin th[u].batch
  BY <1>2, <1>4 DEF RootInv, Batched
<1>6. \A e \in Chunk : ~Works(th[t], e)
  BY Workless DEF Evictors, Working, HoldWork, FreeWork, RootWork
<1> QED BY <1>1, <1>2, <1>3, <1>4, <1>5, <1>6

LEMMA PinFreeWhole ==
  ASSUME TypeInv, Discipline, Whole, NEW t \in Thread, PinFree(t)
  PROVE  Whole'
<1>1. th[t].pc = "pin_free" /\ UNCHANGED <<pma, readers, clients>>
  BY DEF PinFree, at, pma_vars
<1>2. PICK r \in Root : r = th[t].r
  BY PinFreeStep
<1>3. Moved(t) /\ th'[t].r = r /\ th'[t].batch = th[t].batch /\ th'[t].pc = "find"
  BY <1>2, PinFreeStep
<1>4. /\ p.in_eviction[r] /\ RootInv(r) /\ (\A u \in Thread : th[u].r = r => u = t)
      /\ p.state[root_chunk(r)] # "PMA_OWNED" /\ (\A u \in Thread : r \notin th[u].batch)
      /\ \A e \in Chunk : ~Works(th[t], e) /\ ~Works(th'[t], e)
  <2>1. th[t].pc \in Evictors /\ th'[t].pc \notin Working
    BY <1>1, <1>3 DEF Evictors, Working, HoldWork, FreeWork, RootWork
  <2> QED BY <1>2, <2>1, EvictorFacts, Workless
<1>5. p \in PmmType /\ ListsInjective(p) /\ lock = t
  BY <1>1, StateTyped DEF Discipline, NeedsLock
<1> DEFINE cs == {c \in family(r) : p.state[c] = "FREE"}
<1>6. /\ Frame(p, p', r) /\ (linked(p, r) => linked(p', r))
      /\ p'.list_state[r] = IF p.state[root_chunk(r)] = "FREE" THEN "EVICTION" ELSE p.list_state[r]
      /\ \A e \in Chunk : e # root_chunk(r) => (e \in p'.free <=> e \in p.free /\ e \notin cs)
      /\ \A e \in Chunk : p'.state[e] = IF e \in cs THEN "TEMP_PINNED" ELSE p.state[e]
      /\ p'.va_block = p.va_block /\ p'.type = p.type /\ p'.in_eviction = p.in_eviction
      /\ p'.allocated[r] = p.allocated[r] + Cardinality(cs \cap subchunks(r))
      /\ p'.pinned_leaf_chunks[r] = p.pinned_leaf_chunks[r] + Cardinality(cs \cap subchunks(r))
  <2>1. p' = pin_free_chunks(p, r)
    BY <1>2 DEF PinFree
  <2>2. LET u == pin_free_chunks(p, r)
        IN  /\ Frame(p, u, r) /\ (linked(p, r) => linked(u, r))
            /\ u.list_state[r] = IF p.state[root_chunk(r)] = "FREE" THEN "EVICTION" ELSE p.list_state[r]
            /\ \A e \in Chunk : e # root_chunk(r) => (e \in u.free <=> e \in p.free /\ e \notin cs)
            /\ \A e \in Chunk : u.state[e] = IF e \in cs THEN "TEMP_PINNED" ELSE p.state[e]
            /\ u.va_block = p.va_block /\ u.type = p.type /\ u.in_eviction = p.in_eviction
            /\ u.allocated[r] = p.allocated[r] + Cardinality(cs \cap subchunks(r))
            /\ u.pinned_leaf_chunks[r] = p.pinned_leaf_chunks[r] + Cardinality(cs \cap subchunks(r))
    BY <1>5, FreePinned, ZenonT(30)
  <2> QED BY <2>1, <2>2
<1>7. \A e \in Chunk : SameClients(e)
  BY <1>1, ClientsStill
<1>8. /\ root_chunk(r) \in family(r) /\ subchunks(r) \subseteq family(r) /\ family(r) \subseteq Chunk
      /\ root_chunk(r) \notin subchunks(r) /\ root_chunk(r) \in Chunk
      /\ family(r) = {root_chunk(r)} \cup subchunks(r)
      /\ \A e \in family(r) : e[1] = r
  BY FamilyFacts, ChunkFacts DEF family
<1>9. Tree(r) /\ Listing(r) /\ Counted(r) /\ PmaOf(r)
  BY <1>4 DEF RootInv
<1>10. p'.state[root_chunk(r)] = IF p.state[root_chunk(r)] = "FREE" THEN "TEMP_PINNED" ELSE p.state[root_chunk(r)]
  BY <1>6, <1>8
<1>11. ASSUME NEW e \in family(r) PROVE ChunkInv(e)'
  <2>1. e \in Chunk /\ e[1] = r /\ ChunkInv(e)
    BY <1>8 DEF Whole
  <2>2. CASE p.state[e] \notin {"TEMP_PINNED", "ALLOCATED"}
    <3>1. (\A u \in Thread : ~Has(u, e)') /\ \A b \in Block : e \notin used_chunks'[b]
      BY <1>3, <1>4, <1>7, <2>1, <2>2, StillUnheld
    <3>2. p'.state[e] # "ALLOCATED" /\ p'.in_eviction[e[1]]
      BY <1>4, <1>6, <2>1, <2>2
    <3> QED BY <2>1, <3>1, <3>2, NobodyHolds
  <2>3. CASE p.state[e] \in {"TEMP_PINNED", "ALLOCATED"}
    <3>1. p'.state[e] = p.state[e] /\ (e # root_chunk(r) => p.state[root_chunk(r)] = "IS_SPLIT")
      BY <1>6, <1>8, <1>9, <2>1, <2>3 DEF Tree
    <3>2. SameChunk(e)
      BY <1>6, <1>8, <1>10, <2>1, <2>3, <3>1 DEF SameChunk
    <3>3. Onward(th'[t], th[t], e)
      BY <1>4, <2>1 DEF Onward
    <3> QED BY <1>3, <1>7, <2>1, <3>2, <3>3, ChunkKept
  <2> QED BY <2>2, <2>3
<1>12. linked(p', r) /\ p'.list_state[r] = "EVICTION" /\ p'.type[r] = "USER"
  BY <1>4, <1>6, <1>9 DEF Listing
<1>13. Tree(r)'
  <2>1. root_chunk(r) \notin p'.free
    BY <1>12 DEF linked
  <2>2. \A e \in family(r) : e \notin p'.free
    BY <1>6, <1>8, <1>9, <2>1 DEF Tree
  <2> QED BY <1>6, <1>8, <1>9, <1>10, <2>2 DEF Tree
<1>14. Listing(r)'
  BY <1>4, <1>6, <1>10, <1>12 DEF Listing
<1>15. Counted(r)'
  <2> SUFFICES ASSUME p'.state[root_chunk(r)] = "IS_SPLIT" PROVE Counted(r)'
    BY DEF Counted
  <2> DEFINE F == cs \cap subchunks(r)
  <2>1. p.state[root_chunk(r)] = "IS_SPLIT"
    BY <1>10
  <2>2. ~\E u \in Thread : th[u].pc = "merge_locked" /\ th[u].c[1] = r
    BY <1>1, <1>5 DEF Discipline, NeedsLock
  <2>3. /\ F \in SUBSET subchunks(r) /\ AllocatedIn(p, r) \in SUBSET subchunks(r)
        /\ PinnedIn(p, r) \in SUBSET subchunks(r)
        /\ AllocatedIn(p, r) \cap F = {} /\ PinnedIn(p, r) \cap F = {}
    BY DEF AllocatedIn, PinnedIn
  <2>4. AllocatedIn(p', r) = AllocatedIn(p, r) \cup F /\ PinnedIn(p', r) = PinnedIn(p, r) \cup F
    BY <1>6, <1>8 DEF AllocatedIn, PinnedIn
  <2>5. /\ p.allocated[r] = Cardinality(AllocatedIn(p, r)) /\ p.allocated[r] > 0
        /\ p.pinned_leaf_chunks[r] = Cardinality(PinnedIn(p, r))
    BY <1>9, <2>1, <2>2 DEF Counted
  <2>6. p'.allocated[r] = p.allocated[r] + Cardinality(F) /\ p'.pinned_leaf_chunks[r] = p.pinned_leaf_chunks[r] + Cardinality(F)
    BY <1>6
  <2> HIDE DEF F
  <2>7. /\ Cardinality(AllocatedIn(p', r)) = Cardinality(AllocatedIn(p, r)) + Cardinality(F)
        /\ Cardinality(PinnedIn(p', r)) = Cardinality(PinnedIn(p, r)) + Cardinality(F)
        /\ Cardinality(F) \in Nat /\ Cardinality(AllocatedIn(p, r)) \in Nat
    <3>1. /\ Cardinality(AllocatedIn(p, r) \cup F) = Cardinality(AllocatedIn(p, r)) + Cardinality(F)
          /\ Cardinality(F) \in Nat /\ Cardinality(AllocatedIn(p, r)) \in Nat
      BY <2>3, SubchunksUnited
    <3>2. Cardinality(PinnedIn(p, r) \cup F) = Cardinality(PinnedIn(p, r)) + Cardinality(F)
      BY <2>3, SubchunksUnited
    <3> QED BY <2>4, <3>1, <3>2
  <2> QED BY <2>5, <2>6, <2>7 DEF Counted
<1>16. Evicting(r)'
  BY <1>3 DEF Evicting, Evictors
<1>17. PmaOf(r)'
  <2>1. Pinned(r)' <=> Pinned(r)
    BY <1>1, <1>3, PinsStill
  <2> QED BY <1>1, <1>4, <1>6, <1>9, <1>10, <2>1 DEF PmaOf
<1>18. ASSUME NEW u \in Thread PROVE Uses(u, r)' /\ Batched(u, r)'
  <2>1. \A v \in Thread : r \notin th'[v].batch /\ (th'[v].r = r => v = t)
    BY <1>3, <1>4 DEF Moved
  <2>2. ASSUME NEW c \in family(r), NEW v \in Thread, Works(th'[v], c) PROVE p'.state[c] = "ALLOCATED"
    <3>1. v # t /\ th'[v] = th[v] /\ c \in Chunk /\ c[1] = r
      BY <1>3, <1>4, <1>8, <2>2 DEF Moved
    <3>2. WorkedBy(v, c) /\ Works(th[v], c)
      BY <2>2, <3>1 DEF Whole, ChunkInv
    <3>3. th[v].pc \notin {"free_locked", "merge_locked"}
      BY <1>5, <3>1 DEF Discipline, NeedsLock
    <3>4. p.state[c] = "ALLOCATED"
      BY <1>4, <3>1, <3>2, <3>3 DEF WorkedBy, Works, HoldWork, FreeWork, RootWork
    <3> QED BY <1>6, <3>1, <3>4
  <2>3. \A c \in family(r) : p'.state[c] # "FREE"
    BY <1>6, <1>8
  <2>4. Progress(th[t], r)'
    BY <1>3, <1>4, <1>6, <2>2, <2>3 DEF Progress
  <2> QED BY <2>1, <2>4 DEF Uses, Batched
<1>19. RootInv(r)'
  BY <1>13, <1>14, <1>15, <1>16, <1>17, <1>18 DEF RootInv
<1>20. Aside(t, r)
  <2>1. WorksIn(th[t], r) /\ WorksIn(th'[t], r)
    BY <1>2, <1>3, <1>4 DEF WorksIn
  <2> QED BY <2>1, StaysIn
<1> QED BY <1>1, <1>3, <1>6, <1>7, <1>11, <1>19, <1>20, FrameBeside, OnRoot

(* uvm_va_block_evict_chunks takes the block's chunks of the root chunk:   *)
(* none of them is pinned, since it is in eviction.                        *)
LEMMA EvictBlockWhole ==
  ASSUME TypeInv, Discipline, Whole, NEW t \in Thread, EvictBlock(t)
  PROVE  Whole'
<1>1. th[t].pc = "va_block" /\ UNCHANGED <<pma, readers, used_chunks, free_chunks, kchunks>>
  BY DEF EvictBlock, at, pma_vars
<1>2. PICK r \in Root : r = th[t].r
  BY EvictBlockStep
<1>3. Moved(t) /\ th'[t].r = r /\ th'[t].batch = th[t].batch /\ th'[t].pc = "relock"
  BY <1>2, EvictBlockStep
<1>4. /\ p.in_eviction[r] /\ RootInv(r) /\ Progress(th[t], r) /\ (\A u \in Thread : th[u].r = r => u = t)
      /\ p.state[root_chunk(r)] # "PMA_OWNED" /\ (\A u \in Thread : r \notin th[u].batch)
      /\ \A e \in Chunk : ~Works(th[t], e) /\ ~Works(th'[t], e)
  <2>1. th[t].pc \in Evictors /\ th'[t].pc \notin Working
    BY <1>1, <1>3 DEF Evictors, Working, HoldWork, FreeWork, RootWork
  <2> QED BY <1>2, <2>1, EvictorFacts, Workless
<1>5. PICK b \in Block : b = th[t].va
  BY <1>1, <1>4 DEF Progress
<1>6. /\ p \in PmmType /\ ListsInjective(p) /\ chunks \in [Block -> SUBSET Chunk]
      /\ b \in Thread /\ b # KThread
  BY StateTyped, Threads DEF RestTyped
<1> DEFINE cs == {c \in chunks[b] : c[1] = r}
<1>7. p' = mark_chunks_evicted(p, r, cs) /\ chunks' = [chunks EXCEPT ![b] = chunks[b] \ cs]
  BY <1>2, <1>5 DEF EvictBlock, evict_chunks
<1>8. /\ root_chunk(r) \in family(r) /\ subchunks(r) \subseteq family(r) /\ family(r) \subseteq Chunk
      /\ root_chunk(r) \notin subchunks(r) /\ root_chunk(r) \in Chunk
      /\ family(r) = {root_chunk(r)} \cup subchunks(r)
      /\ \A e \in family(r) : e[1] = r
      /\ \A e \in Chunk : e[1] = r => e \in family(r)
  BY FamilyFacts, ChunkFacts DEF family
<1>9. cs \subseteq family(r)
  BY <1>6, <1>8
<1>10. /\ Frame(p, p', r) /\ SameLists(p, p') /\ p'.free = p.free
       /\ \A e \in Chunk : p'.state[e] = IF e \in cs THEN "TEMP_PINNED" ELSE p.state[e]
       /\ \A e \in Chunk : p'.va_block[e] = IF e \in cs THEN NoBlock ELSE p.va_block[e]
       /\ p'.type = p.type /\ p'.in_eviction = p.in_eviction /\ p'.allocated = p.allocated
       /\ p'.pinned_leaf_chunks[r] = p.pinned_leaf_chunks[r] + Cardinality(cs \cap subchunks(r))
  BY <1>6, <1>7, <1>9, MarkedEvicted
<1>11. ASSUME NEW e \in cs
       PROVE  /\ p.state[e] = "ALLOCATED" /\ e \notin used_chunks[b] /\ e \notin free_chunks[b]
              /\ \A u \in Thread : /\ u # b => ~Has(u, e)
                                   /\ ~Works(th[u], e)
              /\ ChunkInv(e)
  <2>1. e \in Chunk /\ e[1] = r /\ ChunkInv(e) /\ e \in chunks[b]
    BY <1>8, <1>9 DEF Whole
  <2>2. Owns(b, e) /\ Has(b, e) /\ OwnedBy(b, e)
    BY <1>6, <2>1 DEF Owns, Has, ChunkInv
  <2>3. \A u \in Thread : u # b => ~Has(u, e)
    BY <1>6, <2>1, <2>2, Holders
  <2> QED BY <1>4, <2>1, <2>2, <2>3 DEF OwnedBy, Has
<1>12. \A e \in Chunk : e \notin cs => SameClients(e)
  BY <1>1, <1>6, <1>7 DEF SameClients
<1>13. Tree(r) /\ Listing(r) /\ Counted(r) /\ PmaOf(r)
  BY <1>4 DEF RootInv
<1>14. p'.state[root_chunk(r)] = IF root_chunk(r) \in cs THEN "TEMP_PINNED" ELSE p.state[root_chunk(r)]
  BY <1>8, <1>10
<1>15. ASSUME NEW e \in family(r) PROVE ChunkInv(e)'
  <2>1. e \in Chunk /\ e[1] = r /\ ChunkInv(e)
    BY <1>8 DEF Whole
  <2>2. CASE e \in cs
    <3>1. e \notin chunks'[b] /\ e \notin used_chunks'[b] /\ e \notin free_chunks'[b]
      BY <1>1, <1>6, <1>7, <1>11, <2>2
    <3>2. \A u \in Thread : u # b => ~Owns(u, e)' /\ (u \in Block => e \notin used_chunks'[u])
      <4> SUFFICES ASSUME NEW u \in Thread, u # b
                   PROVE  ~Owns(u, e)' /\ (u \in Block => e \notin used_chunks'[u])
        OBVIOUS
      <4>1. ~Owns(u, e) /\ OwnedBy(u, e)
        BY <1>11, <2>1, <2>2 DEF Has, ChunkInv
      <4>2. u \in Block => chunks'[u] = chunks[u]
        BY <1>6, <1>7
      <4> QED BY <1>1, <4>1, <4>2 DEF Owns, OwnedBy
    <3>3. \A u \in Thread : ~Works(th'[u], e)
      BY <1>3, <1>4, <1>11, <2>1, <2>2 DEF Moved
    <3>4. \A u \in Thread : ~Has(u, e)'
      BY <1>6, <3>1, <3>2, <3>3 DEF Has, Owns
    <3>5. \A a \in Block : e \notin used_chunks'[a]
      BY <3>1, <3>2, Threads
    <3>6. p'.state[e] = "TEMP_PINNED" /\ p'.in_eviction[e[1]]
      BY <1>4, <1>10, <2>1, <2>2
    <3> QED BY <2>1, <3>4, <3>5, <3>6, NobodyHolds
  <2>3. CASE e \notin cs
    <3>1. CASE root_chunk(r) \in cs /\ e # root_chunk(r)
      <4>1. p.state[e] = "NO_CHUNK"
        BY <1>8, <1>11, <1>13, <3>1 DEF Tree
      <4> QED BY <1>3, <1>4, <1>10, <1>12, <2>1, <2>3, <4>1, StillUnheld
    <3>2. CASE ~(root_chunk(r) \in cs /\ e # root_chunk(r))
      <4>1. SameChunk(e)
        BY <1>10, <1>14, <2>1, <2>3, <3>2 DEF SameChunk
      <4>2. Onward(th'[t], th[t], e)
        BY <1>4, <2>1 DEF Onward
      <4> QED BY <1>3, <1>12, <2>1, <2>3, <4>1, <4>2, ChunkKept
    <3> QED BY <3>1, <3>2
  <2> QED BY <2>2, <2>3
<1>16. Tree(r)'
  BY <1>8, <1>10, <1>11, <1>13, <1>14 DEF Tree
<1>17. Listing(r)'
  <2>1. linked(p', r) /\ p'.list_state[r] = p.list_state[r]
    BY <1>10, <1>13 DEF Listing, linked, SameLists
  <2> QED BY <1>4, <1>10, <1>13, <1>14, <2>1 DEF Listing
<1>18. Counted(r)'
  <2> SUFFICES ASSUME p'.state[root_chunk(r)] = "IS_SPLIT" PROVE Counted(r)'
    BY DEF Counted
  <2> DEFINE F == cs \cap subchunks(r)
  <2>1. p.state[root_chunk(r)] = "IS_SPLIT"
    BY <1>14
  <2>2. ~\E u \in Thread : th[u].pc = "merge_locked" /\ th[u].c[1] = r
    <3> SUFFICES ASSUME NEW u \in Thread, th[u].pc = "merge_locked", th[u].c[1] = r PROVE FALSE
      OBVIOUS
    <3>1. <<r, 1>> \in Chunk /\ <<r, 1>>[1] = r /\ <<r, 1>>[2] # 0
      BY ChunkFacts
    <3>2. PICK e \in family(r) : e \in Chunk /\ e[1] = r /\ e[2] # 0
      BY <1>8, <3>1
    <3>3. Works(th[u], e) /\ WorkedBy(u, e)
      BY <3>2 DEF Works, Whole, ChunkInv
    <3>4. p.state[e] = "ALLOCATED"
      BY <1>1, <1>4, <3>2, <3>3 DEF Progress
    <3> QED BY <3>3, <3>4 DEF WorkedBy
  <2>3. /\ F \in SUBSET subchunks(r) /\ PinnedIn(p, r) \in SUBSET subchunks(r) /\ PinnedIn(p, r) \cap F = {}
    BY <1>11 DEF PinnedIn
  <2>4. AllocatedIn(p', r) = AllocatedIn(p, r) /\ PinnedIn(p', r) = PinnedIn(p, r) \cup F
    BY <1>8, <1>10, <1>11 DEF AllocatedIn, PinnedIn
  <2>5. /\ p.allocated[r] = Cardinality(AllocatedIn(p, r)) /\ p.allocated[r] > 0
        /\ p.pinned_leaf_chunks[r] = Cardinality(PinnedIn(p, r))
    BY <1>13, <2>1, <2>2 DEF Counted
  <2>6. p'.allocated[r] = p.allocated[r] /\ p'.pinned_leaf_chunks[r] = p.pinned_leaf_chunks[r] + Cardinality(F)
    BY <1>10
  <2> HIDE DEF F
  <2>7. Cardinality(PinnedIn(p, r) \cup F) = Cardinality(PinnedIn(p, r)) + Cardinality(F)
    BY <2>3, SubchunksUnited
  <2> QED BY <2>4, <2>5, <2>6, <2>7 DEF Counted
<1>19. Evicting(r)'
  BY <1>3 DEF Evicting, Evictors
<1>20. PmaOf(r)'
  <2>1. Pinned(r)' <=> Pinned(r)
    BY <1>1, <1>3, PinsStill
  <2> QED BY <1>1, <1>4, <1>10, <1>13, <1>14, <2>1 DEF PmaOf
<1>21. ASSUME NEW u \in Thread PROVE Uses(u, r)' /\ Batched(u, r)'
  <2>1. \A v \in Thread : r \notin th'[v].batch /\ (th'[v].r = r => v = t)
    BY <1>3, <1>4 DEF Moved
  <2>2. ASSUME NEW c \in family(r), NEW v \in Thread, Works(th'[v], c) PROVE p'.state[c] = "ALLOCATED"
    <3>1. v # t /\ th'[v] = th[v] /\ c \in Chunk
      BY <1>3, <1>4, <1>8, <2>2 DEF Moved
    <3>2. p.state[c] = "ALLOCATED" /\ c \notin cs
      BY <1>1, <1>4, <1>11, <2>2, <3>1 DEF Progress
    <3> QED BY <1>10, <3>1, <3>2
  <2>3. \A c \in family(r) : p'.state[c] # "FREE"
    BY <1>1, <1>4, <1>8, <1>10 DEF Progress
  <2>4. Progress(th[t], r)'
    BY <1>3, <1>4, <1>10, <2>2, <2>3 DEF Progress
  <2> QED BY <2>1, <2>4 DEF Uses, Batched
<1>22. RootInv(r)'
  BY <1>16, <1>17, <1>18, <1>19, <1>20, <1>21 DEF RootInv
<1>23. Aside(t, r)
  <2>1. WorksIn(th[t], r) /\ WorksIn(th'[t], r)
    BY <1>2, <1>3, <1>4 DEF WorksIn
  <2> QED BY <2>1, StaysIn
<1>24. \A e \in Chunk : e[1] # r => SameClients(e)
  BY <1>12
<1> QED BY <1>1, <1>3, <1>10, <1>15, <1>22, <1>23, <1>24, FrameBeside, OnRoot

(* Nobody holds a chunk of a root chunk that is about to leave eviction.   *)
LEMMA EvictionEnds ==
  ASSUME TypeInv, Discipline, Whole, NEW t \in Thread, Moved(t), UNCHANGED <<pma, readers, clients>>,
         th[t].pc = "merge", NEW r \in Root, r = th[t].r, p' = evict_merge(p, r),
         th'[t].batch = th[t].batch,
         \/ th'[t].r = r /\ th'[t].pc \in RootWork \ {"set_type"}
         \/ th'[t].r = NoRoot /\ th'[t].c = root_chunk(r) /\ th'[t].pc \in {"done", "split"} /\ t \in Block
  PROVE  Whole'
<1>1. /\ p.in_eviction[r] /\ RootInv(r) /\ Progress(th[t], r) /\ (\A u \in Thread : th[u].r = r => u = t)
      /\ p.state[root_chunk(r)] # "PMA_OWNED" /\ (\A u \in Thread : r \notin th[u].batch)
      /\ \A e \in Chunk : ~Works(th[t], e)
  BY EvictorFacts DEF Evictors
<1>2. p \in PmmType /\ ListsInjective(p) /\ NoRoot \notin Root
  BY StateTyped, Threads
<1>3. /\ root_chunk(r) \in family(r) /\ subchunks(r) \subseteq family(r) /\ family(r) \subseteq Chunk
      /\ root_chunk(r) \notin subchunks(r) /\ root_chunk(r) \in Chunk
      /\ family(r) = {root_chunk(r)} \cup subchunks(r) /\ <<r, 1>> \in subchunks(r)
      /\ \A e \in family(r) : e[1] = r
      /\ root_chunk(r)[1] = r
  BY FamilyFacts, ChunkFacts DEF family
<1>4. Tree(r) /\ Listing(r) /\ PmaOf(r)
  BY <1>1 DEF RootInv
<1>5. \A e \in family(r) : /\ p.state[e] \notin {"FREE", "ALLOCATED"}
                           /\ \A u \in Thread : ~Works(th[u], e)
  BY <1>1 DEF Progress
<1>6. ASSUME NEW e \in family(r), NEW u \in Thread
      PROVE  ~Has(u, e) /\ ~Owns(u, e) /\ (u \in Block => e \notin used_chunks[u])
  <2>1. e \in Chunk /\ e[1] = r /\ OwnedBy(u, e)
    BY <1>3 DEF Whole, ChunkInv
  <2>2. ~Owns(u, e)
    BY <1>1, <1>5, <2>1, Threads DEF OwnedBy, Owns
  <2> QED BY <1>5, <2>1, <2>2 DEF Has, OwnedBy, Owns
<1>7. /\ Frame(p, p', r) /\ SameLists(p, p') /\ p'.free = p.free /\ p'.type = p.type /\ ~p'.in_eviction[r]
      /\ p'.state[root_chunk(r)] = "TEMP_PINNED"
      /\ \A e \in subchunks(r) : p'.state[e] = "NO_CHUNK"
  <2>1. p.state[root_chunk(r)] \in {"IS_SPLIT", "TEMP_PINNED"}
    <3>1. p.state[root_chunk(r)] \in ChunkStates
      <4>1. p.state \in [Chunk -> ChunkStates]
        BY <1>2, Fields
      <4> QED BY <1>3, <4>1
    <3> QED BY <1>1, <1>3, <1>4, <1>5, <3>1 DEF Tree, ChunkStates
  <2>2. /\ p.state[root_chunk(r)] = "IS_SPLIT" => p.state[<<r, 1>>] = "TEMP_PINNED"
        /\ p.state[root_chunk(r)] # "IS_SPLIT" => \A e \in subchunks(r) : p.state[e] = "NO_CHUNK"
    BY <1>3, <1>4, <1>5 DEF Tree
  <2>3. /\ Frame(p, p', r) /\ SameLists(p, p') /\ p'.free = p.free
        /\ p'.state[root_chunk(r)] =
             IF p.state[root_chunk(r)] = "IS_SPLIT" THEN p.state[<<r, 1>>] ELSE p.state[root_chunk(r)]
        /\ \A e \in subchunks(r) : p'.state[e] = IF p.state[root_chunk(r)] = "IS_SPLIT"
                                                 THEN "NO_CHUNK" ELSE p.state[e]
        /\ p'.type = p.type /\ ~p'.in_eviction[r]
    BY <1>2, EvictMerged
  <2> QED BY <2>1, <2>2, <2>3
<1>8. \A e \in Chunk : Works(th'[t], e) <=> e = root_chunk(r)
  BY <1>2, <1>3 DEF Works, HoldWork, FreeWork, RootWork
<1>9. ASSUME NEW e \in family(r), NEW u \in Thread
      PROVE  ~Owns(u, e)' /\ SameOwner(u, e) /\ (u \in Block => e \notin used_chunks'[u])
  BY <1>6 DEF Owns, clients, SameOwner
<1>10. ASSUME NEW e \in family(r) PROVE ChunkInv(e)'
  <2>1. e \in Chunk /\ e[1] = r /\ ChunkInv(e)
    BY <1>3 DEF Whole
  <2>2. CASE e = root_chunk(r)
    <3>1. OwnedBy(t, e)'
      BY <1>9 DEF OwnedBy, Owns
    <3>2. WorkedBy(t, e)'
      <4>1. p'.type[r] = "USER"
        BY <1>1, <1>4, <1>7 DEF Listing
      <4> QED BY <1>7, <2>1, <2>2, <4>1 DEF WorkedBy, HoldWork, FreeWork, RootWork, mem_type
    <3>3. Has(t, e)' /\ p'.state[e] = "TEMP_PINNED"
      BY <1>7, <1>8, <2>1, <2>2 DEF Has
    <3> QED BY <1>6, <1>9, <2>1, <3>1, <3>2, <3>3, OneHolder
  <2>3. CASE e # root_chunk(r)
    <3>1. \A u \in Thread : ~Works(th'[u], e)
      BY <1>5, <1>8, <2>1, <2>3 DEF Moved
    <3>2. \A u \in Thread : ~Has(u, e)'
      BY <1>9, <3>1 DEF Has
    <3>3. p'.state[e] = "NO_CHUNK" /\ \A b \in Block : e \notin used_chunks'[b]
      BY <1>3, <1>7, <1>9, <2>3, Threads
    <3> QED BY <2>1, <3>2, <3>3, NobodyHolds
  <2> QED BY <2>2, <2>3
<1>11. Tree(r)'
  BY <1>3, <1>4, <1>5, <1>7 DEF Tree
<1>12. Listing(r)'
  <2>1. linked(p', r) /\ p'.list_state[r] = "EVICTION"
    BY <1>1, <1>4, <1>7 DEF Listing, linked, SameLists
  <2> QED BY <1>7, <2>1 DEF Listing, Listed, InUse
<1>13. Counted(r)' /\ Evicting(r)'
  BY <1>7 DEF Counted, Evicting
<1>14. PmaOf(r)'
  <2>1. Pinned(r)' <=> Pinned(r)
    BY PinsStill
  <2> QED BY <1>1, <1>4, <1>7, <2>1 DEF PmaOf
<1>15. ASSUME NEW u \in Thread PROVE Uses(u, r)' /\ Batched(u, r)'
  <2>1. \A v \in Thread : r \notin th'[v].batch /\ (th'[v].r = r => v = t)
    BY <1>1 DEF Moved
  <2>2. th'[t].r = r => Progress(th[t], r)'
    BY <1>2 DEF Progress, RootWork, Evictors
  <2> QED BY <2>1, <2>2 DEF Uses, Batched
<1>16. RootInv(r)'
  BY <1>11, <1>12, <1>13, <1>14, <1>15 DEF RootInv
<1>17. Aside(t, r)
  <2>1. WorksIn(th[t], r) /\ WorksIn(th'[t], r)
    BY <1>1, <1>2, <1>3, <1>8 DEF WorksIn
  <2> QED BY <2>1, StaysIn
<1> QED BY <1>7, <1>10, <1>16, <1>17, ClientsStill, FrameBeside, OnRoot

LEMMA EvictMergeWhole ==
  ASSUME TypeInv, Discipline, Whole, NEW t \in Thread, EvictMerge(t)
  PROVE  Whole'
<1>1. th[t].pc = "merge" /\ UNCHANGED <<pma, readers, clients>>
  BY DEF EvictMerge, at, pma_vars
<1>2. PICK r \in Root : r = th[t].r
  BY EvictMergeStep
<1>3. p' = evict_merge(p, r) /\ Moved(t)
  BY <1>2, EvictMergeStep DEF EvictMerge
<1>4. th[t].op = "pages" => t \notin Block
  BY ThreadOrderly, Threads DEF FlowOf
<1>5. /\ th'[t].batch = th[t].batch
      /\ \/ th'[t].r = r /\ th'[t].pc \in RootWork \ {"set_type"}
         \/ th'[t].r = NoRoot /\ th'[t].c = root_chunk(r) /\ th'[t].pc \in {"done", "split"} /\ t \in Block
  BY <1>2, <1>4, EvictMergeStep DEF Evicted, SameLocals, RootWork
<1> QED BY <1>1, <1>2, <1>3, <1>5, EvictionEnds

LEMMA EvictElevatedWhole ==
  ASSUME TypeInv, Discipline, Whole, NEW t \in Thread, EvictElevated(t)
  PROVE  Whole'
<1>1. th[t].pc = "merge" /\ UNCHANGED <<pma, readers, clients>>
  BY DEF EvictElevated, at, pma_vars
<1>2. PICK r \in Root : r = th[t].r
  BY EvictElevatedStep
<1>3. p' = evict_merge(p, r) /\ Moved(t)
  BY <1>2, EvictElevatedStep DEF EvictElevated
<1>4. th'[t].batch = th[t].batch /\ th'[t].r = r /\ th'[t].pc \in RootWork \ {"set_type"}
  BY <1>2, EvictElevatedStep DEF RootWork
<1> QED BY <1>1, <1>2, <1>3, <1>4, EvictionEnds

-----------------------------------------------------------------------------
(* Taking and returning root chunks.                                       *)

(* A step that changes a root chunk which is not split.                    *)
LEMMA RootAlone ==
  ASSUME TypeInv, Whole, NEW t \in Thread, Moved(t), UNCHANGED clients, NEW r \in Root, Frame(p, p', r),
         p.state[root_chunk(r)] # "IS_SPLIT", p'.state[root_chunk(r)] \notin {"IS_SPLIT", "NO_CHUNK"},
         \A e \in subchunks(r) : p'.state[e] = p.state[e] /\ (e \in p'.free => e \in p.free),
         root_chunk(r) \in p'.free => p'.state[root_chunk(r)] = "FREE", ~p'.in_eviction[r],
         Aside(t, r), \A e \in subchunks(r) : ~Works(th'[t], e),
         ChunkInv(root_chunk(r))', Listing(r)', PmaOf(r)', \A u \in Thread : Uses(u, r)' /\ Batched(u, r)',
         \A s \in Root : s # r => /\ pma'[s] = pma[s] /\ (s \in th'[t].batch <=> s \in th[t].batch)
                                  /\ s \in th[t].batch /\ t \in readers => t \in readers',
         \A u \in Thread \ {t} : u \in readers => u \in readers'
  PROVE  Whole'
<1>1. Tree(r)
  BY DEF Whole, RootInv
<1>2. \A e \in subchunks(r) : p.state[e] = "NO_CHUNK" /\ e \notin p.free
  BY <1>1 DEF Tree, family
<1>3. /\ family(r) = {root_chunk(r)} \cup subchunks(r) /\ subchunks(r) \subseteq Chunk
  BY ChunkFacts DEF family
<1>4. ASSUME NEW e \in subchunks(r) PROVE ChunkInv(e)'
  <2>1. ChunkInv(e) /\ SameClients(e) /\ e \in Chunk
    BY <1>3, ClientsStill DEF Whole
  <2> QED BY <1>2, <2>1, StillUnheld
<1>5. Tree(r)'
  BY <1>2, <1>3 DEF Tree
<1>6. Counted(r)' /\ Evicting(r)'
  BY DEF Counted, Evicting
<1>7. RootInv(r)'
  BY <1>5, <1>6 DEF RootInv
<1>8. \A e \in family(r) : ChunkInv(e)'
  BY <1>3, <1>4
<1> QED BY <1>7, <1>8, ClientsStill, FrameBeside, OnRoot

(* A thread that works on a root chunk as a whole.                         *)
LEMMA RootWorker ==
  ASSUME TypeInv, Discipline, Whole, NEW t \in Thread, th[t].pc \in RootWork
  PROVE  /\ th[t].r \in Root /\ ~p.in_eviction[th[t].r]
         /\ p.state[root_chunk(th[t].r)] = "TEMP_PINNED"
         /\ RootInv(th[t].r) /\ ~Listed(p, th[t].r) /\ p.list_state[th[t].r] \in {"NONE", "EVICTION"}
         /\ \A u \in Thread : /\ th[t].r \notin th[u].batch
                              /\ u # t => th[u].r # th[t].r /\ ~Has(u, root_chunk(th[t].r))
         /\ \A e \in Chunk : Works(th[t], e) <=> e = root_chunk(th[t].r)
         /\ ~Owns(t, root_chunk(th[t].r))
         /\ t \in Block => root_chunk(th[t].r) \notin used_chunks[t]
<1>1. PICK r \in Root : r = th[t].r
  BY ThreadOrderly DEF FlowOf, Locals, RootSteps, RootWork
<1>2. root_chunk(r) \in Chunk /\ root_chunk(r)[1] = r /\ p \in PmmType
  BY ChunkFacts, StateTyped
<1>3. \A e \in Chunk : Works(th[t], e) <=> e = root_chunk(r)
  BY <1>1 DEF Works, HoldWork, FreeWork, RootWork
<1>4. ChunkInv(root_chunk(r)) /\ Has(t, root_chunk(r)) /\ WorkedBy(t, root_chunk(r)) /\ OwnedBy(t, root_chunk(r))
  BY <1>2, <1>3 DEF Has, Whole, ChunkInv
<1>5. p.state[root_chunk(r)] = "TEMP_PINNED" /\ ~p.in_eviction[r]
  BY <1>2, <1>3, <1>4 DEF WorkedBy
<1>6. ~Merging(th[t], r)
  BY DEF Merging, RootWork
<1>7. ~Listed(p, r) /\ p.list_state[r] \in {"NONE", "EVICTION"}
  BY <1>2, <1>4, <1>5, <1>6, PinnedUnlisted
<1>8. RootInv(r)
  BY DEF Whole
<1>9. \A u \in Thread : r \notin th[u].batch /\ (u # t => th[u].r # r)
  BY <1>1, <1>5, <1>8 DEF RootInv, Uses, Batched
<1>10. \A u \in Thread : u # t => ~Has(u, root_chunk(r))
  BY <1>2, <1>4, Holders
<1>11. ~Owns(t, root_chunk(r)) /\ (t \in Block => root_chunk(r) \notin used_chunks[t])
  BY <1>2, <1>3, <1>4 DEF OwnedBy, Owns
<1> QED BY <1>1, <1>3, <1>5, <1>7, <1>8, <1>9, <1>10, <1>11

LEMMA PmaPinWhole ==
  ASSUME TypeInv, Discipline, Whole, NEW t \in Thread, PmaPin(t)
  PROVE  Whole'
<1>1. th[t].pc = "pma_pin" /\ p' = p /\ UNCHANGED <<readers, clients>> /\ th[t].pc \in RootWork
  BY DEF PmaPin, at, RootWork
<1>2. PICK r \in Root : r = th[t].r
  BY PmaPinStep
<1>3. /\ p \in PmmType /\ ListsInjective(p) /\ pma \in [Root -> {"free", "unpinned", "pinned", "rm"}]
      /\ NoRoot \notin Root
  BY StateTyped, Threads DEF RestTyped
<1>4. /\ ~p.in_eviction[r] /\ p.state[root_chunk(r)] = "TEMP_PINNED"
      /\ RootInv(r) /\ ~Listed(p, r) /\ p.list_state[r] \in {"NONE", "EVICTION"}
      /\ \A u \in Thread : /\ r \notin th[u].batch
                           /\ u # t => th[u].r # r /\ ~Has(u, root_chunk(r))
      /\ \A e \in Chunk : Works(th[t], e) <=> e = root_chunk(r)
      /\ ~Owns(t, root_chunk(r)) /\ (t \in Block => root_chunk(r) \notin used_chunks[t])
  BY <1>1, <1>2, RootWorker
<1>5. \A s \in Root : pma'[s] = IF s = r THEN "pinned" ELSE pma[s]
  BY <1>2, <1>3 DEF PmaPin
<1>7. Frame(p, p', r)
  BY <1>1, <1>3 DEF Frame
<1>9. Moved(t) /\ th'[t].batch = th[t].batch /\ th'[t].r = r /\ th'[t].pc = "set_type"
  BY <1>2, PmaPinStep DEF SameLocals
<1>10. /\ root_chunk(r) \in Chunk /\ root_chunk(r)[1] = r /\ root_chunk(r) \notin subchunks(r)
       /\ subchunks(r) \subseteq Chunk
  BY ChunkFacts
<1>11. \A e \in Chunk : Works(th'[t], e) <=> e = root_chunk(r)
  BY <1>9 DEF Works, HoldWork, FreeWork, RootWork
<1>12. ChunkInv(root_chunk(r))'
  <2>1. OwnedBy(t, root_chunk(r))' /\ \A u \in Thread : SameOwner(u, root_chunk(r))
    BY <1>1, <1>4 DEF OwnedBy, Owns, clients, SameOwner
  <2>2. WorkedBy(t, root_chunk(r))'
    BY <1>1, <1>4, <1>9, <1>10 DEF WorkedBy, HoldWork, FreeWork, RootWork, mem_type
  <2>3. Has(t, root_chunk(r))' /\ p'.state[root_chunk(r)] = "TEMP_PINNED" /\ ChunkInv(root_chunk(r))
    BY <1>1, <1>4, <1>10, <1>11 DEF Has, Whole
  <2> QED BY <1>4, <1>9, <1>10, <2>1, <2>2, <2>3, OneHolder
<1>14. Listing(r)'
  BY <1>1, <1>4 DEF RootInv, Listing, Listed, InUse, linked
<1>15. PmaOf(r)'
  <2>1. Pinned(r)'
    BY <1>9 DEF Pinned, Pinning
  <2> QED BY <1>1, <1>4, <1>5, <2>1 DEF PmaOf
<1>16. \A u \in Thread : Uses(u, r)' /\ Batched(u, r)'
  <2>1. \A v \in Thread : r \notin th'[v].batch /\ (th'[v].r = r => v = t)
    BY <1>4, <1>9 DEF Moved
  <2>2. th'[t].r = r => Progress(th[t], r)'
    BY <1>9 DEF Progress, Evictors
  <2> QED BY <2>1, <2>2 DEF Uses, Batched
<1>17. Aside(t, r)
  <2>1. WorksIn(th[t], r) /\ WorksIn(th'[t], r)
    BY <1>2, <1>3, <1>4, <1>9, <1>10, <1>11 DEF WorksIn
  <2> QED BY <2>1, StaysIn
<1>18. root_chunk(r) \notin p'.free
  BY <1>1, <1>4 DEF RootInv, Listing, linked
<1>19. /\ \A e \in subchunks(r) : p'.state[e] = p.state[e] /\ (e \in p'.free => e \in p.free) /\ ~Works(th'[t], e)
       /\ p'.state[root_chunk(r)] = "TEMP_PINNED" /\ ~p'.in_eviction[r]
  BY <1>1, <1>4, <1>10, <1>11
<1>20. \A s \in Root : s # r => pma'[s] = pma[s] /\ (s \in th'[t].batch <=> s \in th[t].batch)
  BY <1>5, <1>9
<1> QED BY <1>1, <1>4, <1>7, <1>9, <1>12, <1>14, <1>15, <1>16, <1>17, <1>18, <1>19, <1>20, RootAlone

LEMMA SetTypeWhole ==
  ASSUME TypeInv, Discipline, Whole, NEW t \in Thread, SetType(t)
  PROVE  Whole'
<1>1. th[t].pc = "set_type" /\ UNCHANGED <<pma, readers, clients>> /\ th[t].pc \in RootWork
  BY DEF SetType, at, RootWork, pma_vars
<1>2. PICK r \in Root : r = th[t].r
  BY SetTypeStep
<1>3. /\ p \in PmmType /\ ListsInjective(p) /\ pma \in [Root -> {"free", "unpinned", "pinned", "rm"}]
      /\ NoRoot \notin Root
  BY StateTyped, Threads DEF RestTyped
<1>4. /\ ~p.in_eviction[r] /\ p.state[root_chunk(r)] = "TEMP_PINNED"
      /\ RootInv(r) /\ ~Listed(p, r) /\ p.list_state[r] \in {"NONE", "EVICTION"}
      /\ \A u \in Thread : /\ r \notin th[u].batch
                           /\ u # t => th[u].r # r /\ ~Has(u, root_chunk(r))
      /\ \A e \in Chunk : Works(th[t], e) <=> e = root_chunk(r)
      /\ ~Owns(t, root_chunk(r)) /\ (t \in Block => root_chunk(r) \notin used_chunks[t])
  BY <1>1, <1>2, RootWorker
<1>5. p' = [p EXCEPT !.type[r] = "KERNEL"]
  BY <1>2 DEF SetType
<1>6. /\ SameLists(p, p') /\ p'.free = p.free /\ p'.state = p.state
      /\ p'.va_block = p.va_block /\ p'.pinned_leaf_chunks = p.pinned_leaf_chunks
      /\ p'.in_eviction = p.in_eviction /\ p'.allocated = p.allocated
      /\ \A s \in Root : p'.type[s] = IF s = r THEN "KERNEL" ELSE p.type[s]
  BY <1>3, <1>5, TypeSet DEF MemoryTypes
<1>7. Frame(p, p', r)
  BY <1>6 DEF Frame, SameLists
<1>8. t \notin Block /\ th[t].op # "range"
  BY <1>1, ThreadOrderly DEF FlowOf
<1>9. /\ Moved(t) /\ th'[t].batch = th[t].batch
      /\ \/ th'[t].r = r /\ th'[t].pc = "pages_check"
         \/ th'[t].r = NoRoot /\ th'[t].c = root_chunk(r) /\ th'[t].pc \in {"done", "split"}
  BY <1>2, <1>8, SetTypeStep DEF Evicted
<1>10. /\ root_chunk(r) \in Chunk /\ root_chunk(r)[1] = r /\ root_chunk(r) \notin subchunks(r)
       /\ subchunks(r) \subseteq Chunk
  BY ChunkFacts
<1>11. \A e \in Chunk : Works(th'[t], e) <=> e = root_chunk(r)
  BY <1>3, <1>9 DEF Works, HoldWork, FreeWork, RootWork
<1>12. ChunkInv(root_chunk(r))'
  <2>1. OwnedBy(t, root_chunk(r))' /\ \A u \in Thread : SameOwner(u, root_chunk(r))
    BY <1>1, <1>4 DEF OwnedBy, Owns, clients, SameOwner
  <2>2. WorkedBy(t, root_chunk(r))'
    BY <1>4, <1>6, <1>8, <1>9, <1>10 DEF WorkedBy, HoldWork, FreeWork, RootWork, mem_type
  <2>3. Has(t, root_chunk(r))' /\ p'.state[root_chunk(r)] = "TEMP_PINNED" /\ ChunkInv(root_chunk(r))
    BY <1>4, <1>6, <1>10, <1>11 DEF Has, Whole
  <2> QED BY <1>4, <1>9, <1>10, <2>1, <2>2, <2>3, OneHolder
<1>13. linked(p', r) /\ p'.list_state[r] = p.list_state[r]
  BY <1>4, <1>6 DEF RootInv, Listing, linked, SameLists
<1>14. Listing(r)'
  BY <1>4, <1>6, <1>13 DEF Listing, Listed, InUse
<1>15. PmaOf(r)'
  <2>1. Pinned(r)
    BY <1>1, <1>2 DEF Pinned, Pinning
  <2>2. ~Pinned(r)'
    BY <1>4, <1>9 DEF Pinned, Pinning, Moved
  <2> QED BY <1>1, <1>4, <1>6, <2>1, <2>2 DEF RootInv, PmaOf, pma_state
<1>16. \A u \in Thread : Uses(u, r)' /\ Batched(u, r)'
  <2>1. \A v \in Thread : r \notin th'[v].batch /\ (th'[v].r = r => v = t)
    BY <1>4, <1>9 DEF Moved
  <2>2. th'[t].r = r => Progress(th[t], r)'
    BY <1>3, <1>9 DEF Progress, Evictors
  <2> QED BY <2>1, <2>2 DEF Uses, Batched
<1>17. Aside(t, r)
  <2>1. WorksIn(th[t], r) /\ WorksIn(th'[t], r)
    BY <1>2, <1>3, <1>4, <1>9, <1>10, <1>11 DEF WorksIn
  <2> QED BY <2>1, StaysIn
<1>18. root_chunk(r) \notin p'.free
  BY <1>4, <1>13 DEF linked
<1>19. /\ \A e \in subchunks(r) : p'.state[e] = p.state[e] /\ (e \in p'.free => e \in p.free) /\ ~Works(th'[t], e)
       /\ p'.state[root_chunk(r)] = "TEMP_PINNED" /\ ~p'.in_eviction[r]
  BY <1>4, <1>6, <1>10, <1>11
<1>20. \A s \in Root : s # r => pma'[s] = pma[s] /\ (s \in th'[t].batch <=> s \in th[t].batch)
  BY <1>1, <1>9
<1> QED BY <1>1, <1>4, <1>7, <1>9, <1>12, <1>14, <1>15, <1>16, <1>17, <1>18, <1>19, <1>20, RootAlone

LEMMA FreeNextWhole ==
  ASSUME TypeInv, Discipline, Whole, NEW t \in Thread, FreeNext(t)
  PROVE  Whole'
<1>1. th[t].pc = "next" /\ UNCHANGED <<pma, readers, clients>>
  BY ThreadOrderly DEF FreeNext, pma_vars, TidyOf
<1>2. PICK r \in Root : r = th'[t].r
  BY FreeNextStep
<1>3. p \in PmmType /\ ListsInjective(p) /\ NoRoot \notin Root /\ TidyOf(th[t])
  BY StateTyped, Threads, ThreadOrderly
<1>4. /\ Moved(t) /\ th'[t].batch = th[t].batch /\ th'[t].pc = "free_root"
      /\ root_chunk(r) \in free_list(next_type(t), "root")
      /\ p' = chunk_pin(root_list_update_locked(p, root_chunk(r), "none", "NONE", "DEL_INIT"), root_chunk(r))
  BY <1>2, FreeNextStep
<1>5. /\ Frame(p, p', r) /\ linked(p', r) /\ p'.list_state[r] = "NONE"
      /\ \A e \in Chunk : e # root_chunk(r) => (e \in p'.free <=> e \in p.free)
      /\ \A e \in Chunk : p'.state[e] = IF e = root_chunk(r) THEN "TEMP_PINNED" ELSE p.state[e]
      /\ p'.type = p.type /\ p'.in_eviction = p.in_eviction
  BY <1>3, <1>4, RootTaken
<1>6. /\ root_chunk(r) \in Chunk /\ root_chunk(r)[1] = r /\ root_chunk(r) \notin subchunks(r)
      /\ subchunks(r) \subseteq Chunk /\ root_chunk(r) \in family(r)
  BY ChunkFacts DEF family
<1>7. p.state[root_chunk(r)] = "FREE" /\ ~p.in_eviction[r] /\ RootInv(r)
  <2>1. root_chunk(r) \in p.free
    BY <1>3, <1>4, FreeListed
  <2>2. RootInv(r)
    BY DEF Whole
  <2> QED BY <1>6, <2>1, <2>2 DEF RootInv, Tree, Listing, linked
<1>8. Unused(r)
  BY <1>7, RootUsers DEF Unused
<1>9. /\ th[t].pc \notin Working /\ th[t].r = NoRoot /\ (\A e \in Chunk : ~Works(th[t], e))
      /\ \A e \in Chunk : Works(th'[t], e) <=> e = root_chunk(r)
  <2>1. th[t].pc \notin Working /\ th[t].r = NoRoot
    BY <1>1, <1>3 DEF Working, HoldWork, FreeWork, RootWork, TidyOf, RootSteps
  <2> QED BY <1>2, <1>4, <2>1, Workless DEF Works, HoldWork, FreeWork, RootWork
<1>10. ChunkInv(root_chunk(r))'
  <2>1. ChunkInv(root_chunk(r)) /\ \A u \in Thread : ~Has(u, root_chunk(r))
    BY <1>6, <1>7, Holders DEF Whole
  <2>2. ~Owns(t, root_chunk(r)) /\ OwnedBy(t, root_chunk(r))
    BY <2>1 DEF Has, ChunkInv
  <2>3. OwnedBy(t, root_chunk(r))' /\ \A u \in Thread : SameOwner(u, root_chunk(r))
    BY <1>1, <2>2 DEF OwnedBy, Owns, clients, SameOwner
  <2>4. WorkedBy(t, root_chunk(r))'
    BY <1>4, <1>5, <1>6, <1>7 DEF WorkedBy, HoldWork, FreeWork, RootWork
  <2>5. Has(t, root_chunk(r))' /\ p'.state[root_chunk(r)] = "TEMP_PINNED"
    BY <1>5, <1>6, <1>9 DEF Has
  <2> QED BY <1>4, <1>6, <2>1, <2>3, <2>4, <2>5, OneHolder
<1>11. Listing(r)'
  BY <1>5, <1>6, <1>7 DEF Listing, Listed, InUse
<1>12. PmaOf(r)'
  <2>1. Pinned(r)' <=> Pinned(r)
    BY <1>1, <1>4, PinsStill
  <2> QED BY <1>1, <1>5, <1>6, <1>7, <2>1 DEF RootInv, PmaOf
<1>13. \A u \in Thread : Uses(u, r)' /\ Batched(u, r)'
  <2>1. \A v \in Thread : r \notin th'[v].batch /\ (th'[v].r = r => v = t)
    BY <1>4, <1>8 DEF Moved, Unused
  <2>2. Progress(th[t], r)'
    BY <1>4 DEF Progress, Evictors
  <2> QED BY <2>1, <2>2 DEF Uses, Batched
<1>14. Aside(t, r)
  <2>1. WorksIn(th[t], r) /\ WorksIn(th'[t], r)
    BY <1>2, <1>3, <1>6, <1>9 DEF WorksIn
  <2> QED BY <2>1, StaysIn
<1>15. root_chunk(r) \notin p'.free
  BY <1>5 DEF linked
<1>16. /\ \A e \in subchunks(r) : p'.state[e] = p.state[e] /\ (e \in p'.free => e \in p.free) /\ ~Works(th'[t], e)
       /\ p'.state[root_chunk(r)] = "TEMP_PINNED" /\ ~p'.in_eviction[r]
  BY <1>5, <1>6, <1>7, <1>9
<1> QED BY <1>1, <1>4, <1>5, <1>7, <1>10, <1>11, <1>12, <1>13, <1>14, <1>15, <1>16, RootAlone

(* PMM gives a root chunk up before PMA takes it back.                     *)
LEMMA FreeRootWhole ==
  ASSUME TypeInv, Discipline, Whole, NEW t \in Thread, FreeRoot(t)
  PROVE  Whole'
<1>1. th[t].pc = "free_root" /\ UNCHANGED <<pma, clients>> /\ readers' = readers \cup {t} /\ th[t].pc \in RootWork
  BY DEF FreeRoot, at, RootWork
<1>2. PICK r \in Root : r = th[t].r
  BY FreeRootStep
<1>3. p \in PmmType /\ ListsInjective(p) /\ NoRoot \notin Root
  BY StateTyped, Threads
<1>4. /\ ~p.in_eviction[r] /\ p.state[root_chunk(r)] = "TEMP_PINNED"
      /\ RootInv(r) /\ ~Listed(p, r) /\ p.list_state[r] \in {"NONE", "EVICTION"}
      /\ \A u \in Thread : /\ r \notin th[u].batch
                           /\ u # t => th[u].r # r /\ ~Has(u, root_chunk(r))
      /\ \A e \in Chunk : Works(th[t], e) <=> e = root_chunk(r)
  BY <1>1, <1>2, RootWorker
<1>5. Moved(t) /\ th'[t].batch = th[t].batch /\ th'[t].r = r /\ th'[t].pc = "pma_free"
  BY <1>2, FreeRootStep
<1>6. /\ root_chunk(r) \in Chunk /\ root_chunk(r)[1] = r /\ root_chunk(r) \notin subchunks(r)
      /\ subchunks(r) \subseteq Chunk
  BY ChunkFacts
<1>7. /\ SameLists(p, p') /\ p'.free = p.free
      /\ \A e \in Chunk : p'.state[e] = IF e = root_chunk(r) THEN "PMA_OWNED" ELSE p.state[e]
      /\ p'.va_block = p.va_block /\ p'.type = p.type /\ p'.allocated = p.allocated
      /\ p'.in_eviction = p.in_eviction
      /\ \A s \in Root : p'.pinned_leaf_chunks[s] = p.pinned_leaf_chunks[s]
  <2>1. p' = chunk_unpin(p, root_chunk(r), "PMA_OWNED") /\ "PMA_OWNED" \in ChunkStates
    BY <1>2 DEF FreeRoot, ChunkStates
  <2> QED BY <1>3, <1>6, <2>1, ChunkUnpinned
<1>8. Frame(p, p', r)
  BY <1>6, <1>7 DEF Frame, SameLists
<1>9. \A e \in Chunk : ~Works(th'[t], e)
  BY <1>5, Workless DEF Working, HoldWork, FreeWork, RootWork
<1>10. ChunkInv(root_chunk(r))'
  <2>1. (\A u \in Thread : ~Has(u, root_chunk(r))') /\ \A b \in Block : root_chunk(r) \notin used_chunks'[b]
    BY <1>1, <1>4, <1>5, <1>6, <1>9, ClientsStill, GivenUp
  <2> QED BY <1>6, <1>7, <2>1, NobodyHolds
<1>11. linked(p', r) /\ p'.list_state[r] = p.list_state[r]
  BY <1>4, <1>7 DEF RootInv, Listing, linked, SameLists
<1>12. Listing(r)'
  BY <1>4, <1>6, <1>7, <1>11 DEF Listing, Listed, InUse
<1>13. PmaOf(r)'
  BY <1>1, <1>5, <1>6, <1>7 DEF PmaOf, Returning
<1>14. \A u \in Thread : Uses(u, r)' /\ Batched(u, r)'
  <2>1. \A v \in Thread : r \notin th'[v].batch /\ (th'[v].r = r => v = t)
    BY <1>4, <1>5 DEF Moved
  <2>2. pma'[r] \in {"unpinned", "pinned"} /\ p'.state[root_chunk(r)] = "PMA_OWNED"
    BY <1>1, <1>4, <1>6, <1>7 DEF RootInv, PmaOf, pma_state
  <2>3. Progress(th[t], r)'
    BY <1>5, <2>2 DEF Progress, Evictors
  <2> QED BY <2>1, <2>3 DEF Uses, Batched
<1>15. Aside(t, r)
  <2>1. WorksIn(th[t], r) /\ WorksIn(th'[t], r)
    BY <1>2, <1>4, <1>5, <1>6, <1>9 DEF WorksIn
  <2> QED BY <2>1, StaysIn
<1>16. root_chunk(r) \notin p'.free
  BY <1>4, <1>11 DEF linked
<1>17. /\ \A e \in subchunks(r) : p'.state[e] = p.state[e] /\ (e \in p'.free => e \in p.free) /\ ~Works(th'[t], e)
       /\ p'.state[root_chunk(r)] = "PMA_OWNED" /\ ~p'.in_eviction[r]
  BY <1>4, <1>6, <1>7, <1>9
<1> QED BY <1>1, <1>4, <1>5, <1>8, <1>10, <1>12, <1>13, <1>14, <1>15, <1>16, <1>17, RootAlone

(* A root chunk that PMA gave the thread becomes the chunk it returns, or  *)
(* a free one.                                                             *)
LEMMA InitRootWhole ==
  ASSUME TypeInv, Discipline, Whole, NEW t \in Thread, InitRoot(t)
  PROVE  Whole'
<1>1. th[t].pc = "init" /\ UNCHANGED <<pma, clients>>
  BY DEF InitRoot, at
<1>2. Moved(t) /\ th'[t].r = th[t].r
  BY InitRootStep
<1>3. PICK r \in th[t].batch :
        /\ p' = init_root_chunk(p, r, mem_type(t),
                   IF th[t].c = NoChunk THEN "TEMP_PINNED" ELSE "FREE", no_decision)
        /\ readers' = IF th[t].batch = {r} THEN readers \ {t} ELSE readers
        /\ th'[t].batch = th[t].batch \ {r}
        /\ th'[t].c = IF th[t].c = NoChunk THEN root_chunk(r) ELSE th[t].c
        /\ th'[t].pc = IF th[t].batch # {r} THEN "init"
                       ELSE IF th[t].size = "root" THEN "done" ELSE "split"
  BY InitRootStep
<1>4. /\ p \in PmmType /\ ListsInjective(p) /\ NoRoot \notin Root /\ NoChunk \notin Chunk
      /\ th[t] \in Local /\ FlowOf(t, th[t]) /\ TidyOf(th[t])
  BY StateTyped, Threads, ThreadOrderly
<1>5. r \in Root /\ t # PThread /\ th[t].r = NoRoot /\ th[t].c \in Chunk \cup {NoChunk}
  <2>1. r \in Root /\ th[t].c \in Chunk \cup {NoChunk}
    BY <1>4 DEF Local
  <2>2. t # PThread
    BY <1>1, <1>4, Courses DEF AllocSteps
  <2> QED BY <1>1, <1>4, <2>1, <2>2 DEF TidyOf, RootSteps
<1>6. /\ root_chunk(r) \in Chunk /\ root_chunk(r)[1] = r /\ root_chunk(r) \notin subchunks(r)
      /\ subchunks(r) \subseteq Chunk
  BY <1>5, ChunkFacts
<1>7. /\ RootInv(r) /\ Batched(t, r) /\ p.state[root_chunk(r)] = "PMA_OWNED" /\ pma[r] = pma_state(mem_type(t))
      /\ \A u \in Thread : th[u].r # r /\ (r \in th[u].batch => u = t)
  <2>1. RootInv(r) /\ Batched(t, r)
    BY <1>5 DEF Whole, RootInv
  <2> QED BY <1>5, <2>1 DEF Batched
<1>8. ~p.in_eviction[r] /\ linked(p, r)
  BY <1>7 DEF RootInv, Listing
<1> DEFINE w == IF th[t].c = NoChunk THEN "TEMP_PINNED" ELSE "FREE"
<1>9. /\ Updated(p, p', root_chunk(r)) /\ Frame(p, p', r)
      /\ \A e \in Chunk : p'.state[e] = IF e = root_chunk(r) THEN w ELSE p.state[e]
      /\ p'.type[r] = mem_type(t) /\ p'.in_eviction = p.in_eviction
  <2>1. mem_type(t) \in MemoryTypes /\ w \in ChunkStates
    BY DEF mem_type, MemoryTypes, ChunkStates
  <2>2. p' = init_root_chunk(p, r, mem_type(t), w, no_decision)
    BY <1>3
  <2> HIDE DEF w
  <2> QED BY <1>4, <1>5, <2>1, <2>2, RootInitialized
<1>10. p'.state[root_chunk(r)] = w
  BY <1>6, <1>9
<1>11. linked(p', r) /\ p'.list_state[r] = IF th[t].c = NoChunk THEN "NONE" ELSE "FREE"
  <2>1. UpdatedListing(p', root_chunk(r), p.list_state[r]) /\ linked(p', r)
    BY <1>6, <1>8, <1>9 DEF Updated
  <2>2. w = IF th[t].c = NoChunk THEN "TEMP_PINNED" ELSE "FREE"
    OBVIOUS
  <2> QED BY <1>6, <1>10, <2>1, <2>2 DEF UpdatedListing
<1>12. /\ \A e \in Chunk : Works(th[t], e) <=> e = th[t].c
       /\ \A e \in Chunk : Works(th'[t], e) <=> e = th'[t].c
       /\ th'[t].pc \in HoldWork /\ th[t].pc \in HoldWork
  <2>1. th'[t].pc \in HoldWork /\ th[t].pc \in HoldWork
    BY <1>1, <1>3 DEF HoldWork
  <2> QED BY <2>1 DEF Works, HoldWork, FreeWork, RootWork
<1>13. th[t].c # root_chunk(r)
  <2>1. WorkedBy(t, root_chunk(r))
    BY <1>6 DEF Whole, ChunkInv
  <2> QED BY <1>6, <1>7, <1>12, <2>1 DEF WorkedBy
<1>14. ChunkInv(root_chunk(r)) /\ \A u \in Thread : ~Has(u, root_chunk(r))
  BY <1>6, <1>7, Holders DEF Whole
<1>15. ChunkInv(root_chunk(r))'
  <2>1. CASE th[t].c = NoChunk
    <3>1. ~Owns(t, root_chunk(r)) /\ OwnedBy(t, root_chunk(r))
      BY <1>14 DEF Has, ChunkInv
    <3>2. OwnedBy(t, root_chunk(r))' /\ \A u \in Thread : SameOwner(u, root_chunk(r))
      BY <1>1, <3>1 DEF OwnedBy, Owns, clients, SameOwner
    <3>3. th'[t].c = root_chunk(r)
      BY <1>3, <2>1
    <3>4. p'.state[root_chunk(r)] = "TEMP_PINNED"
      BY <1>10, <2>1
    <3>5. WorkedBy(t, root_chunk(r))'
      BY <1>6, <1>8, <1>9, <1>12, <3>4 DEF WorkedBy, HoldWork, FreeWork, RootWork, mem_type
    <3>6. Has(t, root_chunk(r))'
      BY <1>6, <1>12, <3>3 DEF Has
    <3> QED BY <1>2, <1>6, <1>14, <3>2, <3>4, <3>5, <3>6, OneHolder
  <2>2. CASE th[t].c # NoChunk
    <3>1. ~Works(th'[t], root_chunk(r))
      BY <1>3, <1>6, <1>12, <1>13, <2>2
    <3>2. p'.state[root_chunk(r)] = "FREE" /\ SameClients(root_chunk(r))
      BY <1>1, <1>6, <1>10, <2>2, ClientsStill
    <3> QED BY <1>2, <1>6, <1>7, <1>14, <3>1, <3>2, StillUnheld
  <2> QED BY <2>1, <2>2
<1>16. Listing(r)'
  <2>1. p'.state[root_chunk(r)] = "FREE" <=> p'.list_state[r] = "FREE"
    BY <1>10, <1>11
  <2>2. ~Listed(p', r) /\ ~InUse(r)' /\ ~p'.in_eviction[r]
    BY <1>8, <1>9, <1>10, <1>11 DEF Listed, InUse
  <2> QED BY <1>11, <2>1, <2>2 DEF Listing
<1>17. PmaOf(r)'
  <2>1. ~Pinned(r)'
    BY <1>2, <1>7 DEF Pinned, Pinning, Moved
  <2> QED BY <1>1, <1>7, <1>9, <1>10, <2>1 DEF PmaOf
<1>18. Unused(r)'
  BY <1>2, <1>3, <1>7 DEF Unused, Moved
<1>19. \A u \in Thread : Uses(u, r)' /\ Batched(u, r)'
  BY <1>18 DEF Unused, Uses, Batched
<1>20. Aside(t, r)
  <2>1. ASSUME NEW e \in Chunk, e[1] # r PROVE Onward(th'[t], th[t], e)
    <3>1. e # root_chunk(r) /\ e # NoChunk
      BY <1>4, <1>6, <2>1
    <3>2. Works(th'[t], e) <=> Works(th[t], e)
      BY <1>3, <1>12, <3>1
    <3> QED BY <1>12, <3>2 DEF Onward
  <2>2. \A s \in Root : ~Merging(th[t], s) /\ th[t].r # s /\ th'[t].r # s
    BY <1>1, <1>2, <1>4, <1>5 DEF Merging
  <2> QED BY <2>1, <2>2 DEF Aside
<1>21. \A e \in subchunks(r) : p'.state[e] = p.state[e] /\ (e \in p'.free => e \in p.free) /\ ~Works(th'[t], e)
  <2> SUFFICES ASSUME NEW e \in subchunks(r)
               PROVE  p'.state[e] = p.state[e] /\ (e \in p'.free => e \in p.free) /\ ~Works(th'[t], e)
    OBVIOUS
  <2>1. e \in Chunk /\ e # root_chunk(r)
    BY <1>6
  <2>2. p.state[e] = "NO_CHUNK" /\ ChunkInv(e)
    BY <1>7, <2>1 DEF RootInv, Tree, Whole
  <2>3. ~Works(th[t], e)
    BY <2>1, <2>2, Holders DEF Has
  <2>4. ~Works(th'[t], e)
    BY <1>3, <1>12, <2>1, <2>3
  <2> QED BY <1>6, <1>9, <2>1, <2>4 DEF Updated
<1>22. /\ root_chunk(r) \in p'.free => p'.state[root_chunk(r)] = "FREE"
       /\ ~p'.in_eviction[r] /\ p'.state[root_chunk(r)] \notin {"IS_SPLIT", "NO_CHUNK"}
  BY <1>8, <1>9, <1>10, <1>11 DEF linked
<1>23. /\ \A s \in Root : s # r => /\ pma'[s] = pma[s] /\ (s \in th'[t].batch <=> s \in th[t].batch)
                                   /\ s \in th[t].batch /\ t \in readers => t \in readers'
       /\ \A u \in Thread \ {t} : u \in readers => u \in readers'
  BY <1>1, <1>3
<1> HIDE DEF w
<1> QED BY <1>1, <1>2, <1>5, <1>7, <1>9, <1>15, <1>16, <1>17, <1>19, <1>20, <1>21, <1>22, <1>23, RootAlone

LEMMA FirstSubchunk ==
  ASSUME NEW r \in Root
  PROVE  LET rest == {<<r, i>> : i \in 2 .. NSub}
         IN  /\ subchunks(r) = {<<r, 1>>} \cup rest /\ <<r, 1>> \notin rest /\ rest \subseteq Chunk
             /\ root_chunk(r) \notin rest
<1>1. NSub \in Nat /\ NSub >= 2
  BY NSubAssumption
<1>2. ASSUME NEW i \in 1 .. NSub PROVE i = 1 \/ i \in 2 .. NSub
  BY <1>1
<1>3. 1 \in 1 .. NSub /\ 1 \notin 2 .. NSub /\ 0 \notin 2 .. NSub /\ 2 .. NSub \subseteq 1 .. NSub
  BY <1>1
<1>4. {<<r, i>> : i \in 2 .. NSub} \subseteq Chunk
  BY <1>1 DEF Chunk
<1> QED BY <1>2, <1>3, <1>4 DEF subchunks, root_chunk

(* The root chunk that a small allocation splits: the thread keeps its     *)
(* first subchunk, and the others are free.                                *)
LEMMA SplitWhole ==
  ASSUME TypeInv, Discipline, Whole, NEW t \in Thread, Split(t)
  PROVE  Whole'
<1>1. th[t].pc = "split" /\ UNCHANGED <<pma, readers, clients>>
  BY DEF Split, at, pma_vars
<1>2. PICK r \in Root : th[t].c = root_chunk(r) /\ th[t].c[1] = r
  <2>1. th[t].c \in Chunk /\ th[t].c[2] = 0
    BY <1>1, ThreadOrderly DEF FlowOf, Locals, ChunkSteps
  <2> QED BY <2>1, ChunkFacts
<1>3. /\ p \in PmmType /\ ListsInjective(p) /\ NoRoot \notin Root /\ TidyOf(th[t])
  BY StateTyped, Threads, ThreadOrderly
<1>4. /\ Moved(t) /\ th'[t].r = NoRoot /\ th[t].r = NoRoot /\ th'[t].batch = th[t].batch
      /\ th'[t].c = <<r, 1>> /\ th'[t].pc = "done"
  <2>1. th[t].r = NoRoot
    BY <1>1, <1>3 DEF TidyOf, RootSteps
  <2> QED BY <1>2, <2>1, SplitStep
<1>5. PICK q : q = split_gpu_chunk(p, r) /\ p' = free_all_but_first(q, r)
  BY <1>2 DEF Split
<1>6. /\ SameLists(p, q) /\ q.free = p.free
      /\ \A e \in Chunk : q.state[e] = IF e = root_chunk(r) THEN "IS_SPLIT"
                                       ELSE IF e[1] = r THEN p.state[root_chunk(r)] ELSE p.state[e]
      /\ \A e \in Chunk : e[1] # r => q.va_block[e] = p.va_block[e]
      /\ q.type = p.type /\ q.in_eviction = p.in_eviction
      /\ \A s \in Root : s # r => q.allocated[s] = p.allocated[s] /\ q.pinned_leaf_chunks[s] = p.pinned_leaf_chunks[s]
  <2>1. root_chunk(r)[1] = r
    BY ChunkFacts
  <2> QED BY <1>3, <1>5, <2>1, ChunkSplit
<1>7. Frame(p, q, r)
  <2>1. root_chunk(r)[1] = r
    BY ChunkFacts
  <2> QED BY <1>6, <2>1 DEF Frame, SameLists
<1> DEFINE rest == {<<r, i>> : i \in 2 .. NSub}
<1>8. /\ subchunks(r) = {<<r, 1>>} \cup rest /\ <<r, 1>> \notin rest /\ rest \subseteq Chunk
      /\ root_chunk(r) \notin rest
  BY FirstSubchunk
<1>9. /\ Frame(q, p', r) /\ (linked(q, r) => linked(p', r))
      /\ p'.list_state[r] = IF q.type[r] = "USER" THEN "NONE" ELSE q.list_state[r]
      /\ \A e \in Chunk : e # root_chunk(r) => (e \in p'.free <=> e \in q.free \/ e \in rest)
      /\ \A e \in Chunk : p'.state[e] = IF e \in rest THEN "FREE" ELSE q.state[e]
      /\ p'.type = q.type /\ p'.in_eviction = q.in_eviction
      /\ p'.allocated[r] = 1 /\ p'.pinned_leaf_chunks[r] = 1
  BY <1>5, <1>6, AllButFirstFreed DEF SameLists
<1> HIDE DEF rest
<1>10. PICK f \in subchunks(r) : f = <<r, 1>>
  BY <1>8
<1>11. /\ root_chunk(r) \in Chunk /\ root_chunk(r)[1] = r /\ root_chunk(r) \notin subchunks(r)
       /\ subchunks(r) \subseteq Chunk /\ f \in Chunk /\ f[1] = r /\ f # root_chunk(r)
       /\ family(r) = {root_chunk(r)} \cup subchunks(r) /\ \A e \in subchunks(r) : e[1] = r
  BY ChunkFacts DEF family
<1>12. /\ \A e \in Chunk : Works(th[t], e) <=> e = root_chunk(r)
       /\ \A e \in Chunk : Works(th'[t], e) <=> e = f
  BY <1>1, <1>2, <1>4, <1>10 DEF Works, HoldWork, FreeWork, RootWork
<1>13. /\ ChunkInv(root_chunk(r)) /\ Has(t, root_chunk(r)) /\ WorkedBy(t, root_chunk(r))
  BY <1>11, <1>12 DEF Has, Whole, ChunkInv
<1>14. p.state[root_chunk(r)] = "TEMP_PINNED" /\ ~p.in_eviction[r] /\ p.type[r] = mem_type(t)
  BY <1>1, <1>11, <1>12, <1>13 DEF WorkedBy, HoldWork, RootWork
<1>15. ~Listed(p, r) /\ p.list_state[r] \in {"NONE", "EVICTION"}
  <2>1. ~Merging(th[t], r)
    BY <1>1 DEF Merging
  <2> QED BY <1>3, <1>11, <1>13, <1>14, <2>1, PinnedUnlisted
<1>16. Unused(r)
  BY <1>1, <1>11, <1>13, <1>14, HeldUnused DEF RootWork
<1>17. RootInv(r) /\ \A e \in subchunks(r) : p.state[e] = "NO_CHUNK" /\ e \notin p.free
  <2>1. RootInv(r)
    BY DEF Whole
  <2> QED BY <1>11, <1>14, <2>1 DEF RootInv, Tree
<1>18. /\ p'.state[root_chunk(r)] = "IS_SPLIT" /\ p'.state[f] = "TEMP_PINNED"
       /\ \A e \in subchunks(r) : e # f => p'.state[e] = "FREE"
       /\ f \notin p'.free
       /\ p'.type[r] = p.type[r] /\ ~p'.in_eviction[r]
  BY <1>6, <1>8, <1>9, <1>10, <1>11, <1>14, <1>17
<1>19. linked(p', r) /\ p'.list_state[r] \in {"NONE", "EVICTION"} /\ root_chunk(r) \notin p'.free
  <2>1. linked(q, r)
    BY <1>6, <1>17 DEF RootInv, Listing, linked, SameLists
  <2>2. p'.list_state[r] \in {"NONE", "EVICTION"}
    BY <1>6, <1>9, <1>15 DEF SameLists
  <2> QED BY <1>9, <2>1, <2>2 DEF linked
<1>20. ChunkInv(root_chunk(r))'
  <2>1. (\A u \in Thread : ~Has(u, root_chunk(r))') /\ \A b \in Block : root_chunk(r) \notin used_chunks'[b]
    BY <1>1, <1>4, <1>11, <1>12, ClientsStill, GivenUp
  <2> QED BY <1>11, <1>18, <2>1, NobodyHolds
<1>21. ChunkInv(f)'
  <2>1. ChunkInv(f) /\ \A u \in Thread : ~Has(u, f)
    BY <1>11, <1>17, Holders DEF Whole
  <2>2. ~Owns(t, f) /\ OwnedBy(t, f)
    BY <2>1 DEF Has, ChunkInv
  <2>3. OwnedBy(t, f)' /\ \A u \in Thread : SameOwner(u, f)
    BY <1>1, <2>2 DEF OwnedBy, Owns, clients, SameOwner
  <2>4. WorkedBy(t, f)'
    BY <1>4, <1>11, <1>14, <1>18 DEF WorkedBy, HoldWork, FreeWork, RootWork, mem_type
  <2>5. Has(t, f)'
    BY <1>11, <1>12 DEF Has
  <2> QED BY <1>4, <1>11, <1>18, <2>1, <2>3, <2>4, <2>5, OneHolder
<1>22. ASSUME NEW e \in subchunks(r), e # f PROVE ChunkInv(e)'
  <2>1. e \in Chunk /\ ChunkInv(e) /\ SameClients(e) /\ ~Works(th'[t], e)
    BY <1>1, <1>11, <1>12, <1>22, ClientsStill DEF Whole
  <2> QED BY <1>4, <1>17, <1>18, <1>22, <2>1, StillUnheld
<1>23. Tree(r)'
  <2>1. \A e \in subchunks(r) : e \in p'.free => p'.state[e] = "FREE"
    BY <1>18
  <2> QED BY <1>11, <1>18, <1>19, <2>1 DEF Tree
<1>24. Listing(r)'
  <2>1. p'.pinned_leaf_chunks[r] = 1
    BY <1>9
  <2> QED BY <1>18, <1>19, <2>1 DEF Listing, Listed, InUse
<1>25. Counted(r)'
  <2>1. AllocatedIn(p', r) = {f} /\ PinnedIn(p', r) = {f}
    BY <1>18 DEF AllocatedIn, PinnedIn
  <2>2. Cardinality({f}) = 1
    BY FS_Singleton
  <2>3. p'.allocated[r] = 1 /\ p'.pinned_leaf_chunks[r] = 1
    BY <1>9
  <2> QED BY <2>1, <2>2, <2>3 DEF Counted
<1>26. Evicting(r)' /\ PmaOf(r)'
  <2>1. Pinned(r)' <=> Pinned(r)
    BY <1>1, <1>4, PinsStill
  <2> QED BY <1>1, <1>14, <1>17, <1>18, <2>1 DEF Evicting, RootInv, PmaOf
<1>27. \A u \in Thread : Uses(u, r)' /\ Batched(u, r)'
  <2>1. r \notin th'[t].batch
    BY <1>4, <1>16 DEF Unused
  <2> QED BY <1>3, <1>4, <1>16, <2>1, UnusedStill
<1>28. RootInv(r)'
  BY <1>23, <1>24, <1>25, <1>26, <1>27 DEF RootInv
<1>29. Aside(t, r)
  <2>1. WorksIn(th[t], r) /\ WorksIn(th'[t], r)
    BY <1>3, <1>4, <1>11, <1>12 DEF WorksIn
  <2> QED BY <2>1, StaysIn
<1>30. \A e \in family(r) : ChunkInv(e)'
  BY <1>11, <1>20, <1>21, <1>22
<1>31. Frame(p, p', r)
  BY <1>7, <1>9, FrameTwice
<1> QED BY <1>1, <1>4, <1>28, <1>29, <1>30, <1>31, ClientsStill, FrameBeside, OnRoot

(* The root chunk of a VA block becomes its subchunks: nobody who holds    *)
(* pmm->lock can be at work on it.                                         *)
LEMMA InPlaceSplitWhole ==
  ASSUME TypeInv, Discipline, Whole, InPlace, NEW t \in Thread, InPlaceSplit(t)
  PROVE  Whole'
<1>1. /\ t \in Block /\ th[t].pc = "in_place_split" /\ lock = NoThread
      /\ UNCHANGED <<pma, readers, used_chunks, free_chunks, kchunks>>
      /\ Moved(t) /\ th'[t] = idle
  BY InPlaceSplitStep DEF InPlaceSplit, at, pma_vars
<1>2. PICK r \in Root : /\ chunks[t] = {root_chunk(r)} /\ p' = split_gpu_chunk(p, r)
                        /\ chunks' = [chunks EXCEPT ![t] = subchunks(r)]
  BY DEF InPlaceSplit
<1>3. /\ p \in PmmType /\ ListsInjective(p) /\ NoRoot \notin Root /\ TidyOf(th[t])
      /\ chunks \in [Block -> SUBSET Chunk] /\ t # KThread /\ NoThread \notin Thread
  BY <1>1, StateTyped, Threads, ThreadOrderly DEF RestTyped
<1>4. /\ root_chunk(r) \in Chunk /\ root_chunk(r)[1] = r /\ root_chunk(r) \notin subchunks(r)
      /\ subchunks(r) \subseteq Chunk
      /\ family(r) = {root_chunk(r)} \cup subchunks(r) /\ \A e \in subchunks(r) : e[1] = r
  BY ChunkFacts DEF family
<1>5. /\ ChunkInv(root_chunk(r)) /\ OwnedBy(t, root_chunk(r)) /\ Owns(t, root_chunk(r)) /\ Has(t, root_chunk(r))
      /\ root_chunk(r) \notin used_chunks[t]
  BY <1>1, <1>2, <1>4 DEF Whole, ChunkInv, Owns, Has, InPlace
<1>6. /\ p.state[root_chunk(r)] = "ALLOCATED" /\ p.va_block[root_chunk(r)] = t /\ p.type[r] = "USER"
      /\ root_chunk(r) \notin free_chunks[t]
  BY <1>1, <1>2, <1>4, <1>5 DEF OwnedBy, mem_type
<1>7. /\ SameLists(p, p') /\ p'.free = p.free
      /\ \A e \in Chunk : p'.state[e] = IF e = root_chunk(r) THEN "IS_SPLIT"
                                        ELSE IF e[1] = r THEN "ALLOCATED" ELSE p.state[e]
      /\ \A e \in Chunk : p'.va_block[e] = IF e = root_chunk(r) THEN NoBlock
                                           ELSE IF e[1] = r THEN t ELSE p.va_block[e]
      /\ p'.type = p.type /\ p'.in_eviction = p.in_eviction
      /\ \A s \in Root : p'.allocated[s] = IF s # r THEN p.allocated[s] ELSE NSub
      /\ \A s \in Root : p'.pinned_leaf_chunks[s] = IF s # r THEN p.pinned_leaf_chunks[s] ELSE 0
  BY <1>2, <1>3, <1>6, ChunkSplit
<1>8. Frame(p, p', r)
  BY <1>4, <1>7 DEF Frame, SameLists
<1>9. RootInv(r) /\ \A e \in subchunks(r) : p.state[e] = "NO_CHUNK" /\ e \notin p.free
  <2>1. RootInv(r)
    BY DEF Whole
  <2> QED BY <1>4, <1>6, <2>1 DEF RootInv, Tree
<1>10. \A e \in Chunk : ~Works(th[t], e) /\ ~Works(th'[t], e)
  BY <1>1, Workless, IdleWorkless DEF Working, HoldWork, FreeWork, RootWork
<1>11. /\ p'.state[root_chunk(r)] = "IS_SPLIT" /\ p'.type[r] = "USER"
       /\ \A e \in subchunks(r) : p'.state[e] = "ALLOCATED" /\ p'.va_block[e] = t
  BY <1>4, <1>6, <1>7
<1>12. \A u \in Thread : u # t => ~Has(u, root_chunk(r))
  BY <1>4, <1>5, Holders
<1>13. ChunkInv(root_chunk(r))'
  <2>1. \A u \in Thread : ~Works(th'[u], root_chunk(r))
    BY <1>1, <1>4, <1>10, <1>12 DEF Moved, Has
  <2>2. ASSUME NEW u \in Thread, u # t
        PROVE  ~Owns(u, root_chunk(r))' /\ (u \in Block => root_chunk(r) \notin used_chunks'[u])
    <3>1. ~Owns(u, root_chunk(r)) /\ OwnedBy(u, root_chunk(r))
      BY <1>5, <1>12, <2>2 DEF Has, ChunkInv
    <3>2. u \in Block => chunks'[u] = chunks[u]
      BY <1>2, <1>3, <2>2
    <3> QED BY <1>1, <3>1, <3>2 DEF Owns, OwnedBy
  <2>3. root_chunk(r) \notin chunks'[t] /\ root_chunk(r) \notin used_chunks'[t] /\ root_chunk(r) \notin free_chunks'[t]
    BY <1>1, <1>2, <1>3, <1>4, <1>5, <1>6
  <2>4. \A u \in Thread : ~Has(u, root_chunk(r))'
    BY <1>3, <2>1, <2>2, <2>3 DEF Has, Owns
  <2>5. \A b \in Block : root_chunk(r) \notin used_chunks'[b]
    BY <2>2, <2>3, Threads
  <2> QED BY <1>4, <1>11, <2>4, <2>5, NobodyHolds
<1>14. ASSUME NEW e \in subchunks(r) PROVE ChunkInv(e)'
  <2>1. e \in Chunk /\ e[1] = r /\ ChunkInv(e) /\ \A u \in Thread : ~Has(u, e)
    BY <1>4, <1>9, Holders DEF Whole
  <2>2. OwnedBy(t, e) /\ ~Owns(t, e)
    BY <2>1 DEF ChunkInv, Has
  <2>3. e \in chunks'[t] /\ e \notin used_chunks'[t] /\ e \notin free_chunks'[t]
    BY <1>1, <1>2, <1>3, <2>2 DEF OwnedBy, Owns
  <2>4. Owns(t, e)' /\ Has(t, e)' /\ ~Works(th'[t], e)
    BY <1>1, <1>10, <2>1, <2>3 DEF Owns, Has
  <2>5. OwnedBy(t, e)'
    BY <1>1, <1>3, <1>11, <2>1, <2>3, <2>4 DEF OwnedBy, mem_type
  <2>6. WorkedBy(t, e)'
    BY <2>4 DEF WorkedBy
  <2>7. \A u \in Thread : u # t => ~Has(u, e) /\ SameOwner(u, e)
    BY <1>1, <1>2, <1>3, <2>1 DEF SameOwner
  <2> QED BY <1>1, <2>1, <2>4, <2>5, <2>6, <2>7, OneHolder
<1>15. Tree(r)'
  <2>1. root_chunk(r) \notin p'.free
    BY <1>4, <1>6, <1>7, <1>9 DEF RootInv, Tree
  <2> QED BY <1>4, <1>7, <1>9, <1>11, <2>1 DEF Tree
<1>16. p'.pinned_leaf_chunks[r] = 0 /\ p'.allocated[r] = NSub
  BY <1>7
<1>17. Listing(r)'
  <2>1. linked(p', r) /\ p'.list_state[r] = p.list_state[r] /\ Listing(r)
    BY <1>7, <1>9 DEF RootInv, Listing, linked, SameLists
  <2>2. InUse(r) /\ InUse(r)'
    BY <1>6, <1>11, <1>16 DEF InUse
  <2>3. p'.in_eviction[r] = p.in_eviction[r]
    BY <1>7
  <2> QED BY <1>6, <1>11, <2>1, <2>2, <2>3 DEF Listing, Listed
<1>18. Counted(r)'
  <2>1. AllocatedIn(p', r) = subchunks(r) /\ PinnedIn(p', r) = {}
    BY <1>11 DEF AllocatedIn, PinnedIn
  <2>2. Cardinality(subchunks(r)) = NSub /\ NSub > 0 /\ Cardinality({}) = 0
    BY SubchunksCounted, FS_EmptySet, NSubAssumption
  <2> QED BY <1>16, <2>1, <2>2 DEF Counted
<1>19. Evicting(r)'
  <2>1. Evicting(r) /\ th[t].r = NoRoot
    BY <1>1, <1>3, <1>9 DEF RootInv, TidyOf, RootSteps
  <2> QED BY <1>1, <1>3, <1>7, <2>1 DEF Evicting, Moved
<1>20. PmaOf(r)'
  <2>1. Pinned(r)' <=> Pinned(r)
    BY <1>1, IdleTyped, PinsStill
  <2> QED BY <1>1, <1>6, <1>7, <1>9, <1>11, <2>1 DEF RootInv, PmaOf
<1>21. ASSUME NEW u \in Thread PROVE Uses(u, r)' /\ Batched(u, r)'
  <2>1. \A v \in Thread : r \notin th[v].batch
    BY <1>6, <1>9 DEF RootInv, Batched
  <2>2. \A v \in Thread : r \notin th'[v].batch /\ (th'[v].r = r => th[v].r = r /\ v # t)
    BY <1>1, <1>3, <2>1, IdleTyped DEF Moved
  <2>3. ASSUME th'[u].r = r PROVE Progress(th[u], r)'
    <3>1. th'[u] = th[u] /\ Progress(th[u], r) /\ u # t
      BY <1>1, <1>9, <2>2, <2>3 DEF RootInv, Uses, Moved
    <3>2. th[u].pc \notin {"pma_free", "pages_next"}
      BY <1>6, <3>1 DEF Progress
    <3>3. th[u].pc # "merge"
      BY <1>1, <1>3, ThreadOrderly DEF NeedsLock
    <3>4. ASSUME NEW c \in family(r) PROVE p'.state[c] # "FREE"
      BY <1>4, <1>11, <3>4
    <3>5. ASSUME NEW c \in family(r), NEW v \in Thread PROVE ~Works(th'[v], c)
      <4>1. ~Works(th[v], c) \/ v = t
        BY <1>4, <1>9, <1>12, <3>5, Holders DEF Whole, Has
      <4> QED BY <1>1, <1>4, <1>10, <4>1 DEF Moved
    <3> QED BY <1>7, <3>1, <3>2, <3>3, <3>4, <3>5 DEF Progress
  <2>4. \A v \in Thread : th'[v].r = r /\ th'[u].r = r => v = u
    BY <1>9, <2>2 DEF RootInv, Uses
  <2> QED BY <2>2, <2>3, <2>4 DEF Uses, Batched
<1>22. RootInv(r)'
  BY <1>15, <1>17, <1>18, <1>19, <1>20, <1>21 DEF RootInv
<1>23. Aside(t, r)
  <2>1. th[t].r = NoRoot /\ th'[t].r = NoRoot
    BY <1>1, <1>3, IdleTyped DEF TidyOf, RootSteps
  <2>2. WorksIn(th[t], r) /\ WorksIn(th'[t], r)
    BY <1>3, <1>10, <2>1 DEF WorksIn
  <2> QED BY <2>2, StaysIn
<1>24. th[t].batch = {} /\ th'[t].batch = {}
  <2>1. th[t].op # "pages"
    BY <1>1, Threads, ThreadOrderly DEF FlowOf
  <2> QED BY <1>1, <1>3, <2>1, IdleTyped DEF TidyOf
<1>25. \A e \in Chunk : e[1] # r => SameClients(e)
  BY <1>1, <1>2, <1>3, <1>4 DEF SameClients
<1>26. \A e \in family(r) : ChunkInv(e)'
  BY <1>4, <1>13, <1>14
<1> QED BY <1>1, <1>8, <1>22, <1>23, <1>24, <1>25, <1>26, FrameBeside, OnRoot

(* A mark moves a root chunk from one eviction list to another.            *)
LEMMA MarkWhole ==
  ASSUME TypeInv, Discipline, Whole, NEW b \in Block, Mark(b)
  PROVE  Whole'
<1>1. b \in Thread /\ UNCHANGED <<pma, readers, th, clients>> /\ Moved(b)
  BY Threads DEF Mark, pma_vars, Moved
<1>2. PICK r \in Root, used \in BOOLEAN, d \in Decisions :
        chunks[b] = {root_chunk(r)} /\ p' = root_chunk_update_eviction_list(p, r, used, d)
  BY DEF Mark
<1>3. p \in PmmType /\ ListsInjective(p)
  BY StateTyped
<1>4. /\ Relisted(p, p', r) /\ (linked(p, r) => linked(p', r))
      /\ \/ p' = p
         \/ ~chunk_is_root_chunk_pinned(p, r) /\ ~p.in_eviction[r] /\ Listed(p', r)
  BY <1>2, <1>3, MarkedUsed
<1>5. root_chunk(r) \in Chunk /\ root_chunk(r)[1] = r
  BY ChunkFacts
<1>6. OwnedBy(b, root_chunk(r)) /\ Owns(b, root_chunk(r))
  BY <1>1, <1>2, <1>5 DEF Whole, ChunkInv, Owns
<1>7. p.state[root_chunk(r)] \in {"ALLOCATED", "TEMP_PINNED"} /\ p.type[r] = "USER"
  BY <1>2, <1>5, <1>6 DEF OwnedBy, mem_type
<1>8. RootInv(r) /\ Listing(r) /\ linked(p', r)
  BY <1>4 DEF Whole, RootInv, Listing
<1>9. SameChunks(p, p')
  BY <1>4 DEF Relisted
<1>10. Listing(r)'
  <2>1. CASE p' = p
    BY <1>1, <1>8, <2>1 DEF Listing, Listed, InUse, Merging
  <2>2. CASE ~chunk_is_root_chunk_pinned(p, r) /\ ~p.in_eviction[r] /\ Listed(p', r)
    <3>1. p.state[root_chunk(r)] = "ALLOCATED"
      BY <1>7, <2>2 DEF chunk_is_root_chunk_pinned
    <3>2. InUse(r)' /\ ~p'.in_eviction[r] /\ p'.type[r] = "USER" /\ p'.state[root_chunk(r)] # "FREE"
      BY <1>7, <1>9, <2>2, <3>1 DEF InUse, SameChunks
    <3>3. p'.list_state[r] # "FREE"
      BY <2>2 DEF Listed
    <3> QED BY <1>8, <2>2, <3>2, <3>3 DEF Listing
  <2> QED BY <1>4, <2>1, <2>2
<1>11. /\ root_chunk(r) \in family(r) /\ subchunks(r) \subseteq Chunk /\ root_chunk(r) \notin subchunks(r)
       /\ family(r) = {root_chunk(r)} \cup subchunks(r) /\ family(r) \subseteq Chunk
       /\ \A e \in family(r) : e[1] = r
  BY ChunkFacts, FamilyFacts DEF family
<1>12. root_chunk(r) \notin p'.free
  <2>1. p'.list_state[r] # "FREE"
    <3>1. p'.state[root_chunk(r)] # "FREE"
      BY <1>7, <1>9 DEF SameChunks
    <3> QED BY <1>10, <3>1 DEF Listing
  <2> QED BY <1>8, <2>1 DEF linked
<1>13. Tree(r)'
  BY <1>4, <1>8, <1>9, <1>11, <1>12 DEF RootInv, Tree, Relisted, SameChunks
<1>14. Counted(r)' /\ Evicting(r)' /\ PmaOf(r)'
  <2>1. Pinned(r)' <=> Pinned(r)
    BY <1>1 DEF Pinned
  <2> QED BY <1>1, <1>8, <1>9, <2>1 DEF RootInv, Counted, Evicting, PmaOf, SameChunks, AllocatedIn, PinnedIn, Returning
<1>15. ASSUME NEW u \in Thread PROVE Uses(u, r)' /\ Batched(u, r)'
  <2>1. Uses(u, r) /\ Batched(u, r)
    BY <1>8 DEF RootInv
  <2> QED BY <1>1, <1>9, <2>1 DEF Uses, Batched, Progress, SameChunks, Works
<1>16. RootInv(r)'
  BY <1>10, <1>13, <1>14, <1>15 DEF RootInv
<1>17. ASSUME NEW e \in Chunk PROVE ChunkInv(e)'
  <2>1. SameChunk(e) /\ SameClients(e) /\ ChunkInv(e) /\ Onward(th'[b], th[b], e)
    BY <1>1, <1>9, ClientsStill DEF SameChunk, SameChunks, Whole, Onward
  <2> QED BY <1>1, <2>1, ChunkKept
<1>18. ASSUME NEW s \in Root, s # r PROVE RootInv(s)'
  <2>1. SameRoot(s) /\ RootInv(s) /\ readers \subseteq Thread
    BY <1>4, <1>18, FrameRelisted, OtherRoots DEF Whole, TypeInv, TypeOK
  <2>2. Steady(b, s)
    BY <1>1 DEF Steady, StillWorks
  <2>3. th'[b].r = s => Progress(th[b], s)'
    <3>1. th[b].r = s => Progress(th[b], s)
      BY <1>1, <2>1 DEF RootInv, Uses
    <3>2. Progress(th[b], s) => Progress(th[b], s)'
      <4>1. root_chunk(s) \in family(s)
        BY DEF family
      <4> QED BY <1>1, <2>1, <4>1 DEF Progress, SameRoot
    <3> QED BY <1>1, <3>1, <3>2
  <2> QED BY <1>1, <2>1, <2>2, <2>3, RootKept
<1> QED BY <1>16, <1>17, <1>18 DEF Whole

-----------------------------------------------------------------------------
(* The range that PMA evicts: its pages stay with the thread that has      *)
(* them, and what the callback has passed stays with PMA.                  *)

LEMMA OwnedStays ==
  ASSUME TypeInv, Whole, Whole', NEW t \in Thread, Moved(t), NEW r \in Root,
         p.state[root_chunk(r)] = "PMA_OWNED", pma[r] \in {"free", "unpinned"}, pma'[r] = pma[r],
         \A u \in Thread : r \notin th[u].batch, th[t].pc # "pma_free"
  PROVE  p'.state[root_chunk(r)] = "PMA_OWNED"
<1>1. RootInv(r) /\ RootInv(r)' /\ readers \subseteq Thread
  BY DEF Whole, TypeInv, TypeOK
<1>2. CASE pma[r] = "free"
  BY <1>1, <1>2 DEF RootInv, PmaOf, pma_state
<1>3. CASE pma[r] = "unpinned"
  <2>1. PICK u \in readers : Returning(th[u], r)
    BY <1>1, <1>3 DEF RootInv, PmaOf
  <2>2. u \in Thread /\ th[u].pc = "pma_free" /\ th[u].r = r
    BY <1>1, <2>1 DEF Returning
  <2>3. th'[u] = th[u]
    BY <2>2 DEF Moved
  <2>4. Progress(th[u], r)'
    BY <1>1, <2>2, <2>3 DEF RootInv, Uses
  <2> QED BY <2>2, <2>3, <2>4 DEF Progress
<1> QED BY <1>2, <1>3

SameRange(x, y) ==
  /\ x.op = "range" /\ x.lo = y.lo /\ x.hi = y.hi
  /\ y.pc \notin {"free_root", "flush"} /\ x.pc \notin {"flush", "range_ok"}

(* A step that leaves the range and the blocks of the other threads alone. *)
Calm(t) ==
  /\ Moved(t) /\ th[t].pc # "pma_free" /\ th'[t].pc # "in_place_split"
  /\ evicting' = evicting
  /\ \A r \in evicting : pma'[r] = pma[r] /\ (r \in th'[t].batch => r \in th[t].batch)
  /\ t = PThread => IF th[t].op = "range" THEN SameRange(th'[t], th[t]) ELSE th'[t].op # "range"
  /\ \A b \in Block : b # t => used_chunks'[b] = used_chunks[b]

LEMMA CalmInPlace ==
  ASSUME InPlace, NEW t \in Thread, Calm(t)
  PROVE  InPlace'
BY Threads DEF InPlace, Calm, Moved

LEMMA CalmMarked ==
  ASSUME TypeInv, Whole, Whole', Marked, NEW t \in Thread, Calm(t)
  PROVE  Marked'
<1>1. PThread \in Thread /\ evicting \subseteq Root /\ evicting' = evicting
  BY Threads DEF TypeInv, TypeOK, Calm
<1>2. CASE th[PThread].op # "range"
  <2>1. th'[PThread].op # "range"
    BY <1>1, <1>2 DEF Calm, Moved
  <2> QED BY <1>1, <1>2, <2>1 DEF Marked
<1>3. CASE th[PThread].op = "range"
  <2>1. th'[PThread] = th[PThread] \/ SameRange(th'[PThread], th[PThread])
    BY <1>1, <1>3 DEF Calm, Moved
  <2>2. /\ th'[PThread].op = "range" /\ th'[PThread].lo = th[PThread].lo /\ th'[PThread].hi = th[PThread].hi
        /\ th[PThread].lo .. th[PThread].hi \subseteq evicting
    BY <1>3, <2>1 DEF SameRange, Marked
  <2>3. ASSUME NEW r \in evicting
        PROVE  /\ r <= th'[PThread].hi /\ pma'[r] \in {"free", "unpinned"}
               /\ th'[PThread].pc # "flush" => \A u \in Thread : r \notin th'[u].batch
               /\ r < th'[PThread].lo => th'[PThread].pc # "flush" /\
                    (p'.state[root_chunk(r)] = "PMA_OWNED" \/ (th'[PThread].pc = "free_root" /\ th'[PThread].r = r))
               /\ th'[PThread].pc = "range_ok" => p'.state[root_chunk(r)] = "PMA_OWNED" /\ pma'[r] = "free"
    <3>1. /\ r <= th[PThread].hi /\ pma[r] \in {"free", "unpinned"}
          /\ th[PThread].pc # "flush" => \A u \in Thread : r \notin th[u].batch
          /\ r < th[PThread].lo => th[PThread].pc # "flush" /\
               (p.state[root_chunk(r)] = "PMA_OWNED" \/ (th[PThread].pc = "free_root" /\ th[PThread].r = r))
          /\ th[PThread].pc = "range_ok" => p.state[root_chunk(r)] = "PMA_OWNED" /\ pma[r] = "free"
      BY <1>3 DEF Marked
    <3>2. r \in Root /\ pma'[r] = pma[r]
      BY <1>1 DEF Calm
    <3>3. th'[PThread].pc # "flush" => th[PThread].pc # "flush"
      BY <2>1 DEF SameRange
    <3>4. th'[PThread].pc # "flush" => \A u \in Thread : r \notin th'[u].batch
      BY <3>1, <3>3 DEF Calm, Moved
    <3>5. th[PThread].pc # "flush" /\ p.state[root_chunk(r)] = "PMA_OWNED" => p'.state[root_chunk(r)] = "PMA_OWNED"
      BY <3>1, <3>2, OwnedStays DEF Calm
    <3>6. r < th[PThread].lo =>
            \/ p'.state[root_chunk(r)] = "PMA_OWNED"
            \/ th'[PThread].pc = "free_root" /\ th'[PThread].r = r
      BY <2>1, <3>1, <3>5 DEF SameRange
    <3>7. r < th[PThread].lo => th'[PThread].pc # "flush"
      BY <2>1, <3>1 DEF SameRange
    <3>8. th'[PThread].pc = "range_ok" => th[PThread].pc = "range_ok"
      BY <2>1 DEF SameRange
    <3> QED BY <2>2, <3>1, <3>2, <3>4, <3>5, <3>6, <3>7, <3>8
  <2> QED BY <1>1, <2>2, <2>3 DEF Marked
<1> QED BY <1>2, <1>3

LEMMA ClaimCalm ==
  ASSUME TypeInv, Discipline, NEW t \in Thread, Claim(t)
  PROVE  Calm(t)
<1>1. th[t].pc = "claim" /\ UNCHANGED <<pma, evicting, used_chunks>>
  BY DEF Claim, at, pma_vars, clients
<1> QED BY <1>1, ThreadOrderly, ClaimStep
        DEF Calm, SameRange, SameLocals, Kept, Resumed, Evicted, Started, FlowOf, Course, Frees, TidyOf,
            Evictors, AllocSteps, RangeSteps, PageSteps, EvictSteps

LEMMA LockSplitCalm ==
  ASSUME TypeInv, Discipline, NEW t \in Thread, LockSplit(t)
  PROVE  Calm(t)
<1>1. th[t].pc = "lock_split" /\ UNCHANGED <<pma, evicting, used_chunks>>
  BY DEF LockSplit, at, pma_vars, clients
<1> QED BY <1>1, ThreadOrderly, LockSplitStep
        DEF Calm, SameRange, SameLocals, Kept, Resumed, Evicted, Started, FlowOf, Course, Frees, TidyOf,
            Evictors, AllocSteps, RangeSteps, PageSteps, EvictSteps

LEMMA ClaimAgainCalm ==
  ASSUME TypeInv, Discipline, NEW t \in Thread, ClaimAgain(t)
  PROVE  Calm(t)
<1>1. th[t].pc = "claim_again" /\ UNCHANGED <<pma, evicting, used_chunks>>
  BY DEF ClaimAgain, at, pma_vars, clients
<1> QED BY <1>1, ThreadOrderly, ClaimAgainStep
        DEF Calm, SameRange, SameLocals, Kept, Resumed, Evicted, Started, FlowOf, Course, Frees, TidyOf,
            Evictors, AllocSteps, RangeSteps, PageSteps, EvictSteps

LEMMA ClaimBiggerCalm ==
  ASSUME TypeInv, Discipline, NEW t \in Thread, ClaimBigger(t)
  PROVE  Calm(t)
<1>1. th[t].pc = "claim_bigger" /\ UNCHANGED <<pma, evicting, used_chunks>>
  BY DEF ClaimBigger, at, pma_vars, clients
<1> QED BY <1>1, ThreadOrderly, ClaimBiggerStep
        DEF Calm, SameRange, SameLocals, Kept, Resumed, Evicted, Started, FlowOf, Course, Frees, TidyOf,
            Evictors, AllocSteps, RangeSteps, PageSteps, EvictSteps

LEMMA PmaAllocFailsCalm ==
  ASSUME TypeInv, Discipline, NEW t \in Thread, PmaAllocFails(t)
  PROVE  Calm(t)
<1>1. th[t].pc = "pma_alloc" /\ UNCHANGED <<pma, evicting, used_chunks>>
  BY DEF PmaAllocFails, at, pma_vars, clients
<1> QED BY <1>1, ThreadOrderly, PmaAllocFailsStep
        DEF Calm, SameRange, SameLocals, Kept, Resumed, Evicted, Started, FlowOf, Course, Frees, TidyOf,
            Evictors, AllocSteps, RangeSteps, PageSteps, EvictSteps

LEMMA InitRootCalm ==
  ASSUME TypeInv, Discipline, NEW t \in Thread, InitRoot(t)
  PROVE  Calm(t)
<1>1. th[t].pc = "init" /\ UNCHANGED <<pma, evicting, used_chunks>>
  BY DEF InitRoot, at, pma_vars, clients
<1> QED BY <1>1, ThreadOrderly, InitRootStep
        DEF Calm, SameRange, SameLocals, Kept, Resumed, Evicted, Started, FlowOf, Course, Frees, TidyOf,
            Evictors, AllocSteps, RangeSteps, PageSteps, EvictSteps

LEMMA SplitCalm ==
  ASSUME TypeInv, Discipline, NEW t \in Thread, Split(t)
  PROVE  Calm(t)
<1>1. th[t].pc = "split" /\ UNCHANGED <<pma, evicting, used_chunks>>
  BY DEF Split, at, pma_vars, clients
<1> QED BY <1>1, ThreadOrderly, SplitStep
        DEF Calm, SameRange, SameLocals, Kept, Resumed, Evicted, Started, FlowOf, Course, Frees, TidyOf,
            Evictors, AllocSteps, RangeSteps, PageSteps, EvictSteps

LEMMA SplitFailsCalm ==
  ASSUME TypeInv, Discipline, NEW t \in Thread, SplitFails(t)
  PROVE  Calm(t)
<1>1. th[t].pc = "split" /\ UNCHANGED <<pma, evicting, used_chunks>>
  BY DEF SplitFails, at, pma_vars, clients
<1> QED BY <1>1, ThreadOrderly, SplitFailsStep
        DEF Calm, SameRange, SameLocals, Kept, Resumed, Evicted, Started, FlowOf, Course, Frees, TidyOf,
            Evictors, AllocSteps, RangeSteps, PageSteps, EvictSteps

LEMMA AllocErrorCalm ==
  ASSUME TypeInv, Discipline, NEW t \in Thread, AllocError(t)
  PROVE  Calm(t)
<1>1. th[t].pc = "alloc_error" /\ UNCHANGED <<pma, evicting, used_chunks>>
  BY DEF AllocError, at, pma_vars, clients
<1> QED BY <1>1, ThreadOrderly, AllocErrorStep
        DEF Calm, SameRange, SameLocals, Kept, Resumed, Evicted, Started, FlowOf, Course, Frees, TidyOf,
            Evictors, AllocSteps, RangeSteps, PageSteps, EvictSteps

LEMMA EvictAgainCalm ==
  ASSUME TypeInv, Discipline, NEW t \in Thread, EvictAgain(t)
  PROVE  Calm(t)
<1>1. th[t].pc = "evict_again" /\ UNCHANGED <<pma, evicting, used_chunks>>
  BY DEF EvictAgain, at, pma_vars, clients
<1> QED BY <1>1, ThreadOrderly, EvictAgainStep, IdleTyped
        DEF Calm, SameRange, SameLocals, Kept, Resumed, Evicted, Started, FlowOf, Course, Frees, TidyOf,
            Evictors, AllocSteps, RangeSteps, PageSteps, EvictSteps

LEMMA KernelDoneCalm ==
  ASSUME TypeInv, Discipline, NEW t \in Thread, KernelDone(t)
  PROVE  Calm(t)
<1>1. th[t].pc = "done" /\ UNCHANGED <<pma, evicting, used_chunks>>
  BY DEF KernelDone, at, pma_vars, clients
<1> QED BY <1>1, ThreadOrderly, KernelDoneStep, IdleTyped
        DEF Calm, SameRange, SameLocals, Kept, Resumed, Evicted, Started, FlowOf, Course, Frees, TidyOf,
            Evictors, AllocSteps, RangeSteps, PageSteps, EvictSteps

LEMMA TrackerErrorCalm ==
  ASSUME TypeInv, Discipline, NEW t \in Thread, TrackerError(t)
  PROVE  Calm(t)
<1>1. th[t].pc = "done" /\ UNCHANGED <<pma, evicting, used_chunks>>
  BY DEF TrackerError, at, pma_vars, clients
<1> QED BY <1>1, ThreadOrderly, TrackerErrorStep
        DEF Calm, SameRange, SameLocals, Kept, Resumed, Evicted, Started, FlowOf, Course, Frees, TidyOf,
            Evictors, AllocSteps, RangeSteps, PageSteps, EvictSteps

LEMMA LockEvictCalm ==
  ASSUME TypeInv, Discipline, NEW t \in Thread, LockEvict(t)
  PROVE  Calm(t)
<1>1. th[t].pc \in {"lock_evict", "lock_pages"} /\ UNCHANGED <<pma, evicting, used_chunks>>
  BY DEF LockEvict, at, pma_vars, clients
<1> QED BY <1>1, ThreadOrderly, LockEvictStep
        DEF Calm, SameRange, SameLocals, Kept, Resumed, Evicted, Started, FlowOf, Course, Frees, TidyOf,
            Evictors, AllocSteps, RangeSteps, PageSteps, EvictSteps

LEMMA PickCalm ==
  ASSUME TypeInv, Discipline, NEW t \in Thread, Pick(t)
  PROVE  Calm(t)
<1>1. th[t].pc = "pick" /\ UNCHANGED <<pma, evicting, used_chunks>>
  BY DEF Pick, at, pma_vars, clients
<1> QED BY <1>1, ThreadOrderly, PickStep
        DEF Calm, SameRange, SameLocals, Kept, Resumed, Evicted, Started, FlowOf, Course, Frees, TidyOf,
            Evictors, AllocSteps, RangeSteps, PageSteps, EvictSteps

LEMMA PickNoneCalm ==
  ASSUME TypeInv, Discipline, NEW t \in Thread, PickNone(t)
  PROVE  Calm(t)
<1>1. th[t].pc = "pick" /\ UNCHANGED <<pma, evicting, used_chunks>>
  BY DEF PickNone, at, pma_vars, clients
<1> QED BY <1>1, ThreadOrderly, PickNoneStep
        DEF Calm, SameRange, SameLocals, Kept, Resumed, Evicted, Started, FlowOf, Course, Frees, TidyOf,
            Evictors, AllocSteps, RangeSteps, PageSteps, EvictSteps

LEMMA PinFreeCalm ==
  ASSUME TypeInv, Discipline, NEW t \in Thread, PinFree(t)
  PROVE  Calm(t)
<1>1. th[t].pc = "pin_free" /\ UNCHANGED <<pma, evicting, used_chunks>>
  BY DEF PinFree, at, pma_vars, clients
<1> QED BY <1>1, ThreadOrderly, PinFreeStep
        DEF Calm, SameRange, SameLocals, Kept, Resumed, Evicted, Started, FlowOf, Course, Frees, TidyOf,
            Evictors, AllocSteps, RangeSteps, PageSteps, EvictSteps

LEMMA FindCalm ==
  ASSUME TypeInv, Discipline, NEW t \in Thread, Find(t)
  PROVE  Calm(t)
<1>1. th[t].pc = "find" /\ UNCHANGED <<pma, evicting, used_chunks>>
  BY DEF Find, at, pma_vars, clients
<1> QED BY <1>1, ThreadOrderly, FindStep
        DEF Calm, SameRange, SameLocals, Kept, Resumed, Evicted, Started, FlowOf, Course, Frees, TidyOf,
            Evictors, AllocSteps, RangeSteps, PageSteps, EvictSteps

LEMMA FindNoneCalm ==
  ASSUME TypeInv, Discipline, NEW t \in Thread, FindNone(t)
  PROVE  Calm(t)
<1>1. th[t].pc = "find" /\ UNCHANGED <<pma, evicting, used_chunks>>
  BY DEF FindNone, at, pma_vars, clients
<1> QED BY <1>1, ThreadOrderly, FindNoneStep
        DEF Calm, SameRange, SameLocals, Kept, Resumed, Evicted, Started, FlowOf, Course, Frees, TidyOf,
            Evictors, AllocSteps, RangeSteps, PageSteps, EvictSteps

LEMMA EvictBlockCalm ==
  ASSUME TypeInv, Discipline, NEW t \in Thread, EvictBlock(t)
  PROVE  Calm(t)
<1>1. th[t].pc = "va_block" /\ UNCHANGED <<pma, evicting, used_chunks>>
  BY DEF EvictBlock, at, pma_vars, clients
<1> QED BY <1>1, ThreadOrderly, EvictBlockStep
        DEF Calm, SameRange, SameLocals, Kept, Resumed, Evicted, Started, FlowOf, Course, Frees, TidyOf,
            Evictors, AllocSteps, RangeSteps, PageSteps, EvictSteps

LEMMA RelockCalm ==
  ASSUME TypeInv, Discipline, NEW t \in Thread, Relock(t)
  PROVE  Calm(t)
<1>1. th[t].pc \in {"relock", "relock_error"} /\ UNCHANGED <<pma, evicting, used_chunks>>
  BY DEF Relock, at, pma_vars, clients
<1> QED BY <1>1, ThreadOrderly, RelockStep
        DEF Calm, SameRange, SameLocals, Kept, Resumed, Evicted, Started, FlowOf, Course, Frees, TidyOf,
            Evictors, AllocSteps, RangeSteps, PageSteps, EvictSteps

LEMMA EvictElevatedCalm ==
  ASSUME TypeInv, Discipline, NEW t \in Thread, EvictElevated(t)
  PROVE  Calm(t)
<1>1. th[t].pc = "merge" /\ UNCHANGED <<pma, evicting, used_chunks>>
  BY DEF EvictElevated, at, pma_vars, clients
<1> QED BY <1>1, ThreadOrderly, EvictElevatedStep
        DEF Calm, SameRange, SameLocals, Kept, Resumed, Evicted, Started, FlowOf, Course, Frees, TidyOf,
            Evictors, AllocSteps, RangeSteps, PageSteps, EvictSteps

LEMMA PmaPinInUseCalm ==
  ASSUME TypeInv, Discipline, NEW t \in Thread, PmaPinInUse(t)
  PROVE  Calm(t)
<1>1. th[t].pc = "pma_pin" /\ UNCHANGED <<pma, evicting, used_chunks>>
  BY DEF PmaPinInUse, at, pma_vars, clients
<1> QED BY <1>1, ThreadOrderly, PmaPinInUseStep
        DEF Calm, SameRange, SameLocals, Kept, Resumed, Evicted, Started, FlowOf, Course, Frees, TidyOf,
            Evictors, AllocSteps, RangeSteps, PageSteps, EvictSteps

LEMMA TryFreeCalm ==
  ASSUME TypeInv, Discipline, NEW t \in Thread, TryFree(t)
  PROVE  Calm(t)
<1>1. th[t].pc = "free" /\ UNCHANGED <<pma, evicting, used_chunks>>
  BY DEF TryFree, at, pma_vars, clients
<1> QED BY <1>1, ThreadOrderly, TryFreeStep, IdleTyped
        DEF Calm, SameRange, SameLocals, Kept, Resumed, Evicted, Started, FlowOf, Course, Frees, TidyOf,
            Evictors, AllocSteps, RangeSteps, PageSteps, EvictSteps

LEMMA TryFreeFailsCalm ==
  ASSUME TypeInv, Discipline, NEW t \in Thread, TryFreeFails(t)
  PROVE  Calm(t)
<1>1. th[t].pc = "free" /\ UNCHANGED <<pma, evicting, used_chunks>>
  BY DEF TryFreeFails, at, pma_vars, clients
<1> QED BY <1>1, ThreadOrderly, TryFreeFailsStep
        DEF Calm, SameRange, SameLocals, Kept, Resumed, Evicted, Started, FlowOf, Course, Frees, TidyOf,
            Evictors, AllocSteps, RangeSteps, PageSteps, EvictSteps

LEMMA LockFreeCalm ==
  ASSUME TypeInv, Discipline, NEW t \in Thread, LockFree(t)
  PROVE  Calm(t)
<1>1. th[t].pc = "lock_free" /\ UNCHANGED <<pma, evicting, used_chunks>>
  BY DEF LockFree, at, pma_vars, clients
<1> QED BY <1>1, ThreadOrderly, LockFreeStep
        DEF Calm, SameRange, SameLocals, Kept, Resumed, Evicted, Started, FlowOf, Course, Frees, TidyOf,
            Evictors, AllocSteps, RangeSteps, PageSteps, EvictSteps

LEMMA FreeLockedCalm ==
  ASSUME TypeInv, Discipline, NEW t \in Thread, FreeLocked(t)
  PROVE  Calm(t)
<1>1. th[t].pc = "free_locked" /\ UNCHANGED <<pma, evicting, used_chunks>>
  BY DEF FreeLocked, at, pma_vars, clients
<1> QED BY <1>1, ThreadOrderly, FreeLockedStep, IdleTyped
        DEF Calm, SameRange, SameLocals, Kept, Resumed, Evicted, Started, FlowOf, Course, Frees, TidyOf,
            Evictors, AllocSteps, RangeSteps, PageSteps, EvictSteps

LEMMA MergeLockedCalm ==
  ASSUME TypeInv, Discipline, NEW t \in Thread, MergeLocked(t)
  PROVE  Calm(t)
<1>1. th[t].pc = "merge_locked" /\ UNCHANGED <<pma, evicting, used_chunks>>
  BY DEF MergeLocked, at, pma_vars, clients
<1> QED BY <1>1, ThreadOrderly, MergeLockedStep
        DEF Calm, SameRange, SameLocals, Kept, Resumed, Evicted, Started, FlowOf, Course, Frees, TidyOf,
            Evictors, AllocSteps, RangeSteps, PageSteps, EvictSteps

LEMMA FreeNextCalm ==
  ASSUME TypeInv, Discipline, NEW t \in Thread, FreeNext(t)
  PROVE  Calm(t)
<1>1. th[t].pc \in {"next", "abort_next"} /\ UNCHANGED <<pma, evicting, used_chunks>>
  BY DEF FreeNext, at, pma_vars, clients
<1> QED BY <1>1, ThreadOrderly, FreeNextStep
        DEF Calm, SameRange, SameLocals, Kept, Resumed, Evicted, Started, FlowOf, Course, Frees, TidyOf,
            Evictors, AllocSteps, RangeSteps, PageSteps, EvictSteps

LEMMA FreeNextNoneCalm ==
  ASSUME TypeInv, Discipline, NEW t \in Thread, FreeNextNone(t)
  PROVE  Calm(t)
<1>1. th[t].pc \in {"next", "abort_next"} /\ UNCHANGED <<pma, evicting, used_chunks>>
  BY DEF FreeNextNone, at, pma_vars, clients
<1> QED BY <1>1, ThreadOrderly, FreeNextNoneStep, IdleTyped
        DEF Calm, SameRange, SameLocals, Kept, Resumed, Evicted, Started, FlowOf, Course, Frees, TidyOf,
            Evictors, AllocSteps, RangeSteps, PageSteps, EvictSteps

LEMMA InPlaceSplitCalm ==
  ASSUME TypeInv, Discipline, NEW t \in Thread, InPlaceSplit(t)
  PROVE  Calm(t)
<1>1. th[t].pc = "in_place_split" /\ UNCHANGED <<pma, evicting, used_chunks>>
  BY DEF InPlaceSplit, at, pma_vars, clients
<1> QED BY <1>1, ThreadOrderly, InPlaceSplitStep, IdleTyped
        DEF Calm, SameRange, SameLocals, Kept, Resumed, Evicted, Started, FlowOf, Course, Frees, TidyOf,
            Evictors, AllocSteps, RangeSteps, PageSteps, EvictSteps

LEMMA SpinStartCalm ==
  ASSUME TypeInv, Discipline, SpinStart
  PROVE  Calm(PThread)
<1>1. th[PThread].pc = "spin" /\ UNCHANGED <<pma, evicting, used_chunks>> /\ PThread \in Thread
  BY Threads DEF SpinStart, at, pma_vars, clients
<1>2. th[PThread] \in Local /\ FlowOf(PThread, th[PThread])
  BY <1>1, ThreadOrderly
<1> QED BY <1>1, <1>2, SpinStartStep, Courses
        DEF Calm, SameRange, SameLocals, Kept, RangeSteps, PageSteps

LEMMA LockRangeCalm ==
  ASSUME TypeInv, Discipline, LockRange
  PROVE  Calm(PThread)
<1>1. th[PThread].pc = "lock_range" /\ UNCHANGED <<pma, evicting, used_chunks>> /\ PThread \in Thread
  BY Threads DEF LockRange, at, pma_vars, clients
<1>2. th[PThread] \in Local /\ FlowOf(PThread, th[PThread])
  BY <1>1, ThreadOrderly
<1> QED BY <1>1, <1>2, LockRangeStep, Courses
        DEF Calm, SameRange, SameLocals, Kept, RangeSteps, PageSteps

LEMMA PagesCheckCalm ==
  ASSUME TypeInv, Discipline, PagesCheck
  PROVE  Calm(PThread)
<1>1. th[PThread].pc = "pages_check" /\ UNCHANGED <<pma, evicting, used_chunks>> /\ PThread \in Thread
  BY Threads DEF PagesCheck, at, pma_vars, clients
<1>2. th[PThread] \in Local /\ FlowOf(PThread, th[PThread])
  BY <1>1, ThreadOrderly
<1> QED BY <1>1, <1>2, PagesCheckStep, Courses
        DEF Calm, SameRange, SameLocals, Kept, RangeSteps, PageSteps

LEMMA PagesNextCalm ==
  ASSUME TypeInv, Discipline, PagesNext, Marked
  PROVE  Calm(PThread)
<1>1. th[PThread].pc = "pages_next" /\ UNCHANGED <<pma, evicting, used_chunks>> /\ PThread \in Thread
  BY Threads DEF PagesNext, at, pma_vars, clients
<1>2. th[PThread] \in Local /\ FlowOf(PThread, th[PThread])
  BY <1>1, ThreadOrderly
<1> QED BY <1>1, <1>2, PagesNextStep, Courses, IdleTyped
        DEF Calm, SameRange, SameLocals, Kept, RangeSteps, PageSteps, Marked

LEMMA StartAllocCalm ==
  ASSUME TypeInv, Discipline, NEW b \in Block, StartAlloc(b)
  PROVE  Calm(b)
<1>1. UNCHANGED <<pma, evicting, used_chunks>> /\ b \in Thread /\ b # PThread
  BY Threads DEF StartAlloc, pma_vars, clients
<1>2. th[b] \in Local /\ FlowOf(b, th[b])
  BY <1>1, ThreadOrderly
<1> QED BY <1>1, <1>2, StartAllocStep DEF Calm, Started, FlowOf

LEMMA StartReleaseCalm ==
  ASSUME TypeInv, Discipline, NEW b \in Block, StartRelease(b)
  PROVE  Calm(b)
<1>1. UNCHANGED <<pma, evicting, used_chunks>> /\ b \in Thread /\ b # PThread
  BY Threads DEF StartRelease, pma_vars, clients
<1>2. th[b] \in Local /\ FlowOf(b, th[b])
  BY <1>1, ThreadOrderly
<1> QED BY <1>1, <1>2, StartReleaseStep DEF Calm, Started, FlowOf

LEMMA StartFreeCalm ==
  ASSUME TypeInv, Discipline, NEW b \in Block, StartFree(b)
  PROVE  Calm(b)
<1>1. UNCHANGED <<pma, evicting, used_chunks>> /\ b \in Thread /\ b # PThread
  BY Threads DEF StartFree, pma_vars, clients
<1>2. th[b] \in Local /\ FlowOf(b, th[b])
  BY <1>1, ThreadOrderly
<1> QED BY <1>1, <1>2, StartFreeStep DEF Calm, Started, FlowOf

LEMMA StartKernelAllocCalm ==
  ASSUME TypeInv, Discipline, StartKernelAlloc
  PROVE  Calm(KThread)
<1>1. UNCHANGED <<pma, evicting, used_chunks>> /\ KThread \in Thread /\ KThread # PThread
  BY Threads DEF StartKernelAlloc, pma_vars, clients
<1>2. th[KThread] \in Local /\ FlowOf(KThread, th[KThread])
  BY <1>1, ThreadOrderly
<1> QED BY <1>1, <1>2, StartKernelAllocStep DEF Calm, Started, FlowOf

LEMMA StartKernelFreeCalm ==
  ASSUME TypeInv, Discipline, StartKernelFree
  PROVE  Calm(KThread)
<1>1. UNCHANGED <<pma, evicting, used_chunks>> /\ KThread \in Thread /\ KThread # PThread
  BY Threads DEF StartKernelFree, pma_vars, clients
<1>2. th[KThread] \in Local /\ FlowOf(KThread, th[KThread])
  BY <1>1, ThreadOrderly
<1> QED BY <1>1, <1>2, StartKernelFreeStep DEF Calm, Started, FlowOf

LEMMA StartPagesCalm ==
  ASSUME TypeInv, Discipline, StartPages
  PROVE  Calm(PThread)
<1>1. UNCHANGED <<pma, evicting, used_chunks>> /\ PThread \in Thread /\ KThread # PThread
  BY Threads DEF StartPages, pma_vars, clients
<1>2. th[PThread] \in Local /\ FlowOf(PThread, th[PThread])
  BY <1>1, ThreadOrderly
<1> QED BY <1>1, <1>2, StartPagesStep DEF Calm, Started, FlowOf

LEMMA PopulateCalm ==
  ASSUME TypeInv, NEW b \in Block, Populate(b)
  PROVE  Calm(b)
<1>1. /\ UNCHANGED <<pma, evicting, th>> /\ th[b].pc = "idle" /\ b # PThread
      /\ \A a \in Block : a # b => used_chunks'[a] = used_chunks[a]
  BY Threads DEF Populate, pma_vars, clients, at, TypeInv, TypeOK
<1> QED BY <1>1 DEF Calm, Moved

LEMMA UnpinCalm ==
  ASSUME TypeInv, NEW b \in Block, Unpin(b)
  PROVE  Calm(b)
<1>1. /\ UNCHANGED <<pma, evicting, th>> /\ th[b].pc = "idle" /\ b # PThread
      /\ \A a \in Block : a # b => used_chunks'[a] = used_chunks[a]
  BY Threads DEF Unpin, pma_vars, clients, at, TypeInv, TypeOK
<1> QED BY <1>1 DEF Calm, Moved

LEMMA MarkCalm ==
  ASSUME TypeInv, NEW b \in Block, Mark(b)
  PROVE  Calm(b)
<1>1. /\ UNCHANGED <<pma, evicting, th>> /\ th[b].pc = "idle" /\ b # PThread
      /\ \A a \in Block : a # b => used_chunks'[a] = used_chunks[a]
  BY Threads DEF Mark, pma_vars, clients, at, TypeInv, TypeOK
<1> QED BY <1>1 DEF Calm, Moved

LEMMA DoneCalm ==
  ASSUME TypeInv, NEW t \in Thread, Done(t)
  PROVE  Calm(t)
<1>1. /\ UNCHANGED <<pma, evicting>> /\ th[t].pc = "done" /\ t # PThread
      /\ \A a \in Block : a # t => used_chunks'[a] = used_chunks[a]
  BY Threads DEF Done, pma_vars, at, TypeInv, TypeOK
<1> QED BY <1>1, DoneStep, IdleTyped DEF Calm

(* PMA hands out and pins no page of the range.                            *)
LEMMA PmaAllocCalm ==
  ASSUME TypeInv, Discipline, NEW t \in Thread, PmaAlloc(t)
  PROVE  Calm(t)
<1>1. th[t].pc = "pma_alloc" /\ UNCHANGED <<evicting, used_chunks>>
  BY DEF PmaAlloc, at, clients
<1>2. t # PThread /\ evicting \subseteq Root
  BY <1>1, ThreadOrderly, Courses DEF AllocSteps, TypeInv, TypeOK
<1>3. \A r \in evicting : r \notin th'[t].batch /\ pma'[r] = pma[r]
  BY <1>2, PmaAllocStep DEF pma_available
<1> QED BY <1>1, <1>2, <1>3, PmaAllocStep DEF Calm

LEMMA PmaPinCalm ==
  ASSUME TypeInv, Discipline, NEW t \in Thread, PmaPin(t)
  PROVE  Calm(t)
<1>1. /\ th[t].pc = "pma_pin" /\ UNCHANGED <<evicting, used_chunks>>
      /\ pma' = [pma EXCEPT ![th[t].r] = "pinned"] /\ pma \in [Root -> {"free", "unpinned", "pinned", "rm"}]
      /\ evicting \subseteq Root
  BY DEF PmaPin, at, clients, TypeInv, TypeOK
<1>2. \A r \in evicting : pma'[r] = pma[r]
  BY <1>1, PmaPinStep
<1>3. th[t].op # "range"
  BY <1>1, ThreadOrderly DEF FlowOf
<1> QED BY <1>1, <1>2, <1>3, PmaPinStep DEF Calm, SameLocals

LEMMA SetTypeCalm ==
  ASSUME TypeInv, Discipline, NEW t \in Thread, SetType(t)
  PROVE  Calm(t)
<1>1. th[t].pc = "set_type" /\ UNCHANGED <<pma, evicting, used_chunks>>
  BY DEF SetType, at, pma_vars, clients
<1>2. th[t].op # "range"
  BY <1>1, ThreadOrderly DEF FlowOf
<1> QED BY <1>1, <1>2, SetTypeStep DEF Calm, Evicted

LEMMA PagesErrorCalm ==
  ASSUME TypeInv, Discipline, Marked, PagesError
  PROVE  Calm(PThread)
<1>1. th[PThread].pc = "pages_error" /\ UNCHANGED <<evicting, used_chunks>> /\ PThread \in Thread
  BY Threads DEF PagesError, at, clients
<1>2. th[PThread].op = "pages"
  BY <1>1, ThreadOrderly, Courses DEF PageSteps
<1>3. evicting = {}
  BY <1>2 DEF Marked
<1> QED BY <1>1, <1>2, <1>3, PagesErrorStep, IdleTyped DEF Calm

-----------------------------------------------------------------------------
(* The steps of evict_range.                                               *)

Passed(x, r) ==
  /\ x.pc # "flush"
  /\ p.state[root_chunk(r)] = "PMA_OWNED" \/ (x.pc = "free_root" /\ x.r = r)

LEMMA RangeFacts ==
  ASSUME TypeInv, Discipline, Marked, th[PThread].op = "range"
  PROVE  LET x == th[PThread]
         IN  /\ PThread \in Thread /\ evicting \subseteq Root /\ x.lo \in Nat /\ x.hi \in Nat
             /\ x.lo .. x.hi \subseteq evicting /\ x.lo .. x.hi \subseteq Root
             /\ \A r \in evicting : /\ r \in Nat /\ r <= x.hi /\ pma[r] \in {"free", "unpinned"}
                                    /\ x.pc # "flush" => \A t \in Thread : r \notin th[t].batch
                                    /\ r < x.lo => Passed(x, r)
             /\ TidyOf(x) /\ x \in Local /\ FlowOf(PThread, x)
<1>1. /\ PThread \in Thread /\ evicting \subseteq Root /\ Root \subseteq Nat
      /\ th[PThread] \in Local /\ FlowOf(PThread, th[PThread]) /\ TidyOf(th[PThread])
  BY Threads, ThreadOrderly, RootAssumption DEF TypeInv, TypeOK
<1>2. th[PThread].lo \in Nat /\ th[PThread].hi \in Nat
  BY <1>1 DEF Local
<1>3. /\ th[PThread].lo .. th[PThread].hi \subseteq evicting
      /\ \A r \in evicting : /\ r <= th[PThread].hi /\ pma[r] \in {"free", "unpinned"}
                             /\ th[PThread].pc # "flush" => \A t \in Thread : r \notin th[t].batch
                             /\ r < th[PThread].lo => Passed(th[PThread], r)
  BY DEF Marked, Passed
<1> QED BY <1>1, <1>2, <1>3

(* How a step of the callback keeps what the marks mean.                   *)
LEMMA RangeGoesOn ==
  ASSUME th'[PThread].op = "range", th'[PThread].lo .. th'[PThread].hi \subseteq evicting, evicting' = evicting,
         th'[PThread].pc \notin {"flush", "range_ok"},
         \A r \in evicting : /\ r <= th'[PThread].hi /\ pma'[r] \in {"free", "unpinned"}
                             /\ \A t \in Thread : r \notin th'[t].batch
                             /\ r < th'[PThread].lo => \/ p'.state[root_chunk(r)] = "PMA_OWNED"
                                                       \/ th'[PThread].pc = "free_root" /\ th'[PThread].r = r
  PROVE  Marked'
BY DEF Marked

(* down_write waits for the threads that got pages of the range before it  *)
(* was marked.                                                             *)
LEMMA FlushMarked ==
  ASSUME TypeInv, Discipline, Marked, Flush
  PROVE  Marked'
<1>1. /\ th[PThread].pc = "flush" /\ readers = {} /\ UNCHANGED <<p, pma, evicting>> /\ Moved(PThread)
      /\ SameLocals(th'[PThread], th[PThread]) /\ th'[PThread].pc = "spin"
  BY FlushStep DEF Flush, at, pma_vars
<1>2. th[PThread].op = "range" /\ PThread \in Thread
  BY <1>1, ThreadOrderly, Courses, Threads DEF RangeSteps
<1>3. ASSUME NEW t \in Thread PROVE th'[t].batch = {}
  <2>1. TidyOf(th[t]) /\ th[t].pc # "init" /\ FlowOf(t, th[t])
    BY <1>1, ThreadOrderly
  <2>2. th[t].op # "pages"
    BY <1>2, <2>1 DEF FlowOf
  <2>3. th'[t].batch = th[t].batch
    BY <1>1 DEF Moved, SameLocals
  <2> QED BY <2>1, <2>2, <2>3 DEF TidyOf
<1>4. /\ th[PThread].lo .. th[PThread].hi \subseteq evicting
      /\ \A r \in evicting : /\ r <= th[PThread].hi /\ pma[r] \in {"free", "unpinned"}
                             /\ ~(r < th[PThread].lo)
  BY <1>1, <1>2, RangeFacts DEF Passed
<1>5. th'[PThread].op = "range" /\ th'[PThread].lo = th[PThread].lo /\ th'[PThread].hi = th[PThread].hi
  BY <1>1, <1>2 DEF SameLocals
<1> QED BY <1>1, <1>3, <1>4, <1>5, RangeGoesOn

LEMMA SpinPmaOwnedMarked ==
  ASSUME TypeInv, Discipline, Marked, SpinPmaOwned
  PROVE  Marked'
<1>1. /\ th[PThread].pc = "spin" /\ p.state[root_chunk(th[PThread].lo)] = "PMA_OWNED" /\ UNCHANGED <<p, pma, evicting>>
      /\ Moved(PThread) /\ th'[PThread].op = th[PThread].op /\ th'[PThread].pc = "spin"
      /\ th'[PThread].batch = th[PThread].batch /\ th'[PThread].hi = th[PThread].hi /\ th'[PThread].lo = th[PThread].lo + 1
  BY SpinPmaOwnedStep DEF SpinPmaOwned, at, pma_vars, address
<1>2. th[PThread].op = "range" /\ PThread \in Thread
  BY <1>1, ThreadOrderly, Courses, Threads DEF RangeSteps
<1>3. /\ th[PThread].lo \in Nat /\ th[PThread].hi \in Nat /\ th[PThread].lo .. th[PThread].hi \subseteq evicting
      /\ \A r \in evicting : /\ r \in Nat /\ r <= th[PThread].hi /\ pma[r] \in {"free", "unpinned"}
                             /\ \A t \in Thread : r \notin th[t].batch
                             /\ r < th[PThread].lo => Passed(th[PThread], r)
  BY <1>1, <1>2, RangeFacts
<1>4. th'[PThread].lo .. th'[PThread].hi \subseteq evicting
  BY <1>1, <1>3
<1>5. ASSUME NEW r \in evicting
      PROVE  /\ r <= th'[PThread].hi /\ pma'[r] \in {"free", "unpinned"}
             /\ \A t \in Thread : r \notin th'[t].batch
             /\ r < th'[PThread].lo => p'.state[root_chunk(r)] = "PMA_OWNED"
  <2>1. r < th'[PThread].lo => r = th[PThread].lo \/ r < th[PThread].lo
    BY <1>1, <1>3
  <2> QED BY <1>1, <1>3, <2>1 DEF Passed, Moved
<1> QED BY <1>1, <1>2, <1>4, <1>5, RangeGoesOn

(* The second flush: every page of the range is back with PMA, and no      *)
(* thread is about to return one.                                          *)
LEMMA FlushAgainMarked ==
  ASSUME TypeInv, Discipline, Whole, Marked, FlushAgain
  PROVE  Marked'
<1>1. /\ th[PThread].pc = "spin" /\ th[PThread].lo > th[PThread].hi /\ readers = {} /\ UNCHANGED <<p, pma, evicting>>
      /\ Moved(PThread) /\ SameLocals(th'[PThread], th[PThread]) /\ th'[PThread].pc = "range_ok"
  BY FlushAgainStep DEF FlushAgain, at, pma_vars, address
<1>2. th[PThread].op = "range" /\ PThread \in Thread
  BY <1>1, ThreadOrderly, Courses, Threads DEF RangeSteps
<1>3. /\ th[PThread].lo \in Nat /\ th[PThread].hi \in Nat /\ th[PThread].lo .. th[PThread].hi \subseteq evicting
      /\ \A r \in evicting : /\ r \in Nat /\ r \in Root /\ r <= th[PThread].hi /\ pma[r] \in {"free", "unpinned"}
                             /\ \A t \in Thread : r \notin th[t].batch
                             /\ r < th[PThread].lo => Passed(th[PThread], r)
  BY <1>1, <1>2, RangeFacts
<1>4. ASSUME NEW r \in evicting PROVE p.state[root_chunk(r)] = "PMA_OWNED" /\ pma[r] = "free"
  <2>1. p.state[root_chunk(r)] = "PMA_OWNED"
    BY <1>1, <1>3 DEF Passed
  <2>2. PmaOf(r)
    BY <1>3 DEF Whole, RootInv
  <2> QED BY <1>1, <1>3, <2>1, <2>2 DEF PmaOf
<1>5. /\ th'[PThread].op = "range" /\ th'[PThread].lo = th[PThread].lo /\ th'[PThread].hi = th[PThread].hi
      /\ \A t \in Thread : th'[t].batch = th[t].batch
  BY <1>1, <1>2 DEF SameLocals, Moved
<1> QED BY <1>1, <1>3, <1>4, <1>5 DEF Marked

LEMMA StartRangeMarked ==
  ASSUME TypeInv, StartRange
  PROVE  Marked'
<1>1. PICK bounds \in EvictRanges :
        /\ \A r \in Root : bounds[1] <= r /\ r <= bounds[2] => pma[r] \in {"free", "unpinned"}
        /\ evicting' = {r \in Root : bounds[1] <= r /\ r <= bounds[2]}
        /\ th' = [th EXCEPT ![PThread] = [idle EXCEPT !.pc = "flush", !.op = "range", !.lo = bounds[1], !.hi = bounds[2]]]
  BY DEF StartRange, becomes
<1>2. UNCHANGED <<p, pma>> /\ PThread \in Thread /\ th \in [Thread -> Local]
  BY Threads DEF StartRange, TypeInv, TypeOK
<1>3. /\ th'[PThread].pc = "flush" /\ th'[PThread].op = "range" /\ th'[PThread].lo = bounds[1]
      /\ th'[PThread].hi = bounds[2]
  BY <1>1, <1>2 DEF idle
<1>4. /\ bounds[1] \in Root /\ bounds[2] \in Root /\ bounds[1] .. bounds[2] \subseteq Root /\ Root \subseteq Nat
  BY BoundAssumption, RootAssumption
<1>5. bounds[1] .. bounds[2] \subseteq evicting'
  BY <1>1, <1>4
<1>6. ASSUME NEW r \in evicting'
      PROVE  r \in Nat /\ r <= bounds[2] /\ pma'[r] \in {"free", "unpinned"} /\ ~(r < bounds[1])
  BY <1>1, <1>2, <1>4
<1> QED BY <1>3, <1>5, <1>6 DEF Marked

(* The callback returns, with an error or not.                             *)
LEMMA RangeReturnsMarked ==
  ASSUME TypeInv, RangeError \/ RangeOk
  PROVE  Marked'
<1>1. evicting' = {} /\ th'[PThread] = idle
  BY RangeErrorStep, RangeOkStep DEF RangeError, RangeOk, range_returns
<1> QED BY <1>1, IdleTyped DEF Marked

(* An evicted root chunk of the range goes to free_root, and the address   *)
(* behind it.                                                              *)
LEMMA EvictMergeMarked ==
  ASSUME TypeInv, Discipline, Whole, Whole', Marked, NEW t \in Thread, EvictMerge(t)
  PROVE  Marked'
<1>1. th[t].pc = "merge" /\ UNCHANGED <<pma, evicting, used_chunks>>
  BY DEF EvictMerge, at, pma_vars, clients
<1>2. CASE th[t].op = "range"
  <2>1. t = PThread /\ PThread \in Thread
    BY <1>1, <1>2, ThreadOrderly DEF FlowOf
  <2>2. /\ Moved(PThread) /\ th'[PThread].op = "range" /\ th'[PThread].hi = th[PThread].hi /\ th'[PThread].pc = "free_root"
        /\ th'[PThread].lo = th[PThread].lo + 1 /\ th'[PThread].r = th[PThread].r /\ th'[PThread].batch = th[PThread].batch
    BY <1>2, <2>1, EvictMergeStep DEF Evicted
  <2>3. /\ th[PThread].lo \in Nat /\ th[PThread].hi \in Nat /\ th[PThread].lo .. th[PThread].hi \subseteq evicting
        /\ \A r \in evicting : /\ r \in Nat /\ r \in Root /\ r <= th[PThread].hi /\ pma[r] \in {"free", "unpinned"}
                               /\ \A u \in Thread : r \notin th[u].batch
                               /\ r < th[PThread].lo => Passed(th[PThread], r)
        /\ TidyOf(th[PThread])
    BY <1>1, <1>2, <2>1, RangeFacts
  <2>4. th[PThread].r = th[PThread].lo
    BY <1>1, <1>2, <2>1, <2>3 DEF TidyOf, Evictors
  <2>5. th'[PThread].lo .. th'[PThread].hi \subseteq evicting
    BY <2>2, <2>3
  <2>6. ASSUME NEW r \in evicting
        PROVE  /\ r <= th'[PThread].hi /\ pma'[r] \in {"free", "unpinned"}
               /\ \A u \in Thread : r \notin th'[u].batch
               /\ r < th'[PThread].lo => p'.state[root_chunk(r)] = "PMA_OWNED" \/ th'[PThread].r = r
    <3>1. r < th'[PThread].lo => r = th[PThread].lo \/ r < th[PThread].lo
      BY <2>2, <2>3
    <3>2. r < th[PThread].lo => p.state[root_chunk(r)] = "PMA_OWNED"
      BY <1>1, <2>1, <2>3 DEF Passed
    <3>3. p.state[root_chunk(r)] = "PMA_OWNED" => p'.state[root_chunk(r)] = "PMA_OWNED"
      BY <1>1, <2>1, <2>2, <2>3, OwnedStays
    <3> QED BY <1>1, <2>2, <2>3, <2>4, <3>1, <3>2, <3>3 DEF Moved
  <2> QED BY <1>1, <2>2, <2>5, <2>6, RangeGoesOn
<1>3. CASE th[t].op # "range"
  <2>1. Calm(t)
    BY <1>1, <1>3, EvictMergeStep DEF Calm, Evicted, SameLocals
  <2> QED BY <2>1, CalmMarked
<1> QED BY <1>2, <1>3

LEMMA FreeRootMarked ==
  ASSUME TypeInv, Discipline, Whole, Whole', Marked, NEW t \in Thread, FreeRoot(t)
  PROVE  Marked'
<1>1. th[t].pc = "free_root" /\ UNCHANGED <<pma, evicting, used_chunks>>
  BY DEF FreeRoot, at, clients
<1>2. /\ Moved(t) /\ Kept(th'[t], th[t]) /\ th'[t].r = th[t].r /\ th'[t].batch = th[t].batch
      /\ th'[t].pc = "pma_free"
  BY FreeRootStep
<1>3. CASE th[t].op = "range"
  <2>1. t = PThread /\ PThread \in Thread
    BY <1>1, <1>3, ThreadOrderly DEF FlowOf
  <2>2. /\ th[PThread].lo \in Nat /\ th[PThread].hi \in Nat /\ th[PThread].lo .. th[PThread].hi \subseteq evicting
        /\ \A r \in evicting : /\ r \in Root /\ r <= th[PThread].hi /\ pma[r] \in {"free", "unpinned"}
                               /\ \A u \in Thread : r \notin th[u].batch
                               /\ r < th[PThread].lo => Passed(th[PThread], r)
    BY <1>1, <1>3, <2>1, RangeFacts
  <2>3. ASSUME NEW r \in evicting, r < th[PThread].lo PROVE p'.state[root_chunk(r)] = "PMA_OWNED"
    <3>1. CASE th[PThread].r = r
      <4>1. Progress(th[t], r)'
        BY <1>2, <2>1, <2>2, <3>1 DEF Whole, RootInv, Uses
      <4> QED BY <1>2, <4>1 DEF Progress
    <3>2. CASE p.state[root_chunk(r)] = "PMA_OWNED"
      BY <1>1, <1>2, <2>2, <3>2, OwnedStays
    <3> QED BY <2>2, <2>3, <3>1, <3>2 DEF Passed
  <2>4. th'[PThread].op = "range" /\ th'[PThread].lo = th[PThread].lo /\ th'[PThread].hi = th[PThread].hi
    BY <1>2, <1>3, <2>1 DEF Kept
  <2>5. \A r \in evicting : \A u \in Thread : r \notin th'[u].batch
    BY <1>2, <2>2 DEF Moved
  <2> QED BY <1>1, <1>2, <2>1, <2>2, <2>3, <2>4, <2>5, RangeGoesOn
<1>4. CASE th[t].op # "range"
  <2>1. Calm(t)
    BY <1>1, <1>2, <1>4 DEF Calm, Kept
  <2> QED BY <2>1, CalmMarked
<1> QED BY <1>3, <1>4

LEMMA PmaFreeMarked ==
  ASSUME TypeInv, Discipline, Whole, Marked, NEW t \in Thread, PmaFree(t)
  PROVE  Marked'
<1>1. /\ th[t].pc = "pma_free" /\ UNCHANGED <<p, evicting>>
      /\ pma' = [pma EXCEPT ![th[t].r] = IF th[t].ret = "pages_next" THEN "rm" ELSE "free"]
      /\ pma \in [Root -> {"free", "unpinned", "pinned", "rm"}] /\ evicting \subseteq Root /\ PThread \in Thread
  BY Threads DEF PmaFree, at, TypeInv, TypeOK
<1>2. /\ Moved(t) /\ th'[t].pc = th[t].ret
      /\ th'[t].batch = (IF th[t].ret = "idle" THEN {} ELSE th[t].batch)
      /\ th[t].ret = "idle" => th'[t] = idle
      /\ th[t].ret # "idle" => Kept(th'[t], th[t])
  <2>1. th[t].ret = "pages_next" => th[t].ret # "idle"
    OBVIOUS
  <2> QED BY <2>1, PmaFreeStep
<1>3. CASE th[PThread].op # "range"
  <2>1. evicting = {} /\ th'[PThread].op # "range"
    BY <1>1, <1>2, <1>3, IdleTyped DEF Marked, Moved, Kept
  <2> QED BY <1>1, <2>1 DEF Marked
<1>4. CASE th[PThread].op = "range"
  <2>1. th[t].ret # "pages_next" /\ (t = PThread => th[t].ret \in {"spin", "range_error"})
    <3>1. th[t] \in Local /\ FlowOf(t, th[t]) /\ FlowOf(PThread, th[PThread])
      BY <1>1, ThreadOrderly
    <3>2. \/ Frees(th[t])
          \/ th[t].op = "alloc" /\ th[t].ret \in {"evict_again", "pick", "alloc_error"}
          \/ th[t].op = "range" /\ th[t].ret \in {"spin", "range_error"}
          \/ th[t].op = "pages" /\ t = PThread
      BY <1>1, <3>1 DEF FlowOf, Course, Frees, AllocSteps, RangeSteps, PageSteps, EvictSteps
    <3> QED BY <1>4, <3>2 DEF Frees
  <2>2. \A r \in evicting : pma'[r] \in {"free", pma[r]}
    BY <1>1, <2>1
  <2>3. /\ \A u \in Thread : th'[u].batch \subseteq th[u].batch
        /\ th'[PThread].op = "range" /\ th'[PThread].lo = th[PThread].lo /\ th'[PThread].hi = th[PThread].hi
        /\ th'[PThread] = th[PThread] \/ (th[PThread].pc = "pma_free" /\ th'[PThread].pc \in {"spin", "range_error"})
    BY <1>1, <1>2, <1>4, <2>1 DEF Moved, Kept
  <2>4. ASSUME NEW r \in evicting
        PROVE  /\ r <= th'[PThread].hi /\ pma'[r] \in {"free", "unpinned"}
               /\ th'[PThread].pc # "flush" => \A u \in Thread : r \notin th'[u].batch
               /\ r < th'[PThread].lo => th'[PThread].pc # "flush" /\
                    (p'.state[root_chunk(r)] = "PMA_OWNED" \/ (th'[PThread].pc = "free_root" /\ th'[PThread].r = r))
               /\ th'[PThread].pc = "range_ok" => p'.state[root_chunk(r)] = "PMA_OWNED" /\ pma'[r] = "free"
    <3>1. /\ r <= th[PThread].hi /\ pma[r] \in {"free", "unpinned"}
          /\ th[PThread].pc # "flush" => \A u \in Thread : r \notin th[u].batch
          /\ r < th[PThread].lo => th[PThread].pc # "flush" /\
               (p.state[root_chunk(r)] = "PMA_OWNED" \/ (th[PThread].pc = "free_root" /\ th[PThread].r = r))
          /\ th[PThread].pc = "range_ok" => p.state[root_chunk(r)] = "PMA_OWNED" /\ pma[r] = "free"
      BY <1>4 DEF Marked
    <3>2. r <= th'[PThread].hi /\ pma'[r] \in {"free", "unpinned"} /\ (pma[r] = "free" => pma'[r] = "free")
      BY <2>2, <2>3, <3>1
    <3> QED BY <1>1, <2>3, <3>1, <3>2
  <2>5. th'[PThread].lo .. th'[PThread].hi \subseteq evicting
    BY <1>4, <2>3 DEF Marked
  <2> QED BY <1>1, <2>3, <2>4, <2>5 DEF Marked
<1> QED BY <1>3, <1>4

LEMMA RmFreeMarked ==
  ASSUME TypeInv, Marked, RmFree
  PROVE  Marked' /\ (InPlace => InPlace')
<1>1. /\ UNCHANGED <<p, evicting, th, used_chunks>> /\ pma \in [Root -> {"free", "unpinned", "pinned", "rm"}]
      /\ evicting \subseteq Root
  BY DEF RmFree, clients, TypeInv, TypeOK
<1>2. PICK r \in Root : pma[r] = "rm" /\ pma' = [pma EXCEPT ![r] = "free"]
  BY DEF RmFree
<1>3. \A s \in evicting : pma'[s] = pma[s]
  BY <1>1, <1>2 DEF Marked
<1> QED BY <1>1, <1>3 DEF Marked, InPlace

-----------------------------------------------------------------------------
(* A block whose root chunk is being split in place holds it unpinned.     *)

LEMMA StartSplitInPlace ==
  ASSUME TypeInv, Discipline, Whole, InPlace, NEW b \in Block, StartSplit(b)
  PROVE  InPlace'
<1>1. PICK r \in Root : chunks[b] = {root_chunk(r)} /\ root_chunk(r) \notin used_chunks[b]
  BY DEF StartSplit
<1>2. UNCHANGED used_chunks /\ Moved(b) /\ b \in Thread
  BY StartSplitStep, Threads DEF StartSplit, clients
<1>3. ASSUME NEW s \in Root PROVE root_chunk(s) \notin used_chunks[b]
  <2>1. ChunkInv(root_chunk(s)) /\ root_chunk(s)[1] = s
    BY ChunkFacts DEF Whole
  <2>2. root_chunk(s) \in used_chunks[b] => root_chunk(s) \in chunks[b]
    BY <1>2, <2>1 DEF ChunkInv, OwnedBy
  <2> QED BY <1>1, <2>2
<1> QED BY <1>2, <1>3, Threads DEF InPlace, Moved

(* The other steps start no split and pin nothing for another block.       *)
LEMMA ElsewhereInPlace ==
  ASSUME InPlace, NEW t \in Thread, Moved(t), th'[t].pc # "in_place_split",
         \A b \in Block : b # t => used_chunks'[b] = used_chunks[b]
  PROVE  InPlace'
BY Threads DEF InPlace, Moved

-----------------------------------------------------------------------------
(* Every step keeps the invariant.                                         *)

Safe == Discipline /\ Marked /\ InPlace /\ Whole

LEMMA CalmSafe ==
  ASSUME TypeInv, Safe, NEW t \in Thread, Calm(t), Orderly(t), Whole'
  PROVE  Safe'
<1>1. Discipline'
  BY Disciplined DEF Safe, Calm
<1>2. Marked' /\ InPlace'
  BY CalmMarked, CalmInPlace DEF Safe
<1> QED BY <1>1, <1>2 DEF Safe

(* A step of a thread without a place in a split, and of nobody's blocks.  *)
LEMMA ElsewhereSafe ==
  ASSUME Safe, NEW t \in Thread, Moved(t), Orderly(t), th'[t].pc # "in_place_split",
         \A b \in Block : b # t => used_chunks'[b] = used_chunks[b], Marked', Whole'
  PROVE  Safe'
<1>1. Discipline' /\ InPlace'
  BY Disciplined, ElsewhereInPlace DEF Safe
<1> QED BY <1>1 DEF Safe

Calms(t) ==
  \/ Claim(t) \/ LockSplit(t) \/ ClaimAgain(t) \/ ClaimBigger(t) \/ PmaAlloc(t) \/ PmaAllocFails(t)
  \/ InitRoot(t) \/ Split(t) \/ SplitFails(t) \/ AllocError(t) \/ EvictAgain(t) \/ Done(t)
  \/ KernelDone(t) \/ TrackerError(t) \/ LockEvict(t) \/ Pick(t) \/ PickNone(t) \/ PinFree(t)
  \/ Find(t) \/ FindNone(t) \/ EvictBlock(t) \/ Relock(t) \/ EvictElevated(t) \/ PmaPin(t)
  \/ PmaPinInUse(t) \/ TryFree(t) \/ TryFreeFails(t) \/ LockFree(t) \/ FreeLocked(t) \/ MergeLocked(t)
  \/ FreeNext(t) \/ FreeNextNone(t) \/ InPlaceSplit(t) \/ SetType(t)

LEMMA CalmsSafe ==
  ASSUME TypeInv, Safe, NEW t \in Thread, Calms(t)
  PROVE  Safe'
<1> USE DEF Safe
<1>1. CASE Claim(t)
  BY <1>1, ClaimOrderly, ClaimCalm, ClaimWhole, CalmSafe
<1>2. CASE LockSplit(t)
  BY <1>2, LockSplitOrderly, LockSplitCalm, LockSplitWhole, CalmSafe
<1>3. CASE ClaimAgain(t)
  BY <1>3, ClaimAgainOrderly, ClaimAgainCalm, ClaimAgainWhole, CalmSafe
<1>4. CASE ClaimBigger(t)
  BY <1>4, ClaimBiggerOrderly, ClaimBiggerCalm, ClaimBiggerWhole, CalmSafe
<1>5. CASE PmaAlloc(t)
  BY <1>5, PmaAllocOrderly, PmaAllocCalm, PmaAllocWhole, CalmSafe
<1>6. CASE PmaAllocFails(t)
  BY <1>6, PmaAllocFailsOrderly, PmaAllocFailsCalm, PmaAllocFailsWhole, CalmSafe
<1>7. CASE InitRoot(t)
  BY <1>7, InitRootOrderly, InitRootCalm, InitRootWhole, CalmSafe
<1>8. CASE Split(t)
  BY <1>8, SplitOrderly, SplitCalm, SplitWhole, CalmSafe
<1>9. CASE SplitFails(t)
  BY <1>9, SplitFailsOrderly, SplitFailsCalm, SplitFailsWhole, CalmSafe
<1>10. CASE AllocError(t)
  BY <1>10, AllocErrorOrderly, AllocErrorCalm, AllocErrorWhole, CalmSafe
<1>11. CASE EvictAgain(t)
  BY <1>11, EvictAgainOrderly, EvictAgainCalm, EvictAgainWhole, CalmSafe
<1>12. CASE Done(t)
  BY <1>12, DoneOrderly, DoneCalm, DoneWhole, CalmSafe
<1>13. CASE KernelDone(t)
  BY <1>13, KernelDoneOrderly, KernelDoneCalm, KernelDoneWhole, CalmSafe
<1>14. CASE TrackerError(t)
  BY <1>14, TrackerErrorOrderly, TrackerErrorCalm, TrackerErrorWhole, CalmSafe
<1>15. CASE LockEvict(t)
  BY <1>15, LockEvictOrderly, LockEvictCalm, LockEvictWhole, CalmSafe
<1>16. CASE Pick(t)
  BY <1>16, PickOrderly, PickCalm, PickWhole, CalmSafe
<1>17. CASE PickNone(t)
  BY <1>17, PickNoneOrderly, PickNoneCalm, PickNoneWhole, CalmSafe
<1>18. CASE PinFree(t)
  BY <1>18, PinFreeOrderly, PinFreeCalm, PinFreeWhole, CalmSafe
<1>19. CASE Find(t)
  BY <1>19, FindOrderly, FindCalm, FindWhole, CalmSafe
<1>20. CASE FindNone(t)
  BY <1>20, FindNoneOrderly, FindNoneCalm, FindNoneWhole, CalmSafe
<1>21. CASE EvictBlock(t)
  BY <1>21, EvictBlockOrderly, EvictBlockCalm, EvictBlockWhole, CalmSafe
<1>22. CASE Relock(t)
  BY <1>22, RelockOrderly, RelockCalm, RelockWhole, CalmSafe
<1>23. CASE EvictElevated(t)
  BY <1>23, EvictElevatedOrderly, EvictElevatedCalm, EvictElevatedWhole, CalmSafe
<1>24. CASE PmaPin(t)
  BY <1>24, PmaPinOrderly, PmaPinCalm, PmaPinWhole, CalmSafe
<1>25. CASE PmaPinInUse(t)
  BY <1>25, PmaPinInUseOrderly, PmaPinInUseCalm, PmaPinInUseWhole, CalmSafe
<1>26. CASE TryFree(t)
  BY <1>26, TryFreeOrderly, TryFreeCalm, TryFreeWhole, CalmSafe
<1>27. CASE TryFreeFails(t)
  BY <1>27, TryFreeFailsOrderly, TryFreeFailsCalm, TryFreeFailsWhole, CalmSafe
<1>28. CASE LockFree(t)
  BY <1>28, LockFreeOrderly, LockFreeCalm, LockFreeWhole, CalmSafe
<1>29. CASE FreeLocked(t)
  BY <1>29, FreeLockedOrderly, FreeLockedCalm, FreeLockedWhole, CalmSafe
<1>30. CASE MergeLocked(t)
  BY <1>30, MergeLockedOrderly, MergeLockedCalm, MergeLockedWhole, CalmSafe
<1>31. CASE FreeNext(t)
  BY <1>31, FreeNextOrderly, FreeNextCalm, FreeNextWhole, CalmSafe
<1>32. CASE FreeNextNone(t)
  BY <1>32, FreeNextNoneOrderly, FreeNextNoneCalm, FreeNextNoneWhole, CalmSafe
<1>33. CASE InPlaceSplit(t)
  BY <1>33, InPlaceSplitOrderly, InPlaceSplitCalm, InPlaceSplitWhole, CalmSafe
<1>34. CASE SetType(t)
  BY <1>34, SetTypeOrderly, SetTypeCalm, SetTypeWhole, CalmSafe
<1> QED BY <1>1, <1>2, <1>3, <1>4, <1>5, <1>6, <1>7, <1>8, <1>9, <1>10, <1>11, <1>12, <1>13, <1>14, <1>15, <1>16, <1>17, <1>18, <1>19, <1>20, <1>21, <1>22, <1>23, <1>24, <1>25, <1>26, <1>27, <1>28, <1>29, <1>30, <1>31, <1>32, <1>33, <1>34 DEF Calms

LEMMA PmaCalmsSafe ==
  ASSUME TypeInv, Safe, SpinStart \/ LockRange \/ PagesCheck \/ PagesNext \/ PagesError \/ StartPages
  PROVE  Safe'
<1> USE DEF Safe
<1>0. PThread \in Thread
  BY Threads
<1>1. CASE SpinStart
  BY <1>0, <1>1, SpinStartOrderly, SpinStartCalm, SpinStartWhole, CalmSafe
<1>2. CASE LockRange
  BY <1>0, <1>2, LockRangeOrderly, LockRangeCalm, LockRangeWhole, CalmSafe
<1>3. CASE PagesCheck
  BY <1>0, <1>3, PagesCheckOrderly, PagesCheckCalm, PagesCheckWhole, CalmSafe
<1>4. CASE PagesNext
  BY <1>0, <1>4, PagesNextOrderly, PagesNextCalm, PagesNextWhole, CalmSafe
<1>5. CASE PagesError
  BY <1>0, <1>5, PagesErrorOrderly, PagesErrorCalm, PagesErrorWhole, CalmSafe
<1>6. CASE StartPages
  BY <1>0, <1>6, StartPagesOrderly, StartPagesCalm, StartPagesWhole, CalmSafe
<1> QED BY <1>1, <1>2, <1>3, <1>4, <1>5, <1>6

LEMMA KernelSafe ==
  ASSUME TypeInv, Safe, StartKernelAlloc \/ StartKernelFree
  PROVE  Safe'
<1> USE DEF Safe
<1>0. KThread \in Thread
  BY Threads
<1>1. CASE StartKernelAlloc
  BY <1>0, <1>1, StartKernelAllocOrderly, StartKernelAllocCalm, StartKernelAllocWhole, CalmSafe
<1>2. CASE StartKernelFree
  BY <1>0, <1>2, StartKernelFreeOrderly, StartKernelFreeCalm, StartKernelFreeWhole, CalmSafe
<1> QED BY <1>1, <1>2

LEMMA StaysOrderly ==
  ASSUME Discipline, NEW t \in Thread, UNCHANGED <<th, lock, readers>>
  PROVE  Discipline'
BY DEF Discipline, TidyOf, NeedsLock

LEMMA BlockSafe ==
  ASSUME TypeInv, Safe, NEW b \in Block,
         StartAlloc(b) \/ StartFree(b) \/ StartRelease(b) \/ Populate(b) \/ Unpin(b) \/ Mark(b)
  PROVE  Safe'
<1> USE DEF Safe
<1>0. b \in Thread
  BY Threads
<1>1. CASE StartAlloc(b)
  BY <1>0, <1>1, StartAllocOrderly, StartAllocCalm, StartAllocWhole, CalmSafe
<1>2. CASE StartFree(b)
  BY <1>0, <1>2, StartFreeOrderly, StartFreeCalm, StartFreeWhole, CalmSafe
<1>3. CASE StartRelease(b)
  BY <1>0, <1>3, StartReleaseOrderly, StartReleaseCalm, StartReleaseWhole, CalmSafe
<1>4. ASSUME Calm(b), UNCHANGED <<th, lock, readers>>, Whole' PROVE Safe'
  BY <1>0, <1>4, StaysOrderly, CalmMarked, CalmInPlace
<1>5. CASE Populate(b)
  BY <1>4, <1>5, PopulateCalm, PopulateWhole DEF Populate, pma_vars
<1>6. CASE Unpin(b)
  BY <1>4, <1>6, UnpinCalm, UnpinWhole DEF Unpin, pma_vars
<1>7. CASE Mark(b)
  BY <1>4, <1>7, MarkCalm, MarkWhole DEF Mark, pma_vars
<1> QED BY <1>1, <1>2, <1>3, <1>5, <1>6, <1>7

LEMMA StartSplitSafe ==
  ASSUME TypeInv, Safe, NEW b \in Block, StartSplit(b)
  PROVE  Safe'
<1> USE DEF Safe
<1>1. b \in Thread /\ PThread \in Thread /\ b # PThread /\ UNCHANGED <<p, pma, evicting>>
  BY Threads DEF StartSplit, pma_vars
<1>2. Moved(b) /\ th'[b].batch = {}
  BY <1>1, StartSplitStep, IdleTyped DEF Started, idle
<1>3. Marked'
  BY <1>1, <1>2 DEF Marked, Moved
<1>4. Discipline' /\ InPlace' /\ Whole'
  BY <1>1, StartSplitOrderly, Disciplined, StartSplitInPlace, StartSplitWhole
<1> QED BY <1>3, <1>4

(* The steps that return a root chunk to PMA.                              *)
LEMMA ReturnSafe ==
  ASSUME TypeInv, Safe, NEW t \in Thread, EvictMerge(t) \/ FreeRoot(t) \/ PmaFree(t)
  PROVE  Safe'
<1>0. Discipline /\ Marked /\ InPlace /\ Whole
  BY DEF Safe
<1>1. CASE EvictMerge(t)
  <2>1. Whole' /\ Moved(t) /\ Orderly(t)
    BY <1>0, <1>1, EvictMergeWhole, EvictMergeOrderly
  <2>2. th'[t].pc # "in_place_split" /\ used_chunks' = used_chunks
    BY <1>0, <1>1, EvictMergeStep DEF Evicted, EvictMerge, clients
  <2>3. Marked'
    BY <1>0, <1>1, <2>1, EvictMergeMarked
  <2> QED BY <2>1, <2>2, <2>3, ElsewhereSafe
<1>2. CASE FreeRoot(t)
  <2>1. Whole' /\ Moved(t) /\ Orderly(t)
    BY <1>0, <1>2, FreeRootWhole, FreeRootOrderly
  <2>2. th'[t].pc # "in_place_split" /\ used_chunks' = used_chunks
    BY <1>0, <1>2, FreeRootStep DEF FreeRoot, clients
  <2>3. Marked'
    BY <1>0, <1>2, <2>1, FreeRootMarked
  <2> QED BY <2>1, <2>2, <2>3, ElsewhereSafe
<1>3. CASE PmaFree(t)
  <2>1. Whole' /\ Moved(t) /\ Orderly(t) /\ Marked'
    BY <1>0, <1>3, PmaFreeWhole, PmaFreeOrderly, PmaFreeMarked
  <2>2. th[t] \in Local /\ FlowOf(t, th[t]) /\ th[t].pc = "pma_free"
    BY <1>0, <1>3, ThreadOrderly DEF PmaFree, at
  <2>3. th'[t].pc = th[t].ret
    <3>1. th[t].ret = "pages_next" => th[t].ret # "idle"
      OBVIOUS
    <3> QED BY <1>3, <3>1, PmaFreeStep
  <2>4. th[t].ret # "in_place_split"
    BY <2>2 DEF FlowOf, Course, Frees, AllocSteps, RangeSteps, PageSteps, EvictSteps
  <2>5. used_chunks' = used_chunks
    BY <1>3 DEF PmaFree, clients
  <2> QED BY <2>1, <2>3, <2>4, <2>5, ElsewhereSafe
<1> QED BY <1>1, <1>2, <1>3

LEMMA RangeSafe ==
  ASSUME TypeInv, Safe, Flush \/ SpinPmaOwned \/ FlushAgain \/ RangeError \/ RangeOk \/ StartRange
  PROVE  Safe'
<1>0. Discipline /\ Marked /\ InPlace /\ Whole /\ PThread \in Thread
  BY Threads DEF Safe
<1>1. used_chunks' = used_chunks
  BY DEF Flush, SpinPmaOwned, FlushAgain, RangeError, RangeOk, StartRange, range_returns, clients
<1>2. CASE Flush
  BY <1>0, <1>1, <1>2, FlushStep, FlushOrderly, FlushMarked, FlushWhole, ElsewhereSafe
<1>3. CASE SpinPmaOwned
  <2>1. th'[PThread].pc # "in_place_split"
    BY <1>3, SpinPmaOwnedStep DEF SpinPmaOwned, at
  <2>2. Moved(PThread) /\ Orderly(PThread) /\ Marked' /\ Whole'
    BY <1>0, <1>3, SpinPmaOwnedOrderly, SpinPmaOwnedMarked, SpinPmaOwnedWhole
  <2> QED BY <1>0, <1>1, <2>1, <2>2, ElsewhereSafe
<1>4. CASE FlushAgain
  BY <1>0, <1>1, <1>4, FlushAgainStep, FlushAgainOrderly, FlushAgainMarked, FlushAgainWhole, ElsewhereSafe
<1>5. CASE RangeError
  BY <1>0, <1>1, <1>5, RangeErrorStep, IdleTyped, RangeErrorOrderly, RangeReturnsMarked, RangeErrorWhole, ElsewhereSafe
<1>6. CASE RangeOk
  BY <1>0, <1>1, <1>6, RangeOkStep, IdleTyped, RangeOkOrderly, RangeReturnsMarked, RangeOkWhole, ElsewhereSafe
<1>7. CASE StartRange
  BY <1>0, <1>1, <1>7, StartRangeStep, StartRangeOrderly, StartRangeMarked, StartRangeWhole, ElsewhereSafe DEF Started
<1> QED BY <1>2, <1>3, <1>4, <1>5, <1>6, <1>7

LEMMA RmFreeSafe ==
  ASSUME TypeInv, Safe, RmFree
  PROVE  Safe'
<1>1. Discipline /\ Marked /\ InPlace /\ Whole /\ UNCHANGED <<th, lock, readers>> /\ PThread \in Thread
  BY Threads DEF Safe, RmFree
<1>2. Discipline' /\ Marked' /\ InPlace' /\ Whole'
  BY <1>1, StaysOrderly, RmFreeMarked, RmFreeWhole
<1> QED BY <1>2 DEF Safe

(* An eviction that does not fail is never aborted.                        *)
LEMMA NoAbort ==
  ASSUME NoAborts, TypeInv, Discipline, NEW t \in Thread
  PROVE  ~EvictBlockFails(t) /\ ~SpinTimeout /\ ~Abort(t) /\ ~AbortWalk(t)
<1>1. TidyOf(th[t])
  BY ThreadOrderly
<1> QED BY <1>1 DEF NoAborts, TidyOf, EvictBlockFails, SpinTimeout, Abort, AbortWalk, at

LEMMA StutterSafe ==
  ASSUME Safe, UNCHANGED vars
  PROVE  Safe'
<1>0. /\ p' = p /\ lock' = lock /\ readers' = readers /\ pma' = pma /\ evicting' = evicting /\ th' = th
      /\ chunks' = chunks /\ used_chunks' = used_chunks /\ free_chunks' = free_chunks /\ kchunks' = kchunks
  BY DEF vars
<1>1. Discipline' /\ Marked' /\ InPlace'
  BY <1>0 DEF Safe, Discipline, TidyOf, NeedsLock, Marked, InPlace
<1>2. ASSUME NEW c \in Chunk PROVE ChunkInv(c)'
  <2>1. ChunkInv(c)
    BY DEF Safe, Whole
  <2> QED BY <1>0, <2>1 DEF ChunkInv, OwnedBy, WorkedBy, Owns, Has, Works
<1>3. ASSUME NEW r \in Root PROVE RootInv(r)'
  <2>1. RootInv(r)
    BY DEF Safe, Whole
  <2>2. (Tree(r) /\ Listing(r) /\ Counted(r))'
    BY <1>0, <2>1 DEF RootInv, Tree, Listing, Counted, Merging, InUse
  <2>3. (Evicting(r) /\ PmaOf(r))'
    BY <1>0, <2>1 DEF RootInv, Evicting, PmaOf, Pinned, Pinning
  <2>4. ASSUME NEW t \in Thread PROVE (Uses(t, r) /\ Batched(t, r))'
    BY <1>0, <2>1 DEF RootInv, Uses, Progress, Batched, Works
  <2> QED BY <2>2, <2>3, <2>4 DEF RootInv
<1> QED BY <1>1, <1>2, <1>3 DEF Safe, Whole

LEMMA NextSafe ==
  ASSUME NoAborts, TypeInv, Safe, [Next]_vars
  PROVE  Safe'
<1>1. ASSUME NEW t \in Thread, Run(t) PROVE Safe'
  <2>1. ~EvictBlockFails(t) /\ ~SpinTimeout /\ ~Abort(t) /\ ~AbortWalk(t)
    BY NoAbort DEF Safe
  <2>2. CASE Step(t) \/ Lock(t)
    <3>1. Calms(t) \/ EvictMerge(t) \/ FreeRoot(t) \/ PmaFree(t)
      BY <2>1, <2>2 DEF Step, Lock, Calms
    <3> QED BY <3>1, CalmsSafe, ReturnSafe
  <2>3. CASE PmaCallback
    BY <2>1, <2>3, PmaCalmsSafe, RangeSafe DEF PmaCallback
  <2> QED BY <1>1, <2>2, <2>3 DEF Run
<1>2. ASSUME NEW b \in Block, Start(b) \/ Retry(b) PROVE Safe'
  BY <1>2, BlockSafe, StartSplitSafe DEF Start, Retry
<1>3. CASE StartKernelAlloc \/ StartKernelFree
  BY <1>3, KernelSafe
<1>4. CASE StartRange \/ StartPages \/ RmFree
  BY <1>4, RangeSafe, PmaCalmsSafe, RmFreeSafe
<1>5. CASE UNCHANGED vars
  BY <1>5, StutterSafe
<1> QED BY <1>1, <1>2, <1>3, <1>4, <1>5 DEF Next

LEMMA InitSafe ==
  ASSUME Init
  PROVE  Safe
<1>1. /\ p = pmm_init /\ lock = NoThread /\ readers = {} /\ evicting = {} /\ kchunks = {}
      /\ \A t \in Thread : th[t] = idle
      /\ \A b \in Block : chunks[b] = {} /\ used_chunks[b] = {} /\ free_chunks[b] = {}
      /\ \A r \in Root : pma[r] = "free"
  BY DEF Init
<1>2. /\ idle.pc = "idle" /\ idle.op = "none" /\ idle.ret = "idle" /\ idle.r = NoRoot /\ idle.batch = {}
      /\ idle.size = "root"
  BY DEF idle
<1>3. Discipline /\ Marked /\ InPlace
  BY <1>1, <1>2, Threads DEF Discipline, TidyOf, NeedsLock, Marked, InPlace
<1>4. /\ \A c \in Chunk : p.state[c] = IF c[2] = 0 THEN "PMA_OWNED" ELSE "NO_CHUNK"
      /\ \A r \in Root : /\ ~p.in_eviction[r] /\ p.list_state[r] = "NONE" /\ p.type[r] = "USER"
      /\ p.used = <<>> /\ p.unused = <<>> /\ p.free = {}
  BY <1>1 DEF pmm_init, chunk_is_root_chunk
<1>5. ASSUME NEW c \in Chunk PROVE ChunkInv(c)
  <2>1. \A t \in Thread : ~Has(t, c) /\ ~Works(th[t], c) /\ ~Owns(t, c)
    BY <1>1, <1>2 DEF Has, Works, Owns, HoldWork, FreeWork, RootWork
  <2>2. \A t \in Block : c \notin used_chunks[t] /\ c \notin chunks[t] /\ c \notin free_chunks[t]
    BY <1>1
  <2> QED BY <1>1, <1>4, <2>1, <2>2 DEF ChunkInv, OwnedBy, WorkedBy
<1>6. ASSUME NEW r \in Root PROVE RootInv(r)
  <2>1. p.state[root_chunk(r)] = "PMA_OWNED" /\ \A c \in subchunks(r) : p.state[c] = "NO_CHUNK"
    <3>1. /\ root_chunk(r) \in Chunk /\ root_chunk(r)[2] = 0
          /\ \A c \in subchunks(r) : c \in Chunk /\ c[2] # 0
      BY ChunkFacts
    <3> QED BY <1>4, <3>1
  <2>2. Tree(r) /\ Counted(r)
    BY <1>4, <2>1 DEF Tree, Counted
  <2>3. ToSet(p.used) = {} /\ ToSet(p.unused) = {}
    BY <1>4 DEF ToSet
  <2>4. Listing(r)
    BY <1>4, <2>1, <2>3 DEF Listing, linked, Listed, InUse
  <2>5. Evicting(r) /\ PmaOf(r)
    BY <1>1, <1>4, <2>1 DEF Evicting, PmaOf
  <2>6. \A t \in Thread : Uses(t, r) /\ Batched(t, r)
    BY <1>1, <1>2, Threads DEF Uses, Batched
  <2> QED BY <2>2, <2>4, <2>5, <2>6 DEF RootInv
<1> QED BY <1>3, <1>5, <1>6 DEF Safe, Whole

-----------------------------------------------------------------------------
(* What the invariant says of a state.                                     *)

LEMMA InvRootLists ==
  ASSUME PmmInv
  PROVE  RootListsConsistent
<1>1. IsInjective(p.used) /\ IsInjective(p.unused)
  BY DEF PmmInv, TypeInv, ListsInjective
<1>2. \A r \in Root : linked(p, r) /\ (p.in_eviction[r] => p.list_state[r] = "EVICTION")
  BY DEF PmmInv, RootInv, Listing
<1> QED BY <1>1, <1>2 DEF RootListsConsistent, linked

LEMMA HoldingFacts ==
  ASSUME PmmInv, NEW t \in Thread, NEW c \in holding(t)
  PROVE  c \in Chunk /\ Has(t, c) /\ (Owns(t, c) \/ th[t].pc \in HoldWork \cup FreeWork \cup {"merge_locked"})
<1>1. /\ th[t] \in Local /\ FlowOf(t, th[t]) /\ kchunks \subseteq Chunk
      /\ t \in Block => chunks[t] \subseteq Chunk /\ free_chunks[t] \subseteq Chunk
  BY ThreadTyped DEF PmmInv, TypeInv, TypeOK
<1>2. CASE Owns(t, c)
  BY <1>1, <1>2 DEF Owns, Has
<1>3. CASE ~Owns(t, c)
  <2>1. /\ th[t].pc \in HoldWork \cup FreeWork \cup {"merge_locked"} /\ c = th[t].c /\ c # NoChunk
    BY <1>3 DEF holding, Owns, HoldWork, FreeWork
  <2>2. c \in Chunk
    BY <1>1, <2>1 DEF Local
  <2>3. th[t].pc = "merge_locked" => c[2] # 0
    BY <1>1, <2>1 DEF FlowOf, Locals
  <2> QED BY <2>1, <2>2, <2>3 DEF Has, Works
<1> QED BY <1>2, <1>3

LEMMA HoldingPart ==
  ASSUME NEW t \in Thread, NEW c \in Chunk,
         Owns(t, c) \/ (th[t].pc \in HoldWork \cup FreeWork /\ th[t].c = c)
  PROVE  c \in holding(t)
BY Threads DEF Owns, holding, HoldWork, FreeWork

LEMMA InvExclusive ==
  ASSUME PmmInv
  PROVE  ChunksExclusive
<1>1. \A c \in Chunk : ChunkInv(c)
  BY DEF PmmInv
<1>2. ASSUME NEW t \in Thread
      PROVE  /\ \A c \in holding(t) : p.state[c] \in {"TEMP_PINNED", "ALLOCATED"}
             /\ \A u \in Thread \ {t} : holding(t) \cap holding(u) = {}
             /\ t \in Block => \A c \in used_chunks[t] \cup free_chunks[t] : p.state[c] = "TEMP_PINNED"
             /\ th[t].pc \in {"done", "split"} => p.state[th[t].c] = "TEMP_PINNED"
  <2>1. ASSUME NEW c \in holding(t) PROVE p.state[c] \in {"TEMP_PINNED", "ALLOCATED"}
    <3>1. c \in Chunk /\ Has(t, c) /\ (Owns(t, c) \/ th[t].pc \in HoldWork \cup FreeWork \cup {"merge_locked"})
      BY HoldingFacts
    <3>2. OwnedBy(t, c) /\ WorkedBy(t, c)
      BY <1>1, <3>1 DEF ChunkInv
    <3>3. CASE Owns(t, c)
      BY <3>2, <3>3 DEF OwnedBy, Owns
    <3>4. CASE ~Owns(t, c)
      BY <3>1, <3>2, <3>4 DEF WorkedBy, Has
    <3> QED BY <3>3, <3>4
  <2>2. ASSUME NEW u \in Thread \ {t}, NEW c \in holding(t), c \in holding(u) PROVE FALSE
    <3>1. c \in Chunk /\ Has(t, c) /\ Has(u, c)
      BY <2>2, HoldingFacts
    <3> QED BY <1>1, <2>2, <3>1 DEF ChunkInv
  <2>3. ASSUME t \in Block, NEW c \in used_chunks[t] \cup free_chunks[t] PROVE p.state[c] = "TEMP_PINNED"
    <3>1. c \in Chunk
      BY <2>3 DEF PmmInv, TypeInv, TypeOK
    <3> QED BY <1>1, <2>3, <3>1 DEF ChunkInv, OwnedBy
  <2>4. ASSUME th[t].pc \in {"done", "split"} PROVE p.state[th[t].c] = "TEMP_PINNED"
    <3>1. th[t].c \in Chunk
      BY <2>4, ThreadTyped DEF PmmInv, FlowOf, Locals, ChunkSteps
    <3>2. WorkedBy(t, th[t].c) /\ Works(th[t], th[t].c)
      BY <1>1, <2>4, <3>1 DEF ChunkInv, Works, HoldWork
    <3> QED BY <2>4, <3>2 DEF WorkedBy, HoldWork
  <2> QED BY <2>1, <2>2, <2>3, <2>4
<1> QED BY <1>2 DEF ChunksExclusive

LEMMA InvReverseMap ==
  ASSUME PmmInv
  PROVE  ReverseMap
<1>0. \A c \in Chunk : ChunkInv(c)
  BY DEF PmmInv
<1>1. ASSUME NEW c \in Chunk, p.state[c] = "ALLOCATED", p.type[c[1]] = "USER"
      PROVE  /\ p.va_block[c] # NoBlock
             /\ c \in holding(p.va_block[c]) \ used_chunks[p.va_block[c]]
  <2>1. PICK t \in Thread : Has(t, c)
    BY <1>0, <1>1 DEF ChunkInv
  <2>2. OwnedBy(t, c) /\ WorkedBy(t, c)
    BY <1>0, <2>1 DEF ChunkInv
  <2>3. CASE Owns(t, c)
    <3>0. p.type[c[1]] = mem_type(t)
      BY <2>2, <2>3 DEF OwnedBy
    <3>1. t \in Block /\ c \in chunks[t] /\ c \notin used_chunks[t]
      <4>1. t \in Block
        BY <1>1, <3>0 DEF mem_type
      <4>2. c \notin used_chunks[t] /\ c \notin free_chunks[t]
        BY <1>1, <2>2, <4>1 DEF OwnedBy
      <4>3. t # KThread
        BY <4>1, Threads
      <4> QED BY <2>3, <4>1, <4>2, <4>3 DEF Owns
    <3>2. p.va_block[c] = t /\ t # NoBlock
      BY <2>2, <3>1, NoBlockAssumption DEF OwnedBy
    <3> QED BY <2>3, <3>1, <3>2, HoldingPart
  <2>4. CASE ~Owns(t, c)
    <3>1. Works(th[t], c)
      BY <2>1, <2>4 DEF Has
    <3>2. th[t].pc \in FreeWork /\ th[t].c = c
      BY <1>1, <2>2, <3>1 DEF WorkedBy, Works, HoldWork, RootWork
    <3>3. t \in Block
      BY <1>1, <2>2, <3>1, <3>2 DEF WorkedBy, mem_type, FreeWork, RootWork
    <3>4. p.va_block[c] = t /\ t # NoBlock /\ c \notin used_chunks[t]
      BY <1>1, <2>2, <3>1, <3>2, <3>3, NoBlockAssumption DEF WorkedBy, OwnedBy
    <3> QED BY <3>2, <3>4, HoldingPart
  <2> QED BY <2>3, <2>4
<1>2. ASSUME NEW b \in Block, NEW c \in chunks[b] \ used_chunks[b]
      PROVE  p.state[c] = "ALLOCATED" /\ p.va_block[c] = b
  <2>1. c \in Chunk /\ b \in Thread
    BY Threads DEF PmmInv, TypeInv, TypeOK
  <2> QED BY <1>0, <1>2, <2>1 DEF ChunkInv, OwnedBy
<1> QED BY <1>1, <1>2 DEF ReverseMap

LEMMA InvNoLeaks ==
  ASSUME PmmInv
  PROVE  NoLeaks
<1>1. ASSUME NEW c \in Chunk, p.state[c] \in {"TEMP_PINNED", "ALLOCATED"}
      PROVE  \E t \in Thread : \/ c \in holding(t)
                               \/ th[t].r = c[1]
                               \/ th[t].pc = "merge_locked" /\ th[t].c[1] = c[1]
  <2>1. ChunkInv(c) /\ c[1] \in Root
    BY ChunkFacts DEF PmmInv
  <2>2. CASE p.in_eviction[c[1]]
    BY <2>1, <2>2 DEF PmmInv, RootInv, Evicting
  <2>3. CASE ~p.in_eviction[c[1]]
    <3>1. PICK t \in Thread : Has(t, c)
      BY <1>1, <2>1, <2>3 DEF ChunkInv
    <3>2. \/ Owns(t, c) \/ (th[t].pc \in HoldWork \cup FreeWork /\ th[t].c = c)
          \/ th[t].pc = "merge_locked" /\ th[t].c[1] = c[1]
          \/ c = root_chunk(th[t].r) /\ th[t].pc \in RootWork
      BY <3>1 DEF Has, Works
    <3>3. c = root_chunk(th[t].r) /\ th[t].pc \in RootWork => th[t].r = c[1]
      <4>1. th[t].pc \in RootWork => th[t].r \in Root
        BY ThreadTyped DEF PmmInv, FlowOf, Locals, RootWork, RootSteps
      <4> QED BY <4>1, ChunkFacts
    <3> QED BY <3>2, <3>3, HoldingPart
  <2> QED BY <2>2, <2>3
<1> QED BY <1>1 DEF NoLeaks

LEMMA InvPmaAgreement ==
  ASSUME PmmInv
  PROVE  PmaAgreement
<1>1. \A r \in Root : PmaOf(r)
  BY DEF PmmInv, RootInv
<1>2. ASSUME NEW r \in Root PROVE pinning(r) <=> Pinned(r)
  BY DEF pinning, Pinned, Pinning, at, PmmInv, Discipline, NeedsLock
<1>3. p.type \in [Root -> MemoryTypes]
  BY StateTyped, Fields DEF PmmInv
<1> QED BY <1>1, <1>2, <1>3 DEF PmaAgreement, PmaOf, Returning, pma_state, at, MemoryTypes

LEMMA InvEvictionOwned ==
  ASSUME PmmInv
  PROVE  EvictionOwned
<1>1. ASSUME NEW r \in Root, p.in_eviction[r]
      PROVE  \E t \in Thread : /\ th[t].r = r /\ th[t].pc \in Evictors
                               /\ \A u \in Thread \ {t} : th[u].r # r
  BY <1>1 DEF PmmInv, RootInv, Evicting, Uses
<1> QED BY <1>1 DEF EvictionOwned, Evictors

LEMMA InvRangeOnlyUser ==
  ASSUME PmmInv
  PROVE  RangeOnlyUser
<1>1. SUFFICES ASSUME th[PThread].pc = "spin", th[PThread].lo <= th[PThread].hi
               PROVE  \/ p.state[root_chunk(th[PThread].lo)] = "PMA_OWNED"
                      \/ p.type[th[PThread].lo] = "USER"
  BY DEF RangeOnlyUser, at, address
<1>2. TypeInv /\ Discipline /\ Marked /\ PThread \in Thread
  BY Threads DEF PmmInv
<1>3. th[PThread].op = "range"
  BY <1>1, <1>2, ThreadOrderly, Courses DEF RangeSteps
<1>4. /\ th[PThread].lo \in Nat /\ th[PThread].hi \in Nat /\ th[PThread].lo .. th[PThread].hi \subseteq evicting
      /\ \A r \in evicting : r \in Root /\ pma[r] \in {"free", "unpinned"}
  BY <1>2, <1>3, RangeFacts
<1>5. th[PThread].lo \in Root /\ pma[th[PThread].lo] \in {"free", "unpinned"}
  BY <1>1, <1>4
<1>6. PmaOf(th[PThread].lo)
  BY <1>5 DEF PmmInv, RootInv
<1>7. p.type[th[PThread].lo] \in {"USER", "KERNEL"}
  BY <1>2, <1>5 DEF TypeInv, TypeOK, PmmType, MemoryTypes
<1> QED BY <1>5, <1>6, <1>7 DEF PmaOf, pma_state

LEMMA CandidateRoots ==
  ASSUME p \in PmmType, NEW r \in pick_candidates(p) \cup ToSet(p.unused) \cup ToSet(p.used)
  PROVE  r \in Root /\ (r \in ToSet(p.unused) \cup ToSet(p.used) \/ (root_chunk(r) \in p.free /\ p.type[r] = "USER"))
<1>1. CASE r \in pick_candidates(p)
  BY <1>1, Candidates
<1>2. CASE r \in ToSet(p.unused) \cup ToSet(p.used)
  <2>1. p.unused \in Seq(Root) /\ p.used \in Seq(Root)
    BY DEF PmmType
  <2> QED BY <1>2, <2>1 DEF ToSet
<1> QED BY <1>1, <1>2

LEMMA InvPickSafe ==
  ASSUME PmmInv
  PROVE  PickSafe
<1>0. /\ \A r \in Root : Tree(r) /\ Listing(r)
      /\ p \in PmmType /\ TypeInv /\ Discipline
  BY DEF PmmInv, RootInv, TypeInv, TypeOK
<1>1. ASSUME NEW r \in Root, chunk_is_evictable(p, r), p.type[r] = "USER"
      PROVE  p.list_state[r] \in {"FREE", "VA_BLOCK_USED", "VA_BLOCK_UNUSED"}
  <2>1. p.state[root_chunk(r)] \in ChunkStates
    <3>1. p.state \in [Chunk -> ChunkStates] /\ root_chunk(r) \in Chunk
      BY <1>0, ChunkFacts, Fields
    <3> QED BY <3>1
  <2>0. p.state[root_chunk(r)] = "IS_SPLIT" => p.pinned_leaf_chunks[r] \in Nat
    <3>1. PinnedIn(p, r) \in SUBSET subchunks(r) /\ IsFiniteSet(subchunks(r))
      BY SubchunksCounted DEF PinnedIn
    <3>2. Cardinality(PinnedIn(p, r)) \in Nat
      BY <3>1, FS_Subset, FS_CardinalityType
    <3> QED BY <1>1, <3>2 DEF PmmInv, RootInv, Counted, chunk_is_evictable
  <2>2. \/ p.state[root_chunk(r)] \in {"FREE", "ALLOCATED"}
        \/ (p.state[root_chunk(r)] = "IS_SPLIT" /\ p.pinned_leaf_chunks[r] = 0)
    BY <1>0, <1>1, <2>0, <2>1 DEF chunk_is_evictable, chunk_is_root_chunk_pinned, ChunkStates, Tree
  <2> QED BY <1>0, <1>1, <2>2 DEF chunk_is_evictable, Listing, InUse, Listed
<1>2. ASSUME NEW t \in Thread, th[t].pc = "pick",
             NEW r \in pick_candidates(p) \cup ToSet(p.unused) \cup ToSet(p.used)
      PROVE  chunk_is_evictable(p, r) /\ p.type[r] = "USER"
  <2>1. r \in Root /\ (r \in ToSet(p.unused) \cup ToSet(p.used) \/ (root_chunk(r) \in p.free /\ p.type[r] = "USER"))
    BY <1>0, <1>2, CandidateRoots
  <2>2. Tree(r) /\ Listing(r)
    BY <1>0, <2>1
  <2>3. CASE root_chunk(r) \in p.free /\ p.type[r] = "USER"
    <3>1. p.state[root_chunk(r)] = "FREE" /\ ~p.in_eviction[r]
      BY <2>1, <2>2, <2>3, ChunkFacts DEF Tree, Listing, linked, family
    <3> QED BY <2>3, <3>1 DEF chunk_is_evictable, chunk_is_root_chunk_pinned
  <2>4. CASE r \in ToSet(p.unused) \cup ToSet(p.used)
    <3>1. Listed(p, r) /\ ~p.in_eviction[r]
      BY <2>2, <2>4 DEF Listing, linked, Listed
    <3>2. \A u \in Thread : ~Merging(th[u], r)
      <4>1. lock = t
        BY <1>0, <1>2 DEF Discipline, NeedsLock
      <4>2. ASSUME NEW u \in Thread, Merging(th[u], r) PROVE FALSE
        <5>1. lock = u /\ th[u].pc # "pick"
          BY <1>0, <4>2 DEF Merging, Discipline, NeedsLock
        <5> QED BY <1>2, <4>1, <5>1
      <4> QED BY <4>2
    <3>3. InUse(r) /\ p.type[r] = "USER"
      BY <2>2, <3>1, <3>2 DEF Listing
    <3> QED BY <3>1, <3>3 DEF InUse, chunk_is_evictable, chunk_is_root_chunk_pinned
  <2> QED BY <2>1, <2>3, <2>4
<1> QED BY <1>1, <1>2 DEF PickSafe, at

LEMMA InvCounters ==
  ASSUME PmmInv, th[PThread].pc # "lock_range"
  PROVE  SuballocCounters
<1>0. TypeInv /\ Discipline
  BY DEF PmmInv
<1>1. ASSUME NEW r \in Root, p.state[root_chunk(r)] = "IS_SPLIT"
      PROVE  /\ p.allocated[r] = Cardinality(AllocatedIn(p, r))
             /\ p.pinned_leaf_chunks[r] = Cardinality(PinnedIn(p, r))
             /\ p.allocated[r] > 0
  <2>1. RootInv(r)
    BY DEF PmmInv
  <2>2. ~(p.in_eviction[r] /\ \E t \in Thread : th[t].pc = "merge_locked" /\ th[t].c[1] = r)
    <3>1. SUFFICES ASSUME p.in_eviction[r], NEW t \in Thread, th[t].pc = "merge_locked", th[t].c[1] = r PROVE FALSE
      OBVIOUS
    <3>2. PICK u \in Thread : th[u].r = r /\ th[u].pc \in Evictors
      BY <2>1, <3>1 DEF RootInv, Evicting
    <3>3. lock = t /\ u # t
      BY <1>0, <3>1, <3>2 DEF Discipline, NeedsLock, Evictors
    <3>4. th[u].pc \in {"find", "va_block", "relock", "merge"}
      <4>1. th[u].pc # "pin_free"
        BY <1>0, <3>3 DEF Discipline, NeedsLock
      <4>2. th[u].pc = "lock_range" => u = PThread
        BY <1>0, ThreadOrderly, Courses DEF RangeSteps
      <4> QED BY <3>2, <4>1, <4>2 DEF Evictors
    <3>5. th[t].c \in Chunk /\ th[t].c[2] # 0
      BY <1>0, <3>1, ThreadTyped DEF FlowOf, Locals, ChunkSteps
    <3>6. Works(th[t], th[t].c) /\ th[t].c \in family(r)
      BY <3>1, <3>5, ChunkFacts DEF Works, family
    <3>7. p.state[th[t].c] = "ALLOCATED"
      BY <2>1, <3>2, <3>4, <3>6 DEF RootInv, Uses, Progress
    <3>8. WorkedBy(t, th[t].c)
      BY <3>5 DEF PmmInv, ChunkInv
    <3> QED BY <3>1, <3>6, <3>7, <3>8 DEF WorkedBy
  <2> QED BY <1>1, <2>1, <2>2 DEF RootInv, Counted
<1> QED BY <1>1 DEF SuballocCounters, AllocatedIn, PinnedIn

-----------------------------------------------------------------------------
(* What a policy callback can change.                                      *)

(* u is q but for the place of root chunk r on the two eviction lists.     *)
Alike(q, u, r) ==
  /\ q \in PmmType /\ Relisted(q, u, r)
  /\ root_chunk(r) \in u.free <=> root_chunk(r) \in q.free
  /\ r \in ToSet(u.used) \cup ToSet(u.unused) <=> r \in ToSet(q.used) \cup ToSet(q.unused)

LEMMA BothLists ==
  ASSUME NEW s \in Seq(Root), NEW t \in Seq(Root)
  PROVE  ToSet(s \o t) = ToSet(s) \cup ToSet(t)
<1>1. Len(s) \in Nat /\ Len(t) \in Nat /\ DOMAIN s = 1 .. Len(s) /\ DOMAIN t = 1 .. Len(t)
  BY LenProperties
<1>2. /\ DOMAIN (s \o t) = 1 .. Len(s) + Len(t)
      /\ \A i \in 1 .. Len(s) + Len(t) : (s \o t)[i] = IF i <= Len(s) THEN s[i] ELSE t[i - Len(s)]
  BY ConcatProperties, LenProperties
<1>3. ASSUME NEW i \in DOMAIN (s \o t) PROVE (s \o t)[i] \in ToSet(s) \cup ToSet(t)
  <2>1. CASE i <= Len(s)
    BY <1>1, <1>2, <2>1 DEF ToSet
  <2>2. CASE ~(i <= Len(s))
    <3>1. i - Len(s) \in 1 .. Len(t)
      BY <1>1, <1>2, <2>2
    <3> QED BY <1>1, <1>2, <2>2, <3>1 DEF ToSet
  <2> QED BY <2>1, <2>2
<1>4. ASSUME NEW i \in DOMAIN s PROVE s[i] \in ToSet(s \o t)
  <2>1. i \in DOMAIN (s \o t) /\ (s \o t)[i] = s[i]
    BY <1>1, <1>2
  <2> QED BY <2>1 DEF ToSet
<1>5. ASSUME NEW i \in DOMAIN t PROVE t[i] \in ToSet(s \o t)
  <2>1. /\ i + Len(s) \in 1 .. Len(s) + Len(t) /\ ~(i + Len(s) <= Len(s))
        /\ (i + Len(s)) - Len(s) = i
    BY <1>1
  <2>2. (s \o t)[i + Len(s)] = t[i]
    BY <1>2, <2>1
  <2> QED BY <1>2, <2>1, <2>2 DEF ToSet
<1> QED BY <1>3, <1>4, <1>5 DEF ToSet

(* Two such states are the same when the place of r is left out.           *)
placeless(q, r) ==
  [q EXCEPT !.used = <<>>, !.unused = <<>>, !.list_state[r] = "NONE", !.list_generation[r] = 0]

LEMMA AlikeRecords ==
  ASSUME NEW q, NEW u, NEW r \in Root, Alike(q, u, r)
  PROVE  placeless(u, r) = placeless(q, r)
<1>1. /\ q \in PmmType /\ u \in PmmType /\ SameChunks(q, u)
      /\ \A s \in Root \ {r} : u.list_state[s] = q.list_state[s] /\ u.list_generation[s] = q.list_generation[s]
      /\ \A c \in Chunk : c # root_chunk(r) => (c \in u.free <=> c \in q.free)
      /\ root_chunk(r) \in u.free <=> root_chunk(r) \in q.free
  BY DEF Alike, Relisted
<1>2. u.free = q.free
  <2>1. u.free \in SUBSET Chunk /\ q.free \in SUBSET Chunk
    BY <1>1 DEF PmmType
  <2> QED BY <1>1, <2>1
<1> DEFINE ls == [q.list_state EXCEPT ![r] = "NONE"]
           lg == [q.list_generation EXCEPT ![r] = 0]
<1>3. /\ q.list_state \in [Root -> ListStates] /\ q.list_generation \in [Root -> Nat]
      /\ u.list_state \in [Root -> ListStates] /\ u.list_generation \in [Root -> Nat]
  BY <1>1 DEF PmmType
<1>4. [u.list_state EXCEPT ![r] = "NONE"] = ls /\ [u.list_generation EXCEPT ![r] = 0] = lg
  BY <1>1, <1>3
<1>5. [u EXCEPT !.used = <<>>, !.unused = <<>>, !.list_state[r] = "NONE", !.list_generation[r] = 0]
      = [u EXCEPT !.used = <<>>, !.unused = <<>>, !.list_state = ls, !.list_generation = lg]
  BY <1>1, <1>4 DEF PmmType
<1>6. [q EXCEPT !.used = <<>>, !.unused = <<>>, !.list_state[r] = "NONE", !.list_generation[r] = 0]
      = [q EXCEPT !.used = <<>>, !.unused = <<>>, !.list_state = ls, !.list_generation = lg]
  BY <1>1 DEF PmmType
<1> HIDE DEF ls, lg
<1>7. [u EXCEPT !.used = <<>>, !.unused = <<>>, !.list_state = ls, !.list_generation = lg]
      = [q EXCEPT !.used = <<>>, !.unused = <<>>, !.list_state = ls, !.list_generation = lg]
  BY <1>1, <1>2 DEF PmmType, SameChunks
<1> QED BY <1>5, <1>6, <1>7 DEF placeless

LEMMA AlikeConfined ==
  ASSUME NEW q, NEW u, NEW r \in Root, Alike(q, u, r),
         RemoveFirst(q.used, r) = RemoveFirst(p.used, r), RemoveFirst(q.unused, r) = RemoveFirst(p.unused, r)
  PROVE  confined(r, u, q)
<1>1. placeless(u, r) = placeless(q, r)
  BY AlikeRecords
<1>2. /\ q.used \in Seq(Root) /\ q.unused \in Seq(Root) /\ u.used \in Seq(Root) /\ u.unused \in Seq(Root)
  BY Fields DEF Alike, Relisted
<1>3. ToSet(u.used \o u.unused) = ToSet(q.used \o q.unused)
  <2>1. ToSet(u.used \o u.unused) = ToSet(u.used) \cup ToSet(u.unused)
    BY <1>2, BothLists
  <2>2. ToSet(q.used \o q.unused) = ToSet(q.used) \cup ToSet(q.unused)
    BY <1>2, BothLists
  <2>3. /\ ToSet(q.used) \subseteq Root /\ ToSet(q.unused) \subseteq Root
        /\ ToSet(u.used) \subseteq Root /\ ToSet(u.unused) \subseteq Root
    BY <1>2 DEF ToSet
  <2> QED BY <2>1, <2>2, <2>3 DEF Alike, Relisted
<1>4. RemoveFirst(u.used, r) = RemoveFirst(p.used, r) /\ RemoveFirst(u.unused, r) = RemoveFirst(p.unused, r)
  BY DEF Alike, Relisted
<1> QED BY <1>1, <1>3, <1>4 DEF confined, placeless

(* Without a decision the hooks commit nothing.                            *)
LEMMA NoDecision ==
  ASSUME NEW q, NEW r
  PROVE  /\ bpf_call_gpu_block_activate(q, r, no_decision) = q
         /\ access_effect(q, r, no_decision) = "NATIVE" /\ bpf_call_gpu_block_access(q, r, no_decision) = q
<1>1. /\ no_decision.action = ACTION_DEFAULT /\ ~no_decision.request.attempted /\ ~no_decision.request.conflict
  BY DEF no_decision, no_request
<1>2. validate_pmm(pmm_snapshot(q, r), pmm_snapshot(q, r), no_decision.request) = "NOOP_DEFAULT"
  BY <1>1 DEF validate_pmm, request_result
<1>3. pmm_bpf_validate_reorder_locked(q, r, pmm_snapshot(q, r), no_decision.request) = "NOOP_DEFAULT"
  BY <1>2 DEF pmm_bpf_validate_reorder_locked
<1>4. access_effect(q, r, no_decision) = "NATIVE"
  BY <1>1, <1>3 DEF access_effect, pmm_access_effect, ACTION_DEFAULT
<1> QED BY <1>3, <1>4 DEF bpf_call_gpu_block_activate, bpf_call_gpu_block_access, pmm_activate_effect

(* On an eviction list before and after the hook.                          *)
LEMMA ListedAlike ==
  ASSUME NEW q \in PmmType, NEW u, NEW r \in Root, Relisted(q, u, r),
         linked(q, r), Listed(q, r), linked(u, r), Listed(u, r)
  PROVE  Alike(q, u, r)
BY DEF Alike, linked, Listed

LEMMA AlikeItself ==
  ASSUME NEW q \in PmmType, ListsInjective(q), NEW r \in Root
  PROVE  Alike(q, q, r)
BY DEF Alike, Relisted, SameChunks

(* The activate hook of a chunk that is not free and not pinned.           *)
LEMMA ActivateAlike ==
  ASSUME NEW q \in PmmType, ListsInjective(q), NEW c \in Chunk, q.state[c] = "ALLOCATED", NEW d
  PROVE  Alike(chunk_update_lists_locked(q, c, no_decision), chunk_update_lists_locked(q, c, d), c[1])
<1> DEFINE moved == root_list_update_locked(q, root_chunk(c[1]), "used", "VA_BLOCK_USED", "MOVE_TAIL")
           del == root_list_update_locked(q, root_chunk(c[1]), "none", "NONE", "DEL_INIT")
           hooked(x) == bpf_call_gpu_block_activate(moved, c[1], x)
           v(x) == IF q.type[c[1]] # "USER" THEN q
                   ELSE IF chunk_is_root_chunk_pinned(q, c[1]) THEN del
                   ELSE IF q.state[root_chunk(c[1])] # "FREE" THEN hooked(x) ELSE q
           u(x) == chunk_update_lists_locked(q, c, x)
<1>0. PICK r \in Root : r = c[1]
  BY ChunkFacts
<1>1. Relisted(q, moved, r) /\ linked(moved, r) /\ Listed(moved, r)
  <2>1. ListOf("used") = "VA_BLOCK_USED"
    BY DEF ListOf
  <2> QED BY <1>0, <2>1, RootMoved DEF Listed
<1>2. Relisted(q, del, r)
  BY <1>0, RootDeleted
<1> HIDE DEF moved, del
<1>3. moved \in PmmType /\ ListsInjective(moved) /\ moved.state = q.state
  BY <1>1 DEF Relisted, SameChunks
<1>4. ASSUME NEW x PROVE u(x) = v(x)
  <2>1. Reordered(moved, hooked(x), r)
    BY <1>0, <1>3, HookReorders
  <2>2. hooked(x).state[c] = "ALLOCATED"
    BY <1>3, <2>1 DEF Reordered, Relisted, SameChunks
  <2>3. del.state[c] = "ALLOCATED"
    BY <1>2 DEF Relisted, SameChunks
  <2>4. v(x).state[c] = "ALLOCATED"
    BY <2>2, <2>3
  <2>5. u(x) = CASE v(x).state[c] = "FREE" -> root_list_update_locked(v(x), c, "free", "FREE", "MOVE_TAIL")
                 [] v(x).state[c] = "TEMP_PINNED" -> root_list_update_locked(v(x), c, "none", "NONE", "DEL_INIT")
                 [] OTHER -> v(x)
    BY DEF chunk_update_lists_locked, moved, del
  <2> HIDE DEF v, u
  <2> QED BY <2>4, <2>5
<1>5. hooked(no_decision) = moved
  BY NoDecision
<1>6. Alike(moved, hooked(d), r)
  <2>1. Reordered(moved, hooked(d), r)
    BY <1>0, <1>3, HookReorders
  <2> HIDE DEF hooked
  <2> QED BY <1>1, <1>3, <2>1, ListedAlike, AlikeItself DEF Reordered
<1>7. Alike(q, q, r) /\ Alike(del, del, r)
  <2>1. del \in PmmType /\ ListsInjective(del)
    BY <1>2 DEF Relisted
  <2> QED BY <2>1, AlikeItself
<1>8. Alike(v(no_decision), v(d), r)
  <2> HIDE DEF hooked
  <2> QED BY <1>5, <1>6, <1>7
<1>9. u(no_decision) = v(no_decision) /\ u(d) = v(d)
  BY <1>4
<1> HIDE DEF u, v
<1>10. Alike(u(no_decision), u(d), r)
  BY <1>8, <1>9
<1> QED BY <1>0, <1>10 DEF u

LEMMA UnpinConfined ==
  ASSUME p \in PmmType, ListsInjective(p), NEW c \in Chunk, NEW b \in Block, NEW d
  PROVE  confined(c[1], gpu_unpin_temp(p, c, b, d), gpu_unpin_temp(p, c, b, no_decision))
<1> DEFINE l == root_list_update_locked(p, c, "none", "NONE", "INIT")
           k == chunk_unpin(l, c, "ALLOCATED")
           v == [k EXCEPT !.va_block[c] = b]
           u(x) == chunk_update_lists_locked(v, c, x)
<1>0. PICK r \in Root : r = c[1]
  BY ChunkFacts
<1>1. ASSUME NEW x PROVE gpu_unpin_temp(p, c, b, x) = u(x)
  BY DEF gpu_unpin_temp
<1>2. l \in PmmType /\ ListsInjective(l) /\ l.used = p.used /\ l.unused = p.unused
  <2>1. CASE c = root_chunk(r)
    <3>1. l = set_list_state(p, root_chunk(r), "NONE")
      BY <2>1 DEF root_list_update_locked
    <3>2. "NONE" \in ListStates
      BY DEF ListStates
    <3> HIDE DEF l
    <3>3. Relisted(p, l, r) /\ l.used = p.used /\ l.unused = p.unused
      BY <3>1, <3>2, SetListState
    <3> QED BY <3>3 DEF Relisted
  <2>2. CASE c # root_chunk(r)
    <3>1. l = p
      BY <1>0, <2>2, SubchunkListed
    <3> QED BY <3>1
  <2> QED BY <2>1, <2>2
<1> HIDE DEF l
<1>3. SameLists(l, k) /\ k.state[c] = "ALLOCATED"
  <2>1. "ALLOCATED" \in ChunkStates
    BY DEF ChunkStates
  <2> QED BY <1>2, <2>1, ChunkUnpinned
<1> HIDE DEF k
<1>4. k \in PmmType /\ k.used = p.used /\ k.unused = p.unused
  BY <1>2, <1>3 DEF SameLists
<1>5. v \in PmmType /\ v.used = p.used /\ v.unused = p.unused /\ v.state = k.state
  <2> DEFINE vb == [k.va_block EXCEPT ![c] = b]
  <2>1. vb \in [Chunk -> Block \cup {NoBlock}]
    BY <1>4, Fields
  <2>2. v = [k EXCEPT !.va_block = vb]
    OBVIOUS
  <2> HIDE DEF v, vb
  <2> QED BY <1>4, <2>1, <2>2 DEF PmmType
<1> HIDE DEF v
<1>6. ListsInjective(v) /\ v.state[c] = "ALLOCATED"
  BY <1>3, <1>5 DEF ListsInjective
<1>7. Alike(u(no_decision), u(d), r)
  BY <1>0, <1>5, <1>6, ActivateAlike
<1>8. Updated(v, u(no_decision), c)
  BY <1>5, <1>6, UpdateLists
<1> HIDE DEF u
<1>9. RemoveFirst(u(no_decision).used, r) = RemoveFirst(p.used, r) /\ RemoveFirst(u(no_decision).unused, r) = RemoveFirst(p.unused, r)
  BY <1>0, <1>5, <1>8 DEF Updated
<1>10. confined(r, u(d), u(no_decision))
  BY <1>7, <1>9, AlikeConfined
<1> QED BY <1>0, <1>1, <1>10

LEMMA AccessConfined ==
  ASSUME p \in PmmType, ListsInjective(p), NEW r \in Root, NEW d, linked(p, r),
         chunk_is_root_chunk_pinned(p, r) \/ p.in_eviction[r] \/ Listed(p, r)
  PROVE  confined(r, root_chunk_update_eviction_list(p, r, TRUE, d),
                     root_chunk_update_eviction_list(p, r, TRUE, no_decision))
<1> DEFINE native == root_list_update_locked(p, root_chunk(r), "used", "VA_BLOCK_USED", "MOVE_TAIL")
           with == root_chunk_update_eviction_list(p, r, TRUE, d)
           without == root_chunk_update_eviction_list(p, r, TRUE, no_decision)
           k == bpf_call_gpu_block_access(p, r, d)
<1>0. Alike(p, p, r)
  BY AlikeItself
<1>1. CASE chunk_is_root_chunk_pinned(p, r) \/ p.in_eviction[r]
  <2>1. with = p /\ without = p
    BY <1>1 DEF root_chunk_update_eviction_list
  <2> QED BY <1>0, <2>1, AlikeConfined
<1>2. CASE ~(chunk_is_root_chunk_pinned(p, r) \/ p.in_eviction[r])
  <2>1. without = native
    BY <1>2, NoDecision DEF root_chunk_update_eviction_list
  <2>2. with = native \/ with = k
    <3>1. access_effect(p, r, d) = "NATIVE" => k = p
      BY DEF bpf_call_gpu_block_access
    <3>2. with = IF access_effect(p, r, d) = "NATIVE"
                 THEN root_list_update_locked(k, root_chunk(r), "used", "VA_BLOCK_USED", "MOVE_TAIL") ELSE k
      BY <1>2 DEF root_chunk_update_eviction_list
    <3> QED BY <3>1, <3>2
  <2>3. Relisted(p, native, r) /\ linked(native, r) /\ Listed(native, r)
    <3>1. ListOf("used") = "VA_BLOCK_USED"
      BY DEF ListOf
    <3> QED BY <3>1, RootMoved DEF Listed
  <2>4. Reordered(p, k, r)
    BY HookReorders
  <2> HIDE DEF native, with, without, k
  <2>5. Relisted(p, k, r) /\ linked(k, r) /\ Listed(k, r)
    BY <1>0, <1>2, <2>4 DEF Reordered, Alike
  <2>6. native \in PmmType /\ ListsInjective(native)
    BY <2>3 DEF Relisted
  <2>7. Relisted(native, k, r)
    BY <2>3, <2>5 DEF Relisted, SameChunks
  <2>8. Alike(native, native, r) /\ Alike(native, k, r)
    BY <2>3, <2>5, <2>6, <2>7, ListedAlike, AlikeItself
  <2>9. RemoveFirst(native.used, r) = RemoveFirst(p.used, r) /\ RemoveFirst(native.unused, r) = RemoveFirst(p.unused, r)
    BY <2>3 DEF Relisted
  <2>10. confined(r, with, without)
    BY <2>1, <2>2, <2>8, <2>9, AlikeConfined
  <2> QED BY <2>10 DEF with, without
<1> QED BY <1>1, <1>2

LEMMA InvPolicyConfined ==
  ASSUME PmmInv
  PROVE  PolicyConfined
<1>1. p \in PmmType /\ ListsInjective(p) /\ RestTyped
  BY StateTyped DEF PmmInv
<1>2. ASSUME NEW b \in Block, NEW d \in Decisions, NEW c \in used_chunks[b]
      PROVE  confined(c[1], gpu_unpin_temp(p, c, b, d), gpu_unpin_temp(p, c, b, no_decision))
  <2>1. c \in Chunk
    BY <1>1 DEF RestTyped
  <2> QED BY <1>1, <2>1, UnpinConfined
<1>3. ASSUME NEW b \in Block, NEW d \in Decisions, NEW r \in Root, chunks[b] = {root_chunk(r)}
      PROVE  confined(r, root_chunk_update_eviction_list(p, r, TRUE, d),
                         root_chunk_update_eviction_list(p, r, TRUE, no_decision))
  <2>1. /\ root_chunk(r) \in Chunk /\ root_chunk(r)[1] = r /\ b \in Thread
    BY ChunkFacts, Threads
  <2>2. OwnedBy(b, root_chunk(r)) /\ Owns(b, root_chunk(r)) /\ Listing(r)
    BY <1>3, <2>1 DEF PmmInv, ChunkInv, RootInv, Owns
  <2>3. p.type[r] = "USER" /\ p.state[root_chunk(r)] \in {"ALLOCATED", "TEMP_PINNED"}
    BY <1>3, <2>1, <2>2 DEF OwnedBy, mem_type
  <2>4. linked(p, r) /\ (chunk_is_root_chunk_pinned(p, r) \/ p.in_eviction[r] \/ Listed(p, r))
    BY <2>2, <2>3 DEF Listing, InUse, chunk_is_root_chunk_pinned
  <2> QED BY <1>1, <2>4, AccessConfined
<1> QED BY <1>2, <1>3 DEF PolicyConfined

-----------------------------------------------------------------------------
(* PMM implements MemoryOwnership: the mapped state, and what makes a step *)
(* of the threads a step of the promise.                                   *)

Clients == Block \cup {KThread}

page_users(g) == {t \in Clients : \E c \in client_chunks(t) : covers(c, g)}

mapped_owner == [r \in Root |-> pma_owner(r)]

mapped_users == [g \in Page |-> page_users(g)]

Refines == [Promise!Next]_<<mapped_owner, mapped_users>>

SameOwners == \A r \in Root : pma_owner(r)' = pma_owner(r)

SameUsers == \A g \in Page : page_users(g)' = page_users(g)

LEMMA StutterRefines ==
  ASSUME SameOwners, SameUsers
  PROVE  Refines
<1>1. mapped_owner' = mapped_owner
  BY DEF SameOwners, mapped_owner
<1>2. mapped_users' = mapped_users
  BY DEF SameUsers, mapped_users
<1> QED BY <1>1, <1>2 DEF Refines

LEMMA GiveRefines ==
  ASSUME NEW S \in SUBSET Root, NEW who, SameUsers,
         \A r \in Root : pma_owner(r)' = IF r \in S THEN who ELSE pma_owner(r)
  PROVE  /\ who = "uvm" /\ (\A r \in S : pma_owner(r) = "pma") => Refines
         /\ who = "rm" /\ (\A r \in S : pma_owner(r) = "pma") => Refines
         /\ who = "pma" /\ (\A r \in S : pma_owner(r) = "rm") => Refines
<1>1. mapped_users' = mapped_users
  BY DEF SameUsers, mapped_users
<1>2. mapped_owner' = [r \in Root |-> IF r \in S THEN who ELSE mapped_owner[r]]
  BY DEF mapped_owner
<1>3. Promise!give(S, who) /\ UNCHANGED mapped_users
  BY <1>1, <1>2 DEF Promise!give, mapped_owner
<1>4. ASSUME who = "uvm", \A r \in S : pma_owner(r) = "pma" PROVE Refines
  <2>1. Promise!Grow(S)
    BY <1>3, <1>4 DEF Promise!Grow, mapped_users, page_users, Clients
  <2> QED BY <2>1 DEF Refines, Promise!Next
<1>5. ASSUME who = "rm", \A r \in S : pma_owner(r) = "pma" PROVE Refines
  <2>1. Promise!RmTakes(S)
    BY <1>3, <1>5 DEF Promise!RmTakes, mapped_users, page_users, Clients
  <2> QED BY <2>1 DEF Refines, Promise!Next
<1>6. ASSUME who = "pma", \A r \in S : pma_owner(r) = "rm" PROVE Refines
  <2>1. Promise!RmReturns(S)
    BY <1>3, <1>6 DEF Promise!RmReturns, mapped_users, page_users, Clients
  <2> QED BY <2>1 DEF Refines, Promise!Next
<1> QED BY <1>4, <1>5, <1>6

LEMMA ShrinkRefines ==
  ASSUME NEW r \in Root, NEW who \in {"pma", "rm"}, SameUsers,
         pma_owner(r) = "uvm", \A g \in Page : g[1] = r => page_users(g) = {},
         \A s \in Root : pma_owner(s)' = IF s = r THEN who ELSE pma_owner(s)
  PROVE  Refines
<1>1. mapped_users' = mapped_users
  BY DEF SameUsers, mapped_users
<1>2. mapped_owner' = [s \in Root |-> IF s \in {r} THEN who ELSE mapped_owner[s]]
  BY DEF mapped_owner
<1>3. Promise!give({r}, who)
  BY <1>2 DEF Promise!give, mapped_owner
<1>4. Promise!unused({r})
  BY DEF Promise!unused, page_users, Clients
<1>5. Promise!Shrink(r, who)
  BY <1>1, <1>3, <1>4 DEF Promise!Shrink, mapped_users, page_users, Clients
<1> QED BY <1>5 DEF Refines, Promise!Next

LEMMA TakeRefines ==
  ASSUME NEW k \in Clients, NEW r \in Root, NEW S \in SUBSET {g \in Page : g[1] = r}, SameOwners,
         pma_owner(r) = "uvm", \A g \in S : page_users(g) = {},
         \A g \in Page : page_users(g)' = IF g \in S THEN {k} ELSE page_users(g)
  PROVE  Refines
<1>1. mapped_owner' = mapped_owner
  BY DEF SameOwners, mapped_owner
<1>2. mapped_users' = [g \in Page |-> IF g \in S THEN {k} ELSE mapped_users[g]]
  BY DEF mapped_users
<1>3. \A g \in S : g[1] = r /\ mapped_users[g] = {}
  BY DEF mapped_users
<1>4. Promise!Take(k, r, S)
  BY <1>1, <1>2, <1>3 DEF Promise!Take, mapped_users, mapped_owner, page_users, Clients
<1>5. k \in Block \cup {KThread}
  BY DEF Clients
<1> QED BY <1>4, <1>5 DEF Refines, Promise!Next

LEMMA DropRefines ==
  ASSUME NEW k \in Clients, NEW r \in Root, NEW S \in SUBSET {g \in Page : g[1] = r}, SameOwners,
         \A g \in S : page_users(g) = {k},
         \A g \in Page : page_users(g)' = IF g \in S THEN {} ELSE page_users(g)
  PROVE  Refines
<1>1. mapped_owner' = mapped_owner
  BY DEF SameOwners, mapped_owner
<1>2. mapped_users' = [g \in Page |-> IF g \in S THEN {} ELSE mapped_users[g]]
  BY DEF mapped_users
<1>3. \A g \in S : mapped_users[g] = {k}
  BY DEF mapped_users
<1>4. Promise!Drop(k, S)
  BY <1>1, <1>2, <1>3 DEF Promise!Drop, mapped_users, mapped_owner, page_users, Clients
<1>5. k \in Block \cup {KThread}
  BY DEF Clients
<1> QED BY <1>4, <1>5 DEF Refines, Promise!Next

-----------------------------------------------------------------------------
(* What the invariant says of pages and their users.                       *)

LEMMA PageFacts ==
  /\ \A g \in Page : g \in Chunk /\ g[1] \in Root /\ g \in subchunks(g[1]) /\ g # root_chunk(g[1])
  /\ \A r \in Root : subchunks(r) \subseteq Page
  /\ \A c \in Chunk, g \in Page : covers(c, g) => c[1] = g[1]
<1>1. ASSUME NEW g \in Page PROVE g \in Chunk /\ g[1] \in Root /\ g \in subchunks(g[1]) /\ g # root_chunk(g[1])
  <2>1. PICK r \in Root : g \in subchunks(r)
    BY DEF Page
  <2> QED BY <2>1, ChunkFacts
<1>2. \A r \in Root : subchunks(r) \subseteq Page
  BY DEF Page
<1>3. ASSUME NEW c \in Chunk, NEW g \in Page, covers(c, g) PROVE c[1] = g[1]
  BY <1>1, <1>3, ChunkFacts DEF covers
<1> QED BY <1>1, <1>2, <1>3

LEMMA ClientFacts ==
  ASSUME TypeInv, NEW t \in Clients
  PROVE  t \in Thread /\ client_chunks(t) \subseteq Chunk /\ \A c \in Chunk : c \in client_chunks(t) <=> Owns(t, c)
<1>1. RestTyped
  BY StateTyped
<1>2. CASE t \in Block
  BY <1>1, <1>2, Threads DEF Clients, client_chunks, Owns, RestTyped
<1>3. CASE t = KThread
  BY <1>1, <1>3, Threads DEF Clients, client_chunks, Owns, RestTyped
<1> QED BY <1>2, <1>3 DEF Clients

(* A page lies in one chunk that somebody holds, and that one has one      *)
(* holder.                                                                 *)
LEMMA OneCover ==
  ASSUME Whole, NEW g \in Page, NEW c \in Chunk, NEW e \in Chunk, covers(c, g), covers(e, g),
         NEW t \in Thread, Has(t, c), NEW u \in Thread, Has(u, e)
  PROVE  c = e /\ t = u
<1>1. p.state[c] \in {"TEMP_PINNED", "ALLOCATED"} /\ p.state[e] \in {"TEMP_PINNED", "ALLOCATED"}
  BY Holders DEF Whole
<1>2. g[1] \in Root /\ g \in subchunks(g[1]) /\ g # root_chunk(g[1])
  BY PageFacts
<1>3. Tree(g[1])
  BY <1>2 DEF Whole, RootInv
<1>4. c = e
  BY <1>1, <1>2, <1>3 DEF Tree, covers
<1> QED BY <1>4 DEF Whole, ChunkInv

(* The memory that a thread holds is UVM's.                                *)
LEMMA HeldIsUvm ==
  ASSUME TypeInv, Whole, NEW c \in Chunk, NEW t \in Thread, Has(t, c)
  PROVE  p.state[root_chunk(c[1])] # "PMA_OWNED" /\ pma_owner(c[1]) = "uvm"
<1>1. p.state[c] \in {"TEMP_PINNED", "ALLOCATED"}
  BY Holders DEF Whole
<1>2. c[1] \in Root /\ (c = root_chunk(c[1]) \/ c \in subchunks(c[1]))
  BY ChunkFacts
<1>3. RootInv(c[1])
  BY <1>2 DEF Whole
<1>4. p.state[root_chunk(c[1])] # "PMA_OWNED"
  BY <1>1, <1>2, <1>3 DEF RootInv, Tree
<1>5. pma[c[1]] \in {"unpinned", "pinned"}
  BY <1>3, <1>4 DEF RootInv, PmaOf, pma_state
<1> QED BY <1>4, <1>5 DEF pma_owner

LEMMA UnusedPages ==
  ASSUME TypeInv, Whole, NEW r \in Root, p.state[root_chunk(r)] = "PMA_OWNED", NEW g \in Page, g[1] = r
  PROVE  page_users(g) = {}
<1>1. ASSUME NEW t \in Clients, NEW c \in client_chunks(t), covers(c, g) PROVE FALSE
  <2>1. c \in Chunk /\ Has(t, c) /\ t \in Thread
    BY ClientFacts DEF Has
  <2>2. c[1] = r
    BY <1>1, <2>1, PageFacts
  <2> QED BY <2>1, <2>2, HeldIsUvm
<1> QED BY <1>1 DEF page_users

-----------------------------------------------------------------------------
(* Every step of the threads is a step of the promise.                     *)

Quiet == UNCHANGED <<pma, chunks, free_chunks, kchunks>>

LEMMA SameClientsUse ==
  ASSUME UNCHANGED <<chunks, free_chunks, kchunks>>
  PROVE  SameUsers
<1>1. ASSUME NEW t PROVE client_chunks(t)' = client_chunks(t)
  BY DEF client_chunks
<1> QED BY <1>1 DEF SameUsers, page_users

LEMMA SamePmaOwns ==
  ASSUME UNCHANGED pma
  PROVE  SameOwners
BY DEF SameOwners, pma_owner

LEMMA QuietRefines ==
  ASSUME Quiet
  PROVE  Refines
BY SameClientsUse, SamePmaOwns, StutterRefines DEF Quiet

(* An allocation that returns takes the pages of its chunk.                *)
LEMMA ClientTakes ==
  ASSUME TypeInv, Whole, NEW t \in Clients, NEW c \in Chunk, Works(th[t], c), UNCHANGED pma,
         \A u \in Clients : client_chunks(u)' = IF u = t THEN client_chunks(u) \cup {c} ELSE client_chunks(u)
  PROVE  Refines
<1> DEFINE S == {g \in Page : covers(c, g)}
<1>1. t \in Thread /\ Has(t, c) /\ c[1] \in Root
  BY ClientFacts, ChunkFacts DEF Has
<1>2. S \in SUBSET {g \in Page : g[1] = c[1]}
  BY PageFacts
<1>3. pma_owner(c[1]) = "uvm"
  BY <1>1, HeldIsUvm
<1>4. ASSUME NEW g \in S, NEW u \in Clients, NEW e \in client_chunks(u), covers(e, g) PROVE FALSE
  <2>1. e \in Chunk /\ u \in Thread /\ Owns(u, e) /\ Has(u, e)
    BY ClientFacts DEF Has
  <2>2. c = e /\ t = u
    BY <1>1, <1>4, <2>1, OneCover
  <2> QED BY <1>1, <2>1, <2>2 DEF Whole, ChunkInv, OwnedBy
<1>5. \A g \in S : page_users(g) = {}
  BY <1>4 DEF page_users
<1>6. ASSUME NEW g \in Page PROVE page_users(g)' = IF g \in S THEN {t} ELSE page_users(g)
  <2>1. page_users(g)' = {u \in Clients : \E e \in client_chunks(u)' : covers(e, g)}
    BY DEF page_users, Clients, covers
  <2>2. CASE g \in S
    BY <1>4, <2>1, <2>2
  <2>3. CASE g \notin S
    BY <2>1, <2>3 DEF page_users
  <2> QED BY <2>2, <2>3
<1>7. SameOwners
  BY SamePmaOwns
<1> QED BY <1>1, <1>2, <1>3, <1>5, <1>6, <1>7, TakeRefines

(* A client that frees chunks of a root chunk, or from which they are      *)
(* evicted, drops their pages.                                             *)
LEMMA ClientDrops ==
  ASSUME TypeInv, Whole, NEW t \in Clients, NEW r \in Root, NEW cs, cs \subseteq client_chunks(t),
         \A c \in cs : c[1] = r, UNCHANGED pma,
         \A u \in Clients : client_chunks(u)' = IF u = t THEN client_chunks(u) \ cs ELSE client_chunks(u)
  PROVE  Refines
<1> DEFINE S == {g \in Page : \E c \in cs : covers(c, g)}
<1>1. \A c \in cs : c \in Chunk /\ t \in Thread /\ Has(t, c)
  BY ClientFacts DEF Has
<1>2. S \in SUBSET {g \in Page : g[1] = r}
  BY <1>1, PageFacts
<1>3. ASSUME NEW g \in S, NEW u \in Clients, NEW e \in client_chunks(u), covers(e, g) PROVE u = t /\ e \in cs
  <2>1. e \in Chunk /\ u \in Thread /\ Has(u, e)
    BY ClientFacts DEF Has
  <2>2. PICK c \in cs : covers(c, g)
    OBVIOUS
  <2>3. c = e /\ t = u
    BY <1>1, <1>3, <2>1, <2>2, OneCover
  <2> QED BY <2>2, <2>3
<1>4. \A g \in S : page_users(g) = {t}
  BY <1>3 DEF page_users
<1>5. ASSUME NEW g \in Page PROVE page_users(g)' = IF g \in S THEN {} ELSE page_users(g)
  <2>1. page_users(g)' = {u \in Clients : \E e \in client_chunks(u)' : covers(e, g)}
    BY DEF page_users, Clients, covers
  <2>2. CASE g \in S
    BY <1>3, <2>1, <2>2
  <2>3. CASE g \notin S
    BY <2>1, <2>3 DEF page_users
  <2> QED BY <2>2, <2>3
<1>6. SameOwners
  BY SamePmaOwns
<1> QED BY <1>2, <1>4, <1>5, <1>6, DropRefines

LEMMA DoneRefines ==
  ASSUME TypeInv, Whole, NEW t \in Thread, Done(t)
  PROVE  Refines
<1>1. t \in Block /\ th[t].pc = "done" /\ UNCHANGED <<pma, kchunks>> /\ RestTyped
  BY StateTyped DEF Done, at, pma_vars
<1>2. PICK c \in Chunk : c = th[t].c
  BY <1>1, ThreadTyped DEF FlowOf, Locals, ChunkSteps
<1>3. Works(th[t], c) /\ t \in Clients
  BY <1>1, <1>2 DEF Works, HoldWork, Clients
<1>4. \A u \in Clients : client_chunks(u)' = IF u = t THEN client_chunks(u) \cup {c} ELSE client_chunks(u)
  <2>1. CASE th[t].evict
    <3>1. chunks' = chunks /\ free_chunks' = [free_chunks EXCEPT ![t] = @ \cup {c}]
      BY <1>2, <2>1 DEF Done
    <3> QED BY <1>1, <3>1 DEF client_chunks, RestTyped
  <2>2. CASE ~th[t].evict
    <3>1. free_chunks' = free_chunks /\ chunks' = [chunks EXCEPT ![t] = @ \cup {c}]
      BY <1>2, <2>2 DEF Done
    <3> QED BY <1>1, <3>1 DEF client_chunks, RestTyped
  <2> QED BY <2>1, <2>2
<1> QED BY <1>1, <1>3, <1>4, ClientTakes

LEMMA KernelDoneRefines ==
  ASSUME TypeInv, Whole, NEW t \in Thread, KernelDone(t)
  PROVE  Refines
<1>1. t = KThread /\ t \notin Block /\ th[t].pc = "done" /\ UNCHANGED <<pma, chunks, free_chunks>>
  BY Threads DEF KernelDone, at, pma_vars
<1>2. PICK c \in Chunk : c = th[t].c
  BY <1>1, ThreadTyped DEF FlowOf, Locals, ChunkSteps
<1>3. Works(th[t], c) /\ t \in Clients
  BY <1>1, <1>2 DEF Works, HoldWork, Clients
<1>4. \A u \in Clients : client_chunks(u)' = IF u = t THEN client_chunks(u) \cup {c} ELSE client_chunks(u)
  BY <1>1, <1>2 DEF KernelDone, client_chunks, Clients
<1> QED BY <1>1, <1>3, <1>4, ClientTakes

LEMMA StartReleaseRefines ==
  ASSUME TypeInv, Whole, NEW b \in Block, StartRelease(b)
  PROVE  Refines
<1>1. RestTyped /\ UNCHANGED <<pma, chunks, kchunks>> /\ b \in Clients /\ b \in Thread
  BY StateTyped, Threads DEF StartRelease, pma_vars, Clients
<1>2. PICK c \in free_chunks[b] : free_chunks' = [free_chunks EXCEPT ![b] = @ \ {c}]
  BY DEF StartRelease
<1>3. c \in Chunk /\ c[1] \in Root /\ {c} \subseteq client_chunks(b)
  BY <1>1, <1>2, ChunkFacts DEF RestTyped, client_chunks
<1>4. c \notin chunks[b]
  BY <1>1, <1>2, <1>3 DEF Whole, ChunkInv, OwnedBy
<1>5. \A u \in Clients : client_chunks(u)' = IF u = b THEN client_chunks(u) \ {c} ELSE client_chunks(u)
  BY <1>1, <1>2, <1>4 DEF client_chunks, RestTyped
<1> QED BY <1>1, <1>3, <1>5, ClientDrops

LEMMA StartFreeRefines ==
  ASSUME TypeInv, Whole, NEW b \in Block, StartFree(b)
  PROVE  Refines
<1>1. RestTyped /\ UNCHANGED <<pma, free_chunks, kchunks>> /\ b \in Clients /\ b \in Thread
  BY StateTyped, Threads DEF StartFree, pma_vars, Clients
<1>2. PICK c \in chunks[b] : chunks' = [chunks EXCEPT ![b] = @ \ {c}]
  BY DEF StartFree
<1>3. c \in Chunk /\ c[1] \in Root /\ {c} \subseteq client_chunks(b)
  BY <1>1, <1>2, ChunkFacts DEF RestTyped, client_chunks
<1>4. c \notin free_chunks[b]
  BY <1>1, <1>2, <1>3 DEF Whole, ChunkInv, OwnedBy
<1>5. \A u \in Clients : client_chunks(u)' = IF u = b THEN client_chunks(u) \ {c} ELSE client_chunks(u)
  BY <1>1, <1>2, <1>4 DEF client_chunks, RestTyped
<1> QED BY <1>1, <1>3, <1>5, ClientDrops

LEMMA StartKernelFreeRefines ==
  ASSUME TypeInv, Whole, StartKernelFree
  PROVE  Refines
<1>1. RestTyped /\ UNCHANGED <<pma, chunks, free_chunks>> /\ KThread \in Clients /\ KThread \notin Block
  BY StateTyped, Threads DEF StartKernelFree, pma_vars, Clients
<1>2. PICK c \in kchunks : kchunks' = kchunks \ {c}
  BY DEF StartKernelFree
<1>3. c \in Chunk /\ c[1] \in Root /\ {c} \subseteq client_chunks(KThread)
  BY <1>1, <1>2, ChunkFacts DEF RestTyped, client_chunks
<1>4. \A u \in Clients : client_chunks(u)' = IF u = KThread THEN client_chunks(u) \ {c} ELSE client_chunks(u)
  BY <1>1, <1>2 DEF client_chunks, Clients
<1> QED BY <1>1, <1>3, <1>4, ClientDrops

LEMMA EvictBlockRefines ==
  ASSUME TypeInv, Whole, NEW t \in Thread, EvictBlock(t)
  PROVE  Refines
<1>1. RestTyped /\ th[t].pc = "va_block" /\ UNCHANGED <<pma, free_chunks, kchunks>>
  BY StateTyped DEF EvictBlock, at, pma_vars
<1>2. PICK r \in Root : r = th[t].r
  BY EvictBlockStep
<1>3. PICK b \in Block : b = th[t].va
  BY <1>1, <1>2 DEF Whole, RootInv, Uses, Progress
<1> DEFINE cs == {c \in chunks[b] : c[1] = r}
<1>4. chunks' = [chunks EXCEPT ![b] = chunks[b] \ cs]
  BY <1>2, <1>3 DEF EvictBlock, evict_chunks
<1>5. b \in Clients /\ b \in Thread /\ cs \subseteq client_chunks(b)
  BY Threads DEF Clients, client_chunks
<1>6. \A c \in cs : c \notin free_chunks[b]
  BY <1>1, <1>5 DEF Whole, ChunkInv, OwnedBy, RestTyped
<1>7. \A u \in Clients : client_chunks(u)' = IF u = b THEN client_chunks(u) \ cs ELSE client_chunks(u)
  BY <1>1, <1>4, <1>6 DEF client_chunks, RestTyped
<1>8. \A c \in cs : c[1] = r
  OBVIOUS
<1> HIDE DEF cs
<1> QED BY <1>1, <1>5, <1>7, <1>8, ClientDrops

LEMMA PopulateRefines ==
  ASSUME TypeInv, NEW b \in Block, Populate(b)
  PROVE  Refines
<1>1. RestTyped /\ UNCHANGED <<pma, kchunks>>
  BY StateTyped DEF Populate, pma_vars
<1>2. PICK c \in free_chunks[b] : /\ free_chunks' = [free_chunks EXCEPT ![b] = @ \ {c}]
                                  /\ chunks' = [chunks EXCEPT ![b] = @ \cup {c}]
  BY DEF Populate
<1>3. \A u \in Clients : client_chunks(u)' = client_chunks(u)
  BY <1>1, <1>2 DEF client_chunks, RestTyped
<1>4. SameUsers
  BY <1>3 DEF SameUsers, page_users, Clients, covers
<1> QED BY <1>1, <1>4, SamePmaOwns, StutterRefines

(* The pages of a root chunk that is split in place keep their user.       *)
LEMMA InPlaceSplitRefines ==
  ASSUME TypeInv, NEW t \in Thread, InPlaceSplit(t)
  PROVE  Refines
<1>1. RestTyped /\ t \in Block /\ UNCHANGED <<pma, free_chunks, kchunks>>
  BY StateTyped, InPlaceSplitStep DEF InPlaceSplit, pma_vars
<1>2. PICK r \in Root : chunks[t] = {root_chunk(r)} /\ chunks' = [chunks EXCEPT ![t] = subchunks(r)]
  BY DEF InPlaceSplit
<1>3. ASSUME NEW g \in Page
      PROVE  (\E c \in {root_chunk(r)} : covers(c, g)) <=> \E c \in subchunks(r) : covers(c, g)
  <2>1. g \in Chunk /\ g \in subchunks(g[1]) /\ g # root_chunk(g[1]) /\ g[1] \in Root
    BY PageFacts
  <2>2. covers(root_chunk(r), g) <=> g[1] = r
    BY <2>1, ChunkFacts DEF covers
  <2>3. \A c \in subchunks(r) : covers(c, g) <=> c = g
    BY <2>1, ChunkFacts DEF covers
  <2> QED BY <2>1, <2>2, <2>3, ChunkFacts
<1>4. ASSUME NEW g \in Page, NEW u \in Clients
      PROVE  (\E c \in client_chunks(u)' : covers(c, g)) <=> \E c \in client_chunks(u) : covers(c, g)
  <2>1. CASE u = t
    <3>1. client_chunks(u) = {root_chunk(r)} \cup free_chunks[t] /\ client_chunks(u)' = subchunks(r) \cup free_chunks[t]
      BY <1>1, <1>2, <2>1 DEF client_chunks, RestTyped
    <3> QED BY <1>3, <3>1
  <2>2. CASE u # t
    BY <1>1, <1>2, <2>2 DEF client_chunks, RestTyped
  <2> QED BY <2>1, <2>2
<1>5. SameUsers
  BY <1>4 DEF SameUsers, page_users, Clients, covers
<1> QED BY <1>1, <1>5, SamePmaOwns, StutterRefines

(* PMA: what alloc_root_chunk gets, what free_root_chunk returns and what  *)
(* the callbacks give to RM.                                               *)

LEMMA PmaAllocRefines ==
  ASSUME TypeInv, NEW t \in Thread, PmaAlloc(t)
  PROVE  Refines
<1>1. UNCHANGED <<chunks, free_chunks, kchunks>>
  BY DEF PmaAlloc, clients
<1>2. PICK s \in pma_batches(mem_type(t)) :
        pma' = [r \in Root |-> IF r \notin s THEN pma[r] ELSE IF t \in Block THEN "unpinned" ELSE "pinned"]
  BY DEF PmaAlloc
<1>3. s \subseteq pma_available
  BY <1>2 DEF pma_batches, kSubset
<1>4. \A r \in s : r \in Root /\ pma_owner(r) = "pma"
  BY <1>3 DEF pma_available, pma_owner
<1>5. \A r \in Root : pma_owner(r)' = IF r \in s THEN "uvm" ELSE pma_owner(r)
  BY <1>2 DEF pma_owner
<1>6. SameUsers /\ s \in SUBSET Root
  BY <1>1, <1>4, SameClientsUse
<1> QED BY <1>4, <1>5, <1>6, GiveRefines

LEMMA PmaPinRefines ==
  ASSUME TypeInv, Whole, NEW t \in Thread, PmaPin(t)
  PROVE  Refines
<1>1. th[t].pc = "pma_pin" /\ UNCHANGED <<chunks, free_chunks, kchunks>> /\ pma' = [pma EXCEPT ![th[t].r] = "pinned"]
  BY DEF PmaPin, at, clients
<1>2. PICK r \in Root : r = th[t].r
  BY <1>1, ThreadTyped DEF FlowOf, Locals, RootSteps
<1>3. root_chunk(r) \in Chunk /\ root_chunk(r)[1] = r /\ Has(t, root_chunk(r))
  BY <1>1, <1>2, ChunkFacts DEF Has, Works, RootWork
<1>4. pma_owner(r) = "uvm"
  BY <1>3, HeldIsUvm
<1>5. SameOwners
  BY <1>1, <1>2, <1>4, StateTyped DEF SameOwners, pma_owner, RestTyped
<1> QED BY <1>1, <1>5, SameClientsUse, StutterRefines

LEMMA PmaFreeRefines ==
  ASSUME TypeInv, Whole, NEW t \in Thread, PmaFree(t)
  PROVE  Refines
<1>1. th[t].pc = "pma_free" /\ UNCHANGED <<chunks, free_chunks, kchunks>>
  BY DEF PmaFree, at, clients
<1>2. PICK r \in Root : r = th[t].r
  BY <1>1, ThreadTyped DEF FlowOf, Locals, RootSteps
<1>3. p.state[root_chunk(r)] = "PMA_OWNED" /\ pma[r] \in {"unpinned", "pinned"}
  BY <1>1, <1>2 DEF Whole, RootInv, Uses, Progress
<1>4. PICK x \in {"rm", "free"} : pma' = [pma EXCEPT ![r] = x]
  BY <1>2 DEF PmaFree
<1>5. PICK who \in {"rm", "pma"} : who = IF x = "rm" THEN "rm" ELSE "pma"
  OBVIOUS
<1>6. pma_owner(r) = "uvm" /\ \A s \in Root : pma_owner(s)' = IF s = r THEN who ELSE pma_owner(s)
  BY <1>3, <1>4, <1>5, StateTyped DEF pma_owner, RestTyped
<1>7. SameUsers /\ \A g \in Page : g[1] = r => page_users(g) = {}
  BY <1>1, <1>3, UnusedPages, SameClientsUse
<1> QED BY <1>6, <1>7, ShrinkRefines

LEMMA RangeOkRefines ==
  ASSUME TypeInv, Discipline, Marked, RangeOk
  PROVE  Refines
<1>1. /\ th[PThread].pc = "range_ok" /\ UNCHANGED <<chunks, free_chunks, kchunks>>
      /\ pma' = [r \in Root |-> IF r \in evicting THEN "rm" ELSE pma[r]]
  BY DEF RangeOk, at, clients
<1>2. th[PThread].op = "range"
  BY <1>1, Threads, ThreadOrderly, Courses DEF RangeSteps
<1>3. evicting \in SUBSET Root /\ \A r \in evicting : pma_owner(r) = "pma"
  BY <1>1, <1>2, StateTyped DEF Marked, pma_owner, RestTyped
<1>4. \A r \in Root : pma_owner(r)' = IF r \in evicting THEN "rm" ELSE pma_owner(r)
  BY <1>1 DEF pma_owner
<1> QED BY <1>1, <1>3, <1>4, SameClientsUse, GiveRefines

LEMMA PagesErrorRefines ==
  ASSUME TypeInv, Whole, PagesError
  PROVE  Refines
<1>1. UNCHANGED <<chunks, free_chunks, kchunks>>
  BY DEF PagesError, clients
<1>2. PICK s \in SUBSET Root : s = th[PThread].batch
  BY Threads, ThreadTyped DEF Local
<1>3. pma' = [r \in Root |-> IF r \in s THEN "free" ELSE pma[r]]
  BY <1>2 DEF PagesError
<1>4. \A r \in s : pma_owner(r) = "rm"
  BY <1>2, Threads DEF Whole, RootInv, Batched, pma_owner
<1>5. \A r \in Root : pma_owner(r)' = IF r \in s THEN "pma" ELSE pma_owner(r)
  BY <1>3 DEF pma_owner
<1> QED BY <1>1, <1>4, <1>5, SameClientsUse, GiveRefines

LEMMA RmFreeRefines ==
  ASSUME TypeInv, RmFree
  PROVE  Refines
<1>1. UNCHANGED <<chunks, free_chunks, kchunks>> /\ pma \in [Root -> {"free", "unpinned", "pinned", "rm"}]
  BY StateTyped DEF RmFree, clients, RestTyped
<1>2. PICK r \in Root : pma[r] = "rm" /\ pma' = [pma EXCEPT ![r] = "free"]
  BY DEF RmFree
<1>3. \A s \in {r} : pma_owner(s) = "rm"
  BY <1>2 DEF pma_owner
<1>4. \A s \in Root : pma_owner(s)' = IF s \in {r} THEN "pma" ELSE pma_owner(s)
  BY <1>1, <1>2 DEF pma_owner
<1> QED BY <1>1, <1>3, <1>4, SameClientsUse, GiveRefines

-----------------------------------------------------------------------------
LEMMA StepRefines ==
  ASSUME TypeInv, Safe, NEW t \in Thread, Step(t) \/ Lock(t), ~EvictBlockFails(t)
  PROVE  Refines
<1>1. Whole
  BY DEF Safe
<1>2. CASE Claim(t) \/ ClaimAgain(t) \/ ClaimBigger(t) \/ PmaAllocFails(t) \/ InitRoot(t) \/ Split(t)
           \/ SplitFails(t) \/ AllocError(t) \/ EvictAgain(t) \/ TrackerError(t)
  <2>1. Quiet
    BY <1>2 DEF Quiet, pma_vars, clients, Claim, ClaimAgain, ClaimBigger, PmaAllocFails, InitRoot, Split,
                SplitFails, AllocError, EvictAgain, TrackerError
  <2> QED BY <2>1, QuietRefines
<1>3. CASE Pick(t) \/ PickNone(t) \/ PinFree(t) \/ Find(t) \/ FindNone(t) \/ EvictMerge(t)
           \/ EvictElevated(t) \/ PmaPinInUse(t) \/ SetType(t) \/ Abort(t) \/ AbortWalk(t)
  <2>1. Quiet
    BY <1>3 DEF Quiet, pma_vars, clients, Pick, PickNone, PinFree, Find, FindNone, EvictMerge, EvictElevated,
                PmaPinInUse, SetType, Abort, AbortWalk
  <2> QED BY <2>1, QuietRefines
<1>4. CASE TryFree(t) \/ TryFreeFails(t) \/ FreeLocked(t) \/ MergeLocked(t) \/ FreeNext(t)
           \/ FreeNextNone(t) \/ FreeRoot(t) \/ Lock(t)
  <2>1. Quiet
    BY <1>4 DEF Quiet, pma_vars, clients, TryFree, TryFreeFails, FreeLocked, MergeLocked, FreeNext, FreeNextNone,
                FreeRoot, Lock, LockSplit, LockEvict, Relock, LockFree
  <2> QED BY <2>1, QuietRefines
<1>5. CASE Done(t) \/ KernelDone(t) \/ EvictBlock(t) \/ InPlaceSplit(t)
  BY <1>1, <1>5, DoneRefines, KernelDoneRefines, EvictBlockRefines, InPlaceSplitRefines
<1>6. CASE PmaAlloc(t) \/ PmaPin(t) \/ PmaFree(t)
  BY <1>1, <1>6, PmaAllocRefines, PmaPinRefines, PmaFreeRefines
<1> QED BY <1>2, <1>3, <1>4, <1>5, <1>6 DEF Step

LEMMA CallbackRefines ==
  ASSUME TypeInv, Safe, PmaCallback
  PROVE  Refines
<1>1. CASE Flush \/ SpinPmaOwned \/ SpinStart \/ SpinTimeout \/ LockRange \/ RangeError \/ FlushAgain
           \/ PagesCheck \/ PagesNext
  <2>1. Quiet
    BY <1>1 DEF Quiet, pma_vars, clients, Flush, SpinPmaOwned, SpinStart, SpinTimeout, LockRange, RangeError,
                FlushAgain, PagesCheck, PagesNext
  <2> QED BY <2>1, QuietRefines
<1>2. CASE RangeOk \/ PagesError
  BY <1>2, RangeOkRefines, PagesErrorRefines DEF Safe
<1> QED BY <1>1, <1>2 DEF PmaCallback

LEMMA NextRefines ==
  ASSUME NoAborts, PmmInv, [Next]_vars
  PROVE  Refines
<1>1. TypeInv /\ Safe /\ Whole
  BY DEF PmmInv, Safe, Whole
<1>2. ASSUME NEW t \in Thread, Run(t) PROVE Refines
  <2>1. ~EvictBlockFails(t)
    BY <1>1, NoAbort DEF Safe
  <2> QED BY <1>1, <1>2, <2>1, StepRefines, CallbackRefines DEF Run
<1>3. ASSUME NEW b \in Block, Start(b) \/ Retry(b) PROVE Refines
  <2>1. CASE StartAlloc(b) \/ Mark(b) \/ StartSplit(b) \/ Unpin(b)
    <3>1. Quiet
      BY <2>1 DEF Quiet, pma_vars, clients, StartAlloc, Mark, StartSplit, Unpin
    <3> QED BY <3>1, QuietRefines
  <2>2. CASE StartFree(b) \/ Populate(b) \/ StartRelease(b)
    BY <1>1, <2>2, StartFreeRefines, PopulateRefines, StartReleaseRefines
  <2> QED BY <1>3, <2>1, <2>2 DEF Start, Retry
<1>4. CASE StartKernelAlloc \/ StartRange \/ StartPages \/ UNCHANGED vars
  <2>1. Quiet
    BY <1>4 DEF Quiet, pma_vars, clients, StartKernelAlloc, StartRange, StartPages, vars
  <2> QED BY <2>1, QuietRefines
<1>5. CASE StartKernelFree \/ RmFree
  BY <1>1, <1>5, StartKernelFreeRefines, RmFreeRefines
<1> QED BY <1>2, <1>3, <1>4, <1>5 DEF Next

LEMMA InitRefines ==
  ASSUME Init
  PROVE  Promise!Init
<1>1. \A r \in Root : pma_owner(r) = "pma"
  BY DEF Init, pma_owner
<1>2. \A t \in Clients : client_chunks(t) = {}
  BY DEF Init, client_chunks, Clients
<1>3. \A g \in Page : page_users(g) = {}
  BY <1>2 DEF page_users
<1> QED BY <1>1, <1>3 DEF Promise!Init, page_users, Clients

-----------------------------------------------------------------------------
(* The theorems.                                                           *)

(* PmmInv holds in every state, whatever the policies decide and however   *)
(* allocations, frees, in-place splits, evictions and the two PMA          *)
(* callbacks interleave, for every set of root chunks, blocks and bounds,  *)
(* when no eviction has to be aborted.                                     *)
THEOREM PmmInvariant ==
  ASSUME NoAborts
  PROVE  Spec => []PmmInv
<1>1. Init => TypeInv /\ Safe
  BY InitTyped, InitSafe
<1>2. TypeInv /\ Safe /\ [Next]_vars => TypeInv' /\ Safe'
  BY NextKeepsType, NextSafe
<1>3. TypeInv /\ Safe => PmmInv
  BY DEF PmmInv, Safe, Whole
<1> QED BY <1>1, <1>2, <1>3, PTL DEF Spec

(* list_state is the record of the lists that policy validation takes it   *)
(* for: it names the one list that holds a root chunk, no list holds one   *)
(* twice, and a root chunk in eviction is on none of them, at every step   *)
(* of allocation, free, merge, split, eviction and policy reordering.      *)
THEOREM ListsRecordMembership ==
  ASSUME NoAborts
  PROVE  Spec => []RootListsConsistent
<1>1. PmmInv => RootListsConsistent
  BY InvRootLists
<1> QED BY <1>1, PmmInvariant, PTL

(* A chunk has one holder, and no free, eviction, merge or callback of     *)
(* another thread takes a chunk away from the client or the allocation     *)
(* that holds it, or unpins one that is not mapped yet.                    *)
THEOREM ChunksHeldOnce ==
  ASSUME NoAborts
  PROVE  Spec => []ChunksExclusive
<1>1. PmmInv => ChunksExclusive
  BY InvExclusive
<1> QED BY <1>1, PmmInvariant, PTL

(* The VA block that eviction finds through the reverse mapping holds the  *)
(* chunk, and every unpinned chunk of a block is mapped back to it.        *)
THEOREM ReverseMapComplete ==
  ASSUME NoAborts
  PROVE  Spec => []ReverseMap
<1>1. PmmInv => ReverseMap
  BY InvReverseMap
<1> QED BY <1>1, PmmInvariant, PTL

(* A chunk that is neither free nor owned by PMA is held by a client or by *)
(* an operation that will free it - on the error paths of allocation and   *)
(* split too.                                                              *)
THEOREM ChunksNotLeaked ==
  ASSUME NoAborts
  PROVE  Spec => []NoLeaks
<1>1. PmmInv => NoLeaks
  BY InvNoLeaks
<1> QED BY <1>1, PmmInvariant, PTL

(* PMM and PMA disagree on a root chunk only while a thread holds pma_lock *)
(* for reading between the two calls, and memory is pinned in PMA exactly  *)
(* when it is kernel memory.                                               *)
THEOREM PmaAgrees ==
  ASSUME NoAborts
  PROVE  Spec => []PmaAgreement
<1>1. PmmInv => PmaAgreement
  BY InvPmaAgreement
<1> QED BY <1>1, PmmInvariant, PTL

(* A root chunk in eviction is being evicted by one thread, and by no      *)
(* other: the flag that start_eviction sets under list_lock alone keeps    *)
(* the pmm->lock holder and evict_range apart.                             *)
THEOREM EvictionHasOneOwner ==
  ASSUME NoAborts
  PROVE  Spec => []EvictionOwned
<1>1. PmmInv => EvictionOwned
  BY InvEvictionOwned
<1> QED BY <1>1, PmmInvariant, PTL

(* The assertion of evict_range: what PMM still has of the range is user   *)
(* memory.  It needs the two flushes of pma_lock and that PMA neither      *)
(* hands out nor pins a page of the range.                                 *)
THEOREM RangeHasOnlyUserMemory ==
  ASSUME NoAborts
  PROVE  Spec => []RangeOnlyUser
<1>1. PmmInv => RangeOnlyUser
  BY InvRangeOnlyUser
<1> QED BY <1>1, PmmInvariant, PTL

(* The assertions of chunk_start_eviction and pick_root_chunk_to_evict: a  *)
(* listed root chunk is evictable user memory whenever a thread picks one, *)
(* although the lists hold pinned root chunks while a thread with          *)
(* pmm->lock merges them.                                                  *)
THEOREM PickIsSafe ==
  ASSUME NoAborts
  PROVE  Spec => []PickSafe
<1>1. PmmInv => PickSafe
  BY InvPickSafe
<1> QED BY <1>1, PmmInvariant, PTL

(* suballoc->allocated and pinned_leaf_chunks agree with the states of the *)
(* subchunks, and a split root chunk has an allocated one, except between  *)
(* the two locks of evict_range: there a thread with pmm->lock may be      *)
(* merging the root chunk whose eviction has just been marked under        *)
(* list_lock, and the count of pinned leaves is one too high.              *)
THEOREM CountersAgree ==
  ASSUME NoAborts
  PROVE  Spec => [](th[PThread].pc # "lock_range" => SuballocCounters)
<1>1. PmmInv => (th[PThread].pc # "lock_range" => SuballocCounters)
  BY InvCounters
<1> QED BY <1>1, PmmInvariant, PTL

(* A callback of a policy moves the root chunk it is called for on the two *)
(* eviction lists and changes nothing else: whatever it decides, the chunk *)
(* stays on one of them, every other root chunk keeps its place, and the   *)
(* states, counters and free lists are those without a policy.             *)
THEOREM PolicyIsConfined ==
  ASSUME NoAborts
  PROVE  Spec => []PolicyConfined
<1>1. PmmInv => PolicyConfined
  BY InvPolicyConfined
<1> QED BY <1>1, PmmInvariant, PTL

(* PMM implements MemoryOwnership.  Whatever the interleaving, a root      *)
(* chunk goes back to PMA or to RM only when no client has data in it, PMA *)
(* gives RM only what it owns itself when evict_range returns NV_OK, and a *)
(* page is given to a client only when no other one uses it.               *)
THEOREM KeepsOwnership ==
  ASSUME NoAborts
  PROVE  Spec => Ownership
<1>1. Init => Promise!Init
  BY InitRefines
<1>2. PmmInv /\ [Next]_vars => [Promise!Next]_<<mapped_owner, mapped_users>>
  BY NextRefines DEF Refines
<1>3. PmmInv /\ [Next]_vars =>
        [Promise!Next]_<<[r \in Root |-> pma_owner(r)],
                         [g \in Page |-> {t \in Block \cup {KThread} : \E c \in client_chunks(t) : covers(c, g)}]>>
  BY <1>2 DEF mapped_owner, mapped_users, page_users, Clients
<1> QED BY <1>1, <1>3, PmmInvariant, PTL DEF Spec, Ownership, Promise!Spec

-----------------------------------------------------------------------------
(* What the promise comes to for the pages.                                *)

(* A page with data belongs to UVM and has one user.                       *)
PagesPrivate ==
  \A g \in Page : page_users(g) # {} =>
    pma_owner(g[1]) = "uvm" /\ \E k \in Clients : page_users(g) = {k}

LEMMA InvPagesPrivate ==
  ASSUME PmmInv
  PROVE  PagesPrivate
<1> SUFFICES ASSUME NEW g \in Page, page_users(g) # {}
             PROVE  pma_owner(g[1]) = "uvm" /\ \E k \in Clients : page_users(g) = {k}
  BY DEF PagesPrivate
<1>1. TypeInv /\ Whole
  BY DEF PmmInv, Whole
<1>2. ASSUME NEW t, t \in page_users(g)
      PROVE  t \in Clients /\ t \in Thread /\ \E c \in Chunk : covers(c, g) /\ Has(t, c)
  <2>1. t \in Clients
    BY <1>2 DEF page_users
  <2>2. PICK c \in client_chunks(t) : covers(c, g)
    BY <1>2 DEF page_users
  <2>3. c \in Chunk /\ Has(t, c) /\ t \in Thread
    BY <1>1, <2>1, <2>2, ClientFacts DEF Has
  <2> QED BY <2>1, <2>2, <2>3
<1>3. PICK k : k \in page_users(g)
  OBVIOUS
<1>4. PICK c \in Chunk : covers(c, g) /\ Has(k, c)
  BY <1>2, <1>3
<1>5. k \in Clients /\ k \in Thread
  BY <1>2, <1>3
<1>6. pma_owner(g[1]) = "uvm"
  BY <1>1, <1>4, <1>5, HeldIsUvm, PageFacts
<1>7. ASSUME NEW t, t \in page_users(g) PROVE t = k
  <2>1. t \in Thread
    BY <1>2, <1>7
  <2>2. PICK e \in Chunk : covers(e, g) /\ Has(t, e)
    BY <1>2, <1>7
  <2> QED BY <1>1, <1>4, <1>5, <2>1, <2>2, OneCover
<1>8. page_users(g) = {k}
  BY <1>3, <1>7
<1> QED BY <1>5, <1>6, <1>8

(* Two clients never have data in the same page, although the chunk of one *)
(* may be the root chunk and that of the other a subchunk of it, and no    *)
(* client has data in memory that PMA or RM owns.                          *)
THEOREM PagesUsedOnce ==
  ASSUME NoAborts
  PROVE  Spec => []PagesPrivate
<1>1. PmmInv => PagesPrivate
  BY InvPagesPrivate
<1> QED BY <1>1, PmmInvariant, PTL
===============================================================================
