# TLA+ models of the gpu_ext kernel modules

The repository is the NVIDIA open GPU kernel modules, release 575.57.08, extended with
`gpu_ext`/`gpubpf`: eBPF `struct_ops` hooks through which a policy program can influence
prefetching, the eviction order of GPU memory and the scheduling parameters of channel groups
(TSGs). The rule behind the extension is that *a policy proposes and the driver decides*: a
program records a request through a kfunc and returns an action, and the driver validates both
against a snapshot of its own state before it commits anything (`src/GPUBPF-RUNTIME-575.md`,
`src/GPREEMPT-575.md`).

Most of the two million lines of `src/` is the upstream driver. This project models the parts
that carry the extension and the driver logic it is wired into: the transition validator, the
physical memory manager of UVM (PMM) with the two eviction lists a policy reorders, the prefetch
hint, the life of a TSG, the registration of policies, the user space endpoint that sets
timeslices, and the channels through which UVM drives the GPU. Paths below are relative to the repository root; `uvm/` stands for
`src/kernel-open/nvidia-uvm/`, `fifo/` for `src/src/nvidia/src/kernel/gpu/fifo/`.

## 1. Inventory

| Component | Source | State | Operations | Interacts through |
|---|---|---|---|---|
| Transition validator | `nv-gpu-transition-validator.h`, `nv-gpu-timeslice-control.h` in `src/kernel-open/common/inc/` | none; requests live in the caller's decision context | `record_*`, `validate_*`, `translate_*`, `*_effect` | called by all hooks |
| PMM, chunk state | `uvm/uvm_pmm_gpu.c`, `.h` | chunk states and sizes, `suballoc` counters, reverse map, `in_eviction`, `list_state`, `list_generation`, free lists, used/unused eviction lists | pin, unpin, claim, split, free, merge, evict, reorder | `list_lock` |
| PMM, threads | the same, `uvm/uvm_va_block.c` | `pmm->lock`, `pma_lock`, VA block locks, chunks of each block, retry lists | alloc, free, in-place split, eviction for an allocation, `evict_range`, `evict_pages` | calls PMA and is called back by it; locks VA blocks |
| PMA | `phys_mem_allocator*.c` in `src/src/nvidia/src/kernel/gpu/mem_mgr/phys_mem_allocator/` | pages free, unpinned, pinned, being evicted | allocate, pin, free, the eviction callbacks | RM clients and PMM |
| Policy registration | `uvm/uvm_bpf_struct_ops.c`, `src/kernel-open/nvidia/nv-gpu-sched-hooks.c`, `uvm/uvm.c`, `src/kernel-open/nvidia/nv.c` | `uvm_ops`, `nv_gpu_sched_bpf_ops`, the procfs trigger, what the module has set up | reg, unreg, the hooks under `rcu_read_lock`, module init and exit | PMM, prefetch and TSGs call the hooks; the BPF core calls reg and unreg |
| Prefetch hint | `uvm/uvm_perf_prefetch.c` | `prefetch_info` of a block, the bitmap tree | `prenotify_fault_migrations`, `get_hint`, `compute_prefetch_region` | VA block fault service, hooks |
| TSG life cycle | `fifo/kernel_channel_group_api.c`, `fifo/kernel_channel_group.c` | bookkeeping of timeslice and interleave level, local success flags, grpIDs | construct, destruct, set timeslice, set interleave level, schedule | the GPU lock, RPCs to the GSP, scheduling hooks |
| Scheduling kfuncs | `src/kernel-open/nvidia/nv-gpu-sched-hooks.c` | the decision of the running callback | the kfuncs, the four callbacks | TSG life cycle |
| GPreempt transport | `RmGPreemptTransport` in `src/src/nvidia/arch/nvalloc/unix/src/escape.c`, `nv-gpreempt-transport.h` | none of its own; reads the client list, the process of each client, the creating thread of each TSG | QUERY, SET_TIMESLICE | TSG control; user memory; the API and GPU locks |
| Channels | `uvm/uvm_channel.c`, `uvm/uvm_push.c` | GPFIFO ring (`cpu_put`, `gpu_get`, reserved count), push infos, suspended P2P flag | reserve, begin and end push, control entries, update progress, check errors, wait, suspend and resume P2P | pool lock; the GPU; used by migrations, evictions and page table updates |
| Pushbuffer | `uvm/uvm_pushbuffer.c` | chunks (idle, available), their pending pushes, the space being built | claim a chunk, end a push, mark completed | `pushbuffer->lock`, a counting semaphore |
| Tracking semaphores, trackers | `uvm/uvm_gpu_semaphore.c`, `uvm/uvm_tracker.c` | queued value, completed value (64 bit, extended from a 32 bit payload), entries of a tracker | update, is completed, acquire, wait | the GPU writes the payload |
| Diagnostics | the `*-diagnostic*` headers and calls | none that feeds back | tracing only | - |

What is hard in this code, and what would make each component correct:

* **PMM** runs three kinds of threads over one set of chunks with four kinds of locks. `pmm->lock`
  is dropped in the middle of an eviction to take a VA block's lock; `evict_range` starts
  evictions with `list_lock` alone; a free may meet an eviction and must then leave the chunk to
  the evicting thread; a root chunk becomes `PMA_OWNED` before PMA has it. It is correct if no
  chunk has two owners, none is lost, counters and list metadata agree with the chunks, PMA and
  PMM agree about every page up to calls in flight, and every operation ends.
* **Policy reordering** happens between the driver's own list updates. It is correct if it can
  change nothing but the position of the chunk the callback was about, and if `list_state` is
  always the list a root chunk is on.
* **Prefetch** maps between page indices and leaves of a padded tree and lets programs supply 64
  bit endpoints. It is correct if every region it applies lies in the permitted region, is what
  the program asked for consistently or contains the fault, and if it is on when the faults counted
  say so.
* **TSG construction** is a chain of about ten fallible steps that writes local bookkeeping first
  and the GSP later. It is correct if a living TSG has the same values on both sides, a failed
  constructor leaves nothing behind on the GSP, a policy only decides within its domain, and the
  life cycle callbacks match the TSGs that exist.

* **Registration** races with every hook: a policy may be unregistered, dropped, freed and replaced
  between the load of the pointer and the call, and the module may fail half way through its
  initialisation or be unloaded. It is correct if no freed policy is called, the pointer and the
  BPF core agree about who is registered, and nothing runs in a module that is gone.
* **The GPreempt transport** authorises by process. Process numbers come back, a client may outlive
  its owner when its file descriptor was passed on, handles come back, and the parameters lie in
  memory another thread can write. It is correct if only a holder of a group sets its timeslice,
  only the two timeslices are set, and a query names exactly one group with all its channels or none.
* **Channels** have many writers and an asynchronous reader. The ring, the push infos, the memory of
  the pushes and the semaphore value are reused; the payload wraps; the progress of one channel is
  made by whoever needs space. They are correct if completions are never seen early, nothing is
  reused while the GPU may read it, every reserved entry is given back, P2P suspension really waits
  for P2P pushes, and no cycle of waits (entries, chunks, semaphores, locks) can close.

`PROJECT.json` lists the hazards one by one, each at its line.

## 2. Modules

```
TransitionValidator          record, validate, translate, effect (pure operators)
  ^        ^         ^
  |        |         '---- TsgPolicy ------------ MCTsg
  |        |                   ^----------------- TsgPolicy_proofs
  |        '---- PrefetchRegion ----------------- MCPrefetch
  |                   ^-------------------------- PrefetchRegion_proofs
  '---- PmmChunks (pure operators on the chunk state)
            ^---- UvmPmm ------------------------ MCPmm
                    ^---------------------------- UvmPmm_proofs <---- PmmSafety_proofs
                    '- - implements - - > MemoryOwnership

Pushbuffer (pure operators on the pushbuffer)
     ^---- UvmChannel --------------------------- MCChannel
               ^--------------------------------- UvmChannel_proofs

DataLemmas (least elements, powers of two, quotients, cardinalities, lists without
repetition: used by the proof modules)

GpreemptTransport ------------------------------- MCGpreempt
        ^---------------------------------------- GpreemptTransport_proofs

StructOps --------------------------------------- MCStructOps
        ^---------------------------------------- StructOps_proofs
```

### TransitionValidator

One operator per function of the two headers, with their names less the `nv_gpu_transition_`
prefix. NvU64 arithmetic is done in Int and reduced modulo `MaxU64 + 1`, so that the overflow
tests of `translate_endpoint` test something. A request is a record
`[attempted, conflict, value]`; results are the names of the enumeration.

### PmmChunks

The state of a PMM is one record `p`; each function that runs under `list_lock` is an operator
from state to state. A root chunk `<<r, 0>>` has `NSub` subchunks `<<r, i>>`: one split level
stands for the chain 2M - 512K - 64K - 4K, because counters, merging and splitting work parent by
parent. `used` and `unused` are sequences (their order is what policies change), the free lists
are one set (the order of a free list is not observable, and the choice from it is a
nondeterministic one). `list_generation` counts modulo `GenSize`.

### UvmPmm

Each VA block stands also for the thread that services it. `KThread` makes kernel allocations and
`PThread` is the RM thread that runs the PMA callbacks (RM calls them with its API lock held, so
there is one). `th[t].pc` is the place in the code at which a thread is outside every `list_lock`
section; one action takes it to the next such place. The correspondence:

| Steps | Code |
|---|---|
| `claim`, `lock_split`, `claim_again`, `claim_bigger`, `pma_alloc`, `init`, `split`, `lock_evict`, `done` | `alloc_chunk`, `alloc_chunk_with_splits`, `alloc_root_chunk`, `alloc_or_evict_root_chunk*`, `pmm_gpu_alloc` |
| `pick` ... `merge`, `pma_pin`, `set_type`, `abort`, `abort_walk` | `pick_and_evict_root_chunk`, `evict_root_chunk`, `evict_root_chunk_from_va_block`, `uvm_va_block_evict_chunks` |
| `free`, `lock_free`, `free_locked`, `merge_locked`, `free_next`, `free_root`, `pma_free` | `free_chunk`, `try_chunk_free`, `free_chunk_with_merges`, `free_next_available_root_chunk`, `free_root_chunk`, `pmaFreePages` |
| `flush`, `spin`, `lock_range`, `flush_again`, `range_ok`, `range_error` | `uvm_pmm_gpu_pma_evict_range` with its caller `_pmaEvictContiguous` |
| `lock_pages`, `pages_check`, `pages_next`, `pages_error` | `uvm_pmm_gpu_pma_evict_pages` with `_pmaEvictPages` |

`p.used` and `p.unused` change together with the policy's decision, taken from the constant
`Decisions`, wherever the code calls the access or activate hook.

Reductions, each of which merges steps between which no other thread can act on the same data or
leaves out data no property looks at: pinning the free chunks of a picked root chunk and looking
for the next VA block are one action each, although the walk takes `list_lock` per chunk (it holds
`pmm->lock`); a split and the freeing of all but the first subchunk are one action under
`pmm->lock`; merging and clearing `in_eviction` likewise; `down_write`/`up_write` of `pma_lock`,
which only waits for readers, is one action; PMA hands out the largest batch it can; a block's lock is
not a variable but follows from where its thread is.

Steps that look like one and are not are kept apart. A kernel allocation that evicts a root chunk pins its
page in PMA (`PmaPin`) and changes its type afterwards, under `list_lock` (`SetType`); in between PMA has
the page pinned and PMM still has user memory. A root chunk leaves PMM before `pmaFreePages` gets it.

`Faults` names what may fail: `"split"` (no memory for the subchunks), `"batch"` (no memory for the array
of a batched PMA allocation, so that the allocation fails though PMA has pages), `"tracker"` (the tracker
of a chunk cannot be added: the chunk is freed and, as for any `NV_ERR_NO_MEMORY`, `block_alloc_gpu_chunk`
tries again with eviction), `"elevated"` (somebody else holds a reference to an evicted page),
`"eviction"` (a VA block cannot be evicted) and `"timeout"` (`evict_range` gives up).

### MemoryOwnership

The abstract specification of PMM: a root chunk belongs to PMA, UVM or RM, and a page that UVM has
is used by at most one client. Its six actions are all that may ever happen to memory: UVM gets
unused memory from PMA, gives a root chunk away when nobody uses it, RM takes and returns memory of
PMA, a client takes unused pages of a root chunk UVM has, and a client loses pages it uses. The
refinement mapping (`UvmPmm!Promise`) takes the owner from PMA's page states, and the users of a
page from the chunks of the VA blocks (with their retry lists) and of the kernel that cover it;
chunk states, lists, locks and program counters disappear. `UvmPmm!Ownership` is the abstract
specification under this mapping. It is stronger than the invariants: it also says that each step
of an eviction, a split, a merge or a callback is one of these moves or none.

### PrefetchRegion

One VA block and one fault at a time, under the block's lock. `Fault` is the head of
`uvm_perf_prefetch_prenotify_fault_migrations` (the region, the tree, growing the fault
granularity), `NextPage` and `Fill` the loop of `compute_prefetch_mask`, `SetPrefetchRegion` the
kfunc, `InitialReturn`, `Level*` and `IterReturn` the return of the two hooks, `Finish` the masks
at the end and `uvm_perf_prefetch_get_hint_va_block`. Between the start of a callback and its
return the program may call the kfunc any number of times, which is what makes the model a state
machine. Only faults whose input says `asks` have a program that calls the kfunc; the others take
the native path, which is computed by operators. `asked` keeps the first two different regions a
callback asked for and `total` the faults since the destination last changed, up to `MaxTotal`; no
action reads them. That a service ends is a variant and is proved, not checked: every step of the driver
makes `remaining` smaller (`FaultServiced`).

### TsgPolicy

`tsg[t]` is the CPU side of the object with handle `t` (bookkeeping values, the boolean locals and
fields that are set, the place in the running operation), `gsp[t]` the object on the GSP, `ids` the
grpIDs in use, `call` the decision context of the running callback, `known` the grpIDs a policy
has been told of and not told the end of. Operations run under the GPU lock; the constructor
releases it to reserve context buffers, and there other constructors run. `Faults` names the steps
that may fail. A failing RPC has no effect on the GSP; the GSP refuses an object that exists.
`flags` also holds two histories (`allocated`, `rollback_failed`) that no action reads.

### Pushbuffer, UvmChannel

The channels of one GPU. `Pushbuffer` has one operator for each section of `pushbuffer->lock`; its
state is the record `pb` of UvmChannel. In UvmChannel a thread moves from one step to the next where
the code leaves a section of the pool lock, of the semaphore lock or of `pushbuffer->lock`; only the
loop that retires entries holds the pool lock over several steps, because another thread can take
the pushbuffer's lock between its turns. The correspondence:

| Steps | Code |
|---|---|
| `claim`, `claim_again`, `errors` | `uvm_channel_reserve_type`, `channel_reserve_in_pool`, `uvm_channel_reserve`, `try_claim_channel_locked` |
| `value`, `complete` | `uvm_channel_update_progress_with_max` with `update_completed_value_locked` |
| `begin`, `chunk`, `chunk_errors`, `begin_failed`, `info`, `acquire`, `end` | `push_begin_acquire_with_info`, `uvm_channel_begin_push`, `uvm_pushbuffer_begin_push`, `uvm_push_acquire_tracker`, `uvm_channel_end_push` |
| `write` | `write_ctrl_gpfifo` |
| `suspend`, `release` | `channel_suspend_p2p`, `uvm_channel_release` |
| `wait`, `wait_errors`, `wait_last` | `uvm_channel_wait` |
| `drain`, `drain_errors` | `uvm_tracker_wait` |
| `error_found` | `uvm_channel_check_errors`, `uvm_channel_get_fatal_entry`, `uvm_global_set_fatal_error` |

The GPU (`Execute`) takes the entries of a channel in order, waits for the semaphores an entry
acquires and releases the channel's own; `ChannelError` stops a channel. The payload is `released`
modulo `SemMod`; the code sees only the payload, the model remembers the whole value to compare
with. One tracker stands for the trackers of the callers; only one thread uses it at a time, as
the code's callers lock theirs. An operation begins from `Start...`, bounded by `MaxQueued`.

### GpreemptTransport

`StartCall`, `CopyIn`, `LockFails`, `ScanSet`, `ScanQuery`, `CopyOut` are the steps of
`RmGPreemptTransport`; the scan under the API and GPU locks is one step. The resource server and
the processes are external: processes start (with a number that a dead one may have had) and exit,
clients are allocated, freed and may survive their owner, TSG objects are created, duplicated and
freed, channels are added. Each call reads its timeslice from `memory`, which other threads write
at any time. `control` and `holders` are histories that no action reads: the last timeslice given
to a group, and the processes that ever created or duplicated it. Since a control that the GSP
refuses may have had an effect, `control` is set whatever the control returns. `os_memcpy_to_user` may
fail after it has written the first part of the answer: `CopyOut` then leaves any prefix of the channels
in the caller's list, with the status and the handles of a failure.

### StructOps

One module with its struct_ops type, `nvidia-uvm` or `nvidia`, chosen in `Init`. `map[i]` is the
state of the BPF core's map of policy `i`; the core, RCU, procfs and the module loader are modelled
as the code uses them: a map holds the module until it is dropped, it is freed after a grace period
that waits for the readers of that moment (`waiting`), `proc_remove` waits for writers of the file.
A hook is the three steps between `rcu_read_lock` and `rcu_read_unlock`. Initialisation goes through
`UvmSteps` or `SchedSteps`, and each step may fail: `uvm_init` then takes back part of what it did,
`nvidia` goes on without the steps that are left. Files opened while the module is still loading are
left out.

## 3. Runs

Passing runs:

| Run | Question | Bounds |
|---|---|---|
| `pmm_core` | Two blocks that allocate, free, split and evict from each other, under every decision a policy can make and with failing splits, trackers and batched allocations and elevated references: are lists, counters, ownership and reverse map right in every interleaving, is no chunk lost, and does the whole implement `MemoryOwnership`? | 2 root chunks of 2 subchunks, 2 blocks, 2 chunks per block |
| `pmm_callbacks` | Kernel allocations and both eviction callbacks: do PMM and PMA agree, has every eviction one owner, can a kernel allocation pin memory of the range, is what `evict_range` and `pick_root_chunk_to_evict` take evictable although other threads pin and merge it, and is `MemoryOwnership` implemented here too (is the range PMA's when `evict_range` returns, and unused what `evict_pages` hands to RM)? | 2 root chunks, one block, one kernel chunk, a range over all memory, up to two pages |
| `pmm_abort` | An eviction that fails in the VA block: are the chunks it pinned freed and the counters of the subchunks right again, and is what a policy moves confined to the chunk at hand? | 3 root chunks, one block, up to 7 chunks, every policy decision |
| `pmm_liveness` | Does every operation end? | one root chunk of 2 subchunks, 2 blocks, a range that may time out |
| `prefetch` | Any sequence of requests with any action, and native faults: is what is applied contained, unanimous or around the fault, and does prefetching follow the counted faults? | 8 pages in a misaligned block, 5 endpoints, 4 actions, counter of 4 values, minimum of 2 faults |
| `tsg_policy` | One TSG, every failing step, every policy: does the GSP have what the bookkeeping says; does a policy stay in its domain? | 4 timeslices (below the minimum, at it, allowed, above the maximum), 3 levels (one unknown) |
| `tsg_pair` | Two constructors that interleave: is a failed one undone, and does the policy know every TSG though grpIDs come back? | 2 grpIDs, all faults but `early` and `relock` |
| `channel` | Two threads push to two channels that acquire each other, drain a tracker and meet channel errors: are completions never early, are pushes apart in memory, is every entry accounted for? | 2 channels of 3 entries, payload of 3 values, one chunk of 4 units, pushes of 1 that claim 2, 3 pushes per channel |
| `channel_p2p` | P2P pushes, control entries, waits and suspensions: are entries retired after execution, is a suspended channel free of P2P, can the waits form a cycle? | one channel of 4 entries, payload of 4 values, 2 pushes of the maximal size |
| `gpreempt` | Processes with one number, clients that outlive them, handles used again, parameters that change: who sets which timeslice, and what does a query leave? | 2 processes, 2 clients, one object handle each, 2 groups, at most two channels in an answer |
| `struct_ops` | Two policies, hooks, a module that loads with failing steps and unloads: is no freed policy called, is one registered, is nothing left in a module that is gone, and is what is taken away freed? | 2 policies (one without some members), 2 threads, every step failing |

Why the bounds are enough for these questions: two subchunks make a first, a last and a middle
count of allocated children; two root chunks give memory to evict and memory to evict it for;
two blocks are the least that contend, and a third party is added by the kernel and PMA threads.
Three root chunks are the least for which a reorder can be seen to disturb the order of others.
Eight pages and a misalignment of one give trees of several levels with padding on either side.
`MaxU64` is small so that sums of endpoints wrap. `GenSize` is 1 where generations do not matter,
`CounterSize` 4 so that the 16 bit counter wraps. Three GPFIFO entries are the least with which two
pushes can be pending beside the sentinel, three values of the payload the least the code allows
for them, so every third push wraps; a chunk of two maximal pushes, room for twice as many that
turn out short, makes the free space lie before, behind and between pending pushes. `channel_p2p` has four
entries: a control submission reserves two, and with a third one another thread can reserve and submit
the push that releases the value of the control entry. Two processes, two clients and two groups let a number, a handle
and a group be used again while a call is under way; an answer of two channels is the least that a
failing copy can leave in part, and one channel more than the answer holds is the overflow case. `MaxTotal` and the request histories stop counting where the properties stop
distinguishing; the number of binds stops at two. Symmetry is used over blocks, threads or handles,
and only in runs that check safety (the refinement checked in `pmm_core` is safety: MemoryOwnership
states no fairness).

The exclusions are not conveniences. `SuballocCounters` is in `pmm_core` and, with aborted
evictions, in `pmm_abort`, but not in `pmm_callbacks`, because the
interleaving behind `LastChildFreed` (section 4) breaks it there; `pmm_abort` has one block because
with two the race of the finding appears; `pmm_liveness` has neither elevated references nor kernel memory,
because the retry loop of eviction has no bound and need not end with them; `LiveTasksKnown` is checked without `early` and with a
grpID for each TSG; `EvictionOwned` without timeouts, `RollbackComplete` without `relock`, and
`channel_p2p` without channel errors, each for the reason in section 4.

The violation run is `pmm_abort_race` (section 4).

Fairness. `FairSpec` of UvmPmm asks strong fairness of each thread's steps: a step waits for a
mutex or rw_semaphore, which the kernel hands to its waiters, so a thread that can go on again and
again does. Nothing is asked of starting operations or of unpinning. The spin of `evict_range`
may end by its timeout only, which is a step of its own thread. `FairSpec` of UvmChannel asks strong
fairness of each thread's steps, for spin locks and the pushbuffer's semaphore are handed to their
waiters, and weak fairness of the GPU, which executes an entry that has all it waits for.
`OperationsEnd` there is about cycles of waits, not about starvation, and the code promises no more. If
suspensions of P2P never stop, each may take all entries before a push gets one; the property therefore
assumes that they do. And a control submission, which needs two entries at once, may starve while another
thread keeps taking the entries that are released one at a time: the comment in
`uvm_channel_write_ctrl_gpfifo` (`uvm/uvm_channel.c:1750-1764`) says so and accepts it. `MaxQueued` bounds the
pushes of a behaviour, so that load ends in every one of them; what the run shows is that once it has
ended everybody comes to rest. It has one channel: acquires between channels name values that were queued
before, so that they cannot close a cycle by themselves. `FairSpec` of StructOps asks weak fairness of the steps of a hook (it
does not sleep, and the verifier admits only programs that end), of freeing a map whose grace period
is over and of an exit that has begun; nobody has to register, call or unload anything.

Deadlock is checked in all runs.

## 4. Findings

`pmm_abort_race` is a violation run with one property: the error path of an eviction frees every
pinned chunk of the tree ("They should all be pinned", `uvm/uvm_pmm_gpu.c:1572`), also one that
another thread has freed and a third has claimed since `in_eviction` was cleared.

Further disagreements met while modelling. The modules state them as properties, and adding the
property to the configuration named (with the change in brackets) shows the behaviour:

| Property | Configuration | What happens |
|---|---|---|
| `LastChildFreed` | `PmmCore.cfg` (`EvictRanges <- AllMemory`) | `evict_range` starts an eviction while another thread frees the last child; `chunk_free_locked` pins it, and the assertion that the parent has no allocated child fails |
| `PmaOwnedUnlisted` | `PmmCallbacks.cfg` | an evicted root chunk goes back to PMA with `list_state` EVICTION; the assertion of `uvm_pmm_gpu_deinit` (`uvm/uvm_pmm_gpu.c:3850`) expects NONE |
| `EvictionOwned` | `PmmLiveness.cfg` | the spin loop of `evict_range` checks its timeout after the turn that started the eviction and returns; the root chunk stays in eviction although nobody evicts it |
| `OwnershipAdvancesGeneration` | `PmmCore.cfg` (`GenSize = 4`) | `list_generation` is "Advanced on ownership and cross-list transitions" (`uvm/uvm_pmm_gpu.h:327`) but not when a root chunk that is on no list changes its owner |
| `ThresholdTriggers` | `Prefetch.cfg` | the widest range over the threshold may begin in padding leaves; it is then rejected as a whole, and the narrower ranges over the threshold are not prefetched either |
| `MinFaultsEnable` | `Prefetch.cfg` | the 16 bit fault counter wraps, and prefetching is off again for the next faults |
| `LiveTasksKnown` | `TsgPair.cfg` (`Faults <- AllFaults`) | a constructor that fails before it has a grpID announces the destruction of TSG 0, which may be alive |
| `RollbackComplete` | `TsgPolicy.cfg` | if the GPU lock cannot be taken again after a failed reservation, the constructor returns without its rollback |
| `BindOnce` | `TsgPolicy.cfg` | the bind hook, documented as a "ONE-TIME operation", runs for every schedule control, also for those that disable |
| `ReleasesReserved` | `ChannelP2P.cfg` (`Faults = {"rc"}`) | `channel_suspend_p2p` releases its entries also when their reservation failed, and the count of reserved entries falls below zero; `uvm_channel_release` asserts that it does not |
| `FailedLoadUndone` | `StructOps.cfg` | the error path of `uvm_init` does not call `uvm_tools_exit` |

Three remarks that are no findings: the comment at `uvm/uvm_pmm_gpu.c:1716` says that BPF may reorder
the lists in `evict_prepare`, whose hook has no decision context; `GPUBPF-RUNTIME-575.md:7`
counts three members of `nv_gpu_sched_ops`, of which there are four; and the loops that reserve an
entry or claim a pushbuffer chunk test for errors and for success in one expression, so that after a
fatal error an entry or a chunk may stay claimed for nobody (`EntriesAccounted` allows the entry only then
and says nothing of the chunk).

## 5. Proofs

### TsgPolicy_proofs

For any set of handles, any number of grpIDs, any timeslices and levels and any set of failing steps
(with `TsgAssumption`: the minimum timeslice is at most the default, all values are NvU64 values):

* `TypeCorrect`: `Spec => []TypeOK`. `TypeOK` includes the lock discipline: a handle is at a step of
  a locked section if and only if it holds the GPU lock. That makes the locked sections mutually
  exclusive, and most of the later case analysis collapses because of it.
* `PolicyReplayed`: `Spec => []PolicyReachesGsp`. A live TSG with an object on the GSP has the same
  values on both sides.
* `RollbackSound`: `Spec => []RollbackComplete` if `"relock" \notin Faults`, without which the
  property does not hold (section 4).

`PolicyReachesGsp` is not inductive: at the replay steps the two sides differ. `ConsistentInv` adds,
for each TSG, `Synced` (before the replay a value differs from its default only if its `bPolicy...`
flag is set; the remote object has the defaults until its replay step and the values of the
bookkeeping after it) and `Compensated` (once the object is allocated and a policy value applied,
`bPolicyRemoteAllocated` is set until the rollback; where the TSG has ended, the object is gone or
the rollback failed). `ConsistentStep` shows that each action keeps it: an action changes one TSG
(`OneTsg`) and for the other ones nothing moves; for the changed one the lemmas `TsgFields`,
`CallFields` and `SchedulerNative` give the new record. `SchedulerNative` is the fact about the
validator that the argument hinges on: unless a value's result is APPLY, the value returned is the
native one. Before it was proved, `ConsistentInv` was checked by TLC on the instances of
`tsg_policy` and `tsg_pair`.

* `PolicyDecides`: `Spec => []PolicyWithinDomain`. The invariant `DomainInv` follows the request records
  through the callback: each value the policy has asked for is in the ghost set of the call, the
  record is in conflict if the set has two elements, and at the step that applies it a flag is set
  only for a value that was unanimous and legal.
* `TasksKnown`: `Spec => []LiveTasksKnown`, for a finite `Tsg` with at most `MaxGroups` members and no
  `"early"` and `"relock"` fault. All three hypotheses are needed: without the first two a
  constructor fails before it has a grpID and announces the destruction of TSG 0, without the third it
  keeps its grpID. The argument is that grpIDs in use are distinct: a grpID is taken from those no
  TSG has (there is one, because there are at least as many as TSGs), and `task_destroy` reaches the
  policy before the grpID is given back.

### StructOps_proofs

For any policies, any members they implement, any threads and any failing steps
(`StructOpsAssumption`):

* `TypeCorrect`: `Spec => []TypeOK`; a hook that calls a program has a policy.
* `CalledExists`: `Spec => []CalledPolicyExists`. The invariant `PolicyInv` adds `Protected`: if the
  policy a hook runs has been dropped, its grace period still waits for that hook. It needs
  `OneRegistered`, since what a hook loads is the registered policy, and a registered map is not
  freed.
* `Registered`: `Spec => []OneRegistered`, which is inductive together with the types.
* `Gone`: `Spec => []ModuleGone`. `LoadedInv` says who holds the module: a map that is not dropped and
  a hook other than the trigger are found in a live module only; a writer of the trigger needs the
  procfs file or an exit that waits for it; and the trigger is the last step of the initialisation,
  so that a load that fails has none. That `ops` is empty then follows from `Registered`.

### GpreemptTransport_proofs

For any processes and numbers, clients, handles, threads, groups, any set of allowed values and any
failing steps (`TransportAssumption`):

* `HolderSets`: `Spec => []SetByHolder`. `TransportInv` adds `Held` (the object of a group belongs to a
  client that is there, whose owner holds the group) and `Numbered` (a group that was controlled or
  has an object was created), without which a group could be created that somebody controlled
  before.
* `AllowedSet`: `Spec => []OnlyTwoTimeslices`, from `Checked`: a call that has got as far as the scan
  has a timeslice that was checked after it was copied.
* `TransportTypes`: `Spec => []TypeOK`.
* `QueriesWhole`: `Spec => []QueryWhole`: what a query copies out is the only match, with all channels
  of the group at the time of the scan; a query that fails leaves the handles cleared, and if it leaves
  channels, then its copy failed and they are channels of the only match.

The sets a query returns are kept behind names (`Lists`, `Matches`) that the proofs open only where
a query computes them.

### PrefetchRegion_proofs

For any block geometry, any alignment of the tree, any width of the machine integers, any faulted,
resident and thrashing pages and any policy (`GeometryAssumption`,
`InputAssumption`: the faults lie in the block and the block in the tree; `ProcessorAssumption`: "no
processor" is none of the processors):

* `PrefetchContained`: `Spec => []RegionContained`. First the lemmas about the validator: what
  `validate_region` and `translate_region` return is empty or lies within the bounds they were given,
  although the sums are taken modulo 2^64. Then the tree: `TreeOffset` and `TreeFields` say how far
  the leaves are shifted, and that the range of a level, clipped to the block, is within it.
* `RequestUnanimous`: `Spec => []UnanimousRequest`, with `Latched`: the request record is the
  summary of the set of regions that were asked for.
* `PrefetchAroundFault`: `Spec => []RegionAroundFault`. The driver chooses a range by counting leaves
  of the tree and prefetches pages; the theorem needs that the occupied leaves of a range are as many
  as the pages of its region, which is an injection of the leaves into the pages.
* `PrefetchEnabledByFaults`: `Spec => []EnabledByFaults` (`Counting`: the 16 bit counter is the number
  of faults modulo its size).
* `FaultsServiced`: `Spec => FaultServiced`, an action property: every step of the driver lowers a
  measure, unless it is a callback that asks for a region.

The invariant is `PrefetchInv`. `DataLemmas` has what is not in the library: a set of naturals has a
least element, powers of two grow, quotients and remainders are what one expects.

### UvmChannel_proofs

Its first part is about the operators of Pushbuffer, for any number and size of chunks. The
pushes of a chunk lie apart and in cyclic order (`Areas`). That is stated of any three of them rather
than of neighbours, so that it survives the removal of any one when pushes complete out of order. In
a chunk that is available or claimed there is room for the largest push behind the last pending one
(`Fits`). `update_chunk`, `uvm_pushbuffer_end_push` and `uvm_pushbuffer_mark_completed` keep both
(`ChunkInv`).

The rest is about any number of threads, channels, pools and GPFIFO entries, any limit on
the entries one update retires, any payload width that can tell the pending pushes apart, with or
without channel errors (`ChannelAssumption`). All theorems assume `SuspendsSafely`: not both channel
errors and P2P suspension. With both, `channel_suspend_p2p` releases entries it has not reserved
(section 4), and the accounting on which everything rests is lost; that is a fact about the code,
not about the proof.

| Theorem | States |
|---|---|
| `SemaphoreSound` | `Spec => []SemaphoreTracks` |
| `RetiredSound` | `Spec => []RetiredAfterExecution` |
| `PushesSound` | `Spec => []PushesApart` |
| `EntriesSound` | `Spec => []EntriesAccounted` |
| `P2PSound` | `Spec => []P2PQuiesced` |
| `ReleaseSound` | `Spec => []ReleasesReserved` |
| `ChannelTypes` | `Spec => []TypeOK` |

All but the last come from one inductive invariant, `Inv`, with a layer for each idea:

* `Shape`: types, and for each thread what its program counter says about its locals (`Flow`): which
  channel it has reserved, which one it updates, to which step it returns, and that the pool lock is
  held by a thread between the update of the value and the retirement.
* `Account`: the reserved entries of a channel are the sum over the threads of what each holds (one
  while it pushes, all but one while it suspends), counted as the cardinality of a set of tokens; with
  the pending ones they never fill the ring.
* `RingInv`: between `gpu_get` and `cpu_put`, values do not decrease and grow by one after a push; the
  value before `executed` is what the GPU has released; `completed` is at least the value before
  `gpu_get` and at most `released`. As less than a ring of values is outstanding, the payload extended
  to 64 bits is the released value, wrap or no wrap (`SemaphoreSound`), and an entry whose value is
  completed has been executed (`RetiredSound`).
* `Values`: what a thread has read from a semaphore is still completed when it retires entries.
* `Infos`: the free push infos are the rest of those pushes have.
* `Placed`: `ChunksInv` of the first part for the shared pushbuffer; the lists of pending pushes
  name exactly the live entries, and a thread that builds a push owns its chunk.

`P2PSound` is then a step of its own: while a thread is about to set `suspended_p2p` it has reserved all
entries but one, so by `Account` no other thread has reserved any (`SuspenderAlone`) and none is pending.

`ChannelTypes` needs more than `Inv`, because the ranges in `TypeOK` are what keeps the pushbuffer, the rings
and the semaphore within their memory. `Bounds` is inductive on top of `Inv`:

* `Queueing`: the values queued on a channel, and one for each push that has begun and is not yet
  queued, are at most `MaxQueued`. The guard that bounds the instance counts the pushes on their way
  too, otherwise several threads could pass it together.
* `Downed`: `concurrent_pushes_sema` and the threads between its `down` and its `up` make `NumChunks`,
  whatever the errors and the order in which channels and chunks are found. So no path
  ups it twice for a push, or ends a push without upping it, the error paths included.
* `Tracked`, `Acquired`: a tracker entry, and an acquire of a push, names a value that was queued.
* `Bounded`, `InfosLeft`: an entry's value is at most one above the last queued one, its push is no larger
  than the maximum, and push infos are not overdrawn.

The layers and `Bounds` were checked by TLC on the instances of `channel` and `channel_p2p` before they were
proved.

### UvmPmm_proofs

About UvmPmm for any sets of root chunks and VA blocks, any number of subchunks (at least two), any
policy decisions, ranges and bounds and any failing steps (`RootAssumption`, `NSubAssumption`,
`ThreadAssumption`, `BoundAssumption`: the range of an `evict_range` callback is memory that exists).

* `PmmTyped`: `Spec => []TypeInv`, and from it `PmmTypeCorrect`: `Spec => []TypeOK`. A type
  invariant of this module says more than it seems to: a subroutine returns through the local
  `ret`, `th[t].c` and `th[t].r` are used as indices where the code dereferences a pointer, and the two
  eviction lists are sequences from which an element is removed by searching for it. `TypeInv` adds
  that the lists hold no root chunk twice, and for each thread `Flow`: which operation a step belongs
  to and where it may return to (`Course`), and which locals it relies on (`Locals`: a chunk at the
  steps that free or split it, a root chunk at those that evict it or return it to PMA, a batch that
  is not empty, a range that lies in memory, a page count that is not zero).

The proof has two parts. The first is about the operators of PmmChunks, one lemma for each: what
`root_list_update_locked`, `chunk_update_lists_locked`, pin, unpin, free, split, merge, claim, the start and
the end of an eviction do to each field, that they touch one root chunk only (`Frame`), and that they
keep the lists free of repetitions and linked as `list_state` says (`linked`, `Listed`). They say more
than types and are what the safety invariants of PMM rest on. The second is one lemma for each action
(`ClaimStep`, `SplitStep`, ...): the step keeps `TypeInv`, moves one thread, and leaves that thread's
locals as stated.

### PmmSafety_proofs

The safety invariants of UvmPmm, for the same constants as UvmPmm_proofs. All theorems assume
`NoAborts`: `"eviction"` and `"timeout"` are not in `Faults`, so that `uvm_va_block_evict_chunks` succeeds and
`evict_range` does not run out of time. Failed splits, batches and trackers, PMA without pages, the pin
that PMA refuses and pages another driver still references are all there. What an aborted eviction
does (the walk that unpins a half evicted root chunk) stays with the run `pmm_abort`; it is where the code
departs most from the invariant, since root chunks in eviction are then freed chunk by chunk.

| Theorem | States |
|---|---|
| `PmmInvariant` | `Spec => []PmmInv` |
| `ListsRecordMembership` | `Spec => []RootListsConsistent` |
| `ChunksHeldOnce` | `Spec => []ChunksExclusive` |
| `ReverseMapComplete` | `Spec => []ReverseMap` |
| `ChunksNotLeaked` | `Spec => []NoLeaks` |
| `PmaAgrees` | `Spec => []PmaAgreement` |
| `EvictionHasOneOwner` | `Spec => []EvictionOwned` |
| `RangeHasOnlyUserMemory` | `Spec => []RangeOnlyUser` |
| `PickIsSafe` | `Spec => []PickSafe` |
| `CountersAgree` | `Spec => [](th[PThread].pc # "lock_range" => SuballocCounters)` |
| `PolicyIsConfined` | `Spec => []PolicyConfined` |
| `KeepsOwnership` | `Spec => Ownership`: UvmPmm implements MemoryOwnership |
| `PagesUsedOnce` | `Spec => []PagesPrivate`: a page with data is UVM's and has one user |

None of these properties is inductive, and none can be proved without most of the others: who holds
a chunk decides which lists and counters its root chunk has, and the other way round. `PmmInv` is one
invariant for all of them. Its parts:

* `Discipline`: the steps at which a thread holds `pmm->lock` or reads under `pma_lock`, and those at
  which it has a root chunk or a batch.
* `ChunkInv(c)`: a chunk has at most one holder, a client (`Owns`) or a thread at a step that works on it
  (`Works`); what holding says of its state, its reverse mapping and its type; and a chunk that is
  allocated or pinned has a holder, or its root chunk is in eviction.
* `RootInv(r)`: subchunks have states exactly when the root chunk is split (`Tree`); the list a root
  chunk is on follows from its state, unless a thread with `pmm->lock` is merging it (`Listing`); the
  counters are cardinalities (`Counted`); a root chunk in eviction has its evictor, and the evictor's
  step says how far the eviction has got (`Evicting`, `Progress`); PMA has it as PMM does, or a reader
  of `pma_lock` is about to hand it over (`PmaOf`, `Batched`); the page of what PMM has is pinned in PMA if it
  is kernel memory or a thread with `pmm->lock` is between the pin and the change of type (`Pinned`).
* `Marked`: while `evict_range` runs, PMA hands out nothing of the range, nobody's batch has a page of it
  after the first flush, what the callback has passed is back with PMA, and after the second flush it
  is free there.
* `InPlace`: a block that is about to split its root chunk in place holds it unpinned.

`CountersAgree` has its condition because the code needs it. `evict_range` marks a root chunk under
`list_lock` alone and then waits for `pmm->lock`. In between a thread that has `pmm->lock` can merge the
same root chunk; it pins a chunk it meant to free, and `pinned_leaf_chunks` is one too high until the
merge is done. With `EvictRanges` empty the condition always holds, and those are the instances on which
`pmm_core` and `pmm_abort` check `SuballocCounters`.

The proof that a step keeps `PmmInv` has one lemma per action and part: `...Orderly` (`Discipline`),
`...Whole` (all chunks and root chunks) and `...Calm` or `...Marked`. Most actions touch one root chunk, and
the frame lemmas carry the invariant over for the others. An action that changes states goes through the
lemma of its operator in UvmPmm_proofs, and the counters through cardinalities of sets with one element
more or less. TLC checked the parts of `PmmInv` on the instances of `pmm_core` and `pmm_callbacks` before they
were proved.

`PolicyIsConfined` says of each state that a callback, run there, only moves its root chunk on
the two eviction lists. Its lemmas compare the state after the callback with the one the driver makes
without a policy: the record of chunks is the same but for the two lists, and each list without the
root chunk is the same sequence.

`KeepsOwnership` maps `owner` to the state of PMA and `users` to the chunks clients hold, page by page.
The initial states agree, and each action of UvmPmm is one of MemoryOwnership or a stutter:

| MemoryOwnership | UvmPmm |
|---|---|
| `Grow` | PMA hands out a batch of root chunks |
| `Shrink` | a root chunk goes back to PMA, or to RM for `evict_pages` |
| `RmTakes` | `evict_range` returns `NV_OK` and RM has the range |
| `RmReturns` | `evict_pages` fails after some pages; RM frees |
| `Take` | an allocation, of a block or of the kernel, ends |
| `Drop` | a free starts, a block is released, or a chunk of a block is evicted |
| stutter | every other step: splits, merges, populating and splitting in place, pinning in PMA and changing the type, list moves |

Two facts carry the argument, both from `PmmInv`. A page lies in one held chunk only, although a
root chunk and its subchunks overlap, and that chunk has one holder (`OneCover`): the tree of a root chunk
decides which of them have states. And the memory of a held chunk is UVM's (`HeldIsUvm`), so that what
PMM gives away, in steps far from those that freed it, has no user left. `PagesUsedOnce` states what
this comes to without reference to MemoryOwnership.

### Only model-checked

Liveness (`OperationsEnd` of both modules, `TakenAway`): fairness is out of the prover's reach. And PMM
when an eviction is aborted, beyond its types: there the code does not keep `ChunksExclusive` (section 4,
run `pmm_abort_race`), so that `PmmInv` is not an invariant of it and `NoAborts` is a hypothesis the code
makes necessary. `pmm_abort` checks what does hold then.

Proof style: the update of one handle goes through the operator `becomes`, and records are updated
as `[tsg[t] EXCEPT !.f = ...]`, never by a nested `@`, which the prover does not expand reliably.

## 6. Not modelled

* PMM: HMM (device private pages, lazy free), `uvm_pmm_gpu_merge_chunk` (merging in place), error
  injection, `is_zero` and scrubbing, indirect peer mappings: they hang on GPU work or on the
  kernel's struct pages rather than on the chunk state. The partial last root chunk of `evict_pages`;
  the size masks (two sizes stand for them). The claim of a free chunk reaches
  `chunk_update_lists_locked` with a pinned chunk only, so the access hook is not called there and no
  decision is modelled.
* Prefetching: the ATS variant and the HMM bounds of the region.
* TSGs that are duplicated or copy-constructed (in TsgPolicy; GpreemptTransport has them),
  allocations that skip the RPC, vGPU, confidential compute.
* Channels: confidential computing (WLC, LCIC and SEC2 channels, key rotation, the secure parts of
  a push), proxy channels, creation and destruction of channels and pools, trackers that run out of
  memory, semaphore pools, the retry counters of tests.
* The kernel-initiated preemption kfunc: one control call with the handles the program passes; the
  driver keeps no state for it.
* Runlists, graphics contexts and the rest of RM and UVM; `nvidia-modeset`, `nvidia-drm`,
  `nvidia-peermem`; diagnostics, which only report.

Measured in lines, the models cover a small part of `src/`: of its two million lines most are
generated (class tables, firmware images as arrays), hardware definitions and register programming,
which keep no protocol state a model checker could tell anything about, or are unmodified upstream
code beside the extension. The map names the code the extension consists of and the driver logic it
is wired into.

## 7. Plan

Done: the validator, PMM with its abstract specification, prefetching, the TSG life cycle, the
registration of policies, the GPreempt transport, channels, and the proofs of section 5. In order of
importance, what is left:

1. The invariants of PMM for aborted evictions, once the race of section 4 is resolved in the code;
   until then an invariant for that case would have to describe the race.
2. More of the code: duplicated TSGs in TsgPolicy; merging in place; the lazy free list; the partial
   tail of `evict_pages`; the ATS prefetch path; creation and destruction of channels.
