----------------------------- MODULE UvmChannel -----------------------------
(***************************************************************************)
(* The channels of one GPU (uvm_channel.c), without confidential           *)
(* computing: threads reserve GPFIFO entries, build pushes in the          *)
(* pushbuffer and submit them; the GPU executes the entries of each        *)
(* channel in order and releases its tracking semaphore; threads notice    *)
(* the completions and reuse the entries (uvm_gpu_semaphore.c,             *)
(* uvm_tracker.c).  P2P traffic can be suspended.                          *)
(*                                                                         *)
(* A thread moves from one step to the next where the code leaves a        *)
(* section of the pool lock, the semaphore lock or pushbuffer->lock; only  *)
(* the loop that retires entries keeps the pool lock over several steps.   *)
(*                                                                         *)
(* The GPU is external: an entry is executed once the pushes it acquires   *)
(* are done, and any channel may stop with an error (Faults).              *)
(***************************************************************************)
EXTENDS Pushbuffer

CONSTANTS
  Thread, NoThread,
  NumChannels,
  Pool,          \* the channel pools: a partition of Channel
  NumEntries,    \* num_gpfifo_entries of a channel
  MaxToComplete, \* entries one update_progress retires (8 in the code)
  SemMod,        \* values of a semaphore payload (2^32 in the code)
  CountMod,      \* values of current_gpfifo_count (2^32 in the code)
  MaxQueued,     \* bound: pushes of a channel
  PushSizes,     \* sizes of the finished pushes
  Operations,    \* what threads do, \subseteq OpKinds
  Faults         \* \subseteq {"rc"}: channels may stop with an error

OpKinds == {"push", "p2p", "ctrl", "suspend", "wait", "drain"}

Channel == 1 .. NumChannels

ASSUME ChannelAssumption ==
  /\ NumChannels \in Nat \ {0}
  /\ Pool \subseteq SUBSET Channel /\ {} \notin Pool
  /\ \A c \in Channel : \E P \in Pool : c \in P /\ \A Q \in Pool \ {P} : c \notin Q
  /\ NumEntries \in Nat /\ NumEntries > 2
  /\ MaxToComplete \in 1 .. NumEntries
  /\ SemMod \in Nat /\ NumEntries <= SemMod
  /\ CountMod \in Nat /\ 4 * NumEntries <= CountMod
  /\ MaxQueued \in Nat
  /\ PushSizes \subseteq 1 .. MaxPushSize
  /\ Operations \subseteq OpKinds
  /\ Faults \subseteq {"rc"}
  /\ IsFiniteSet(Thread)
  /\ NoThread \notin Thread /\ NoPush \notin Thread

pool_of(c) == CHOOSE P \in Pool : c \in P

VARIABLES
  entries,    \* gpfifo_entries: what the pending entries of a channel hold
  cpu_put, gpu_get,
  count,      \* current_gpfifo_count
  infos,      \* the number of available_push_infos
  queued,     \* tracking_sem.queued_value
  completed,  \* tracking_sem.completed_value
  released,   \* what the GPU released last; the payload is its low bits
  executed,   \* GPU: the index of the entry the channel executes next
  error,      \* the error notifiers
  suspended,  \* suspended_p2p
  lock,       \* the holders of the pool locks
  pb,         \* the pushbuffer
  tracker,    \* a tracker: the value to wait for on each channel, 0 for none
  fatal,      \* g_uvm_global.fatal_error is set
  th          \* where each thread is, and its local variables

ring == <<entries, cpu_put, gpu_get, count, infos>>
sem == <<queued, completed>>
gpu == <<released, executed, error>>
vars == <<ring, sem, gpu, suspended, lock, pb, tracker, fatal, th>>

Index == 0 .. NumEntries - 1

no_entry == [type |-> "none", value |-> 0, offset |-> 0, size |-> 0, acquires |-> {}, p2p |-> FALSE]

Steps == {"idle", "claim", "claim_again", "errors", "error_found", "value", "complete",
          "begin", "chunk", "chunk_errors", "begin_failed", "info", "acquire", "end",
          "write", "suspend", "release", "wait", "wait_errors", "wait_last", "drain", "drain_errors"}

(* ch is the channel of the operation, up the one whose progress or error  *)
(* is looked at, todo the channels still to look at, value and done what   *)
(* update_progress_with_max knows, pending what it returned, ret the step  *)
(* after it, loc the step that looks for errors, ok a status of NV_OK, k   *)
(* the pushbuffer chunk and acquires the semaphores of a push.             *)
idle ==
  [pc |-> "idle", op |-> "push", ch |-> 0, up |-> 0, todo |-> {}, tracked |-> FALSE, ok |-> TRUE,
   first |-> TRUE, value |-> 0, done |-> 0, max |-> 0, pending |-> 0, ret |-> "idle",
   loc |-> "idle", k |-> 0, acquires |-> {}]

TypeOK ==
  /\ entries \in [Channel -> [Index ->
       [type : {"none", "NORMAL", "CONTROL"}, value : 0 .. MaxQueued + 1,
        offset : 0 .. NumChunks * ChunkSize, size : 0 .. MaxPushSize,
        acquires : SUBSET (Channel \X (1 .. MaxQueued)), p2p : BOOLEAN]]]
  /\ cpu_put \in [Channel -> Index] /\ gpu_get \in [Channel -> Index]
  /\ executed \in [Channel -> Index]
  /\ count \in [Channel -> 0 .. CountMod - 1]
  /\ infos \in [Channel -> 0 .. NumEntries]
  /\ queued \in [Channel -> 0 .. MaxQueued]
  /\ completed \in [Channel -> 0 .. MaxQueued]
  /\ released \in [Channel -> 0 .. MaxQueued]
  /\ error \in [Channel -> BOOLEAN] /\ suspended \in [Channel -> BOOLEAN]
  /\ lock \in [Pool -> Thread \cup {NoThread}]
  /\ pb.sema \in 0 .. NumChunks
  /\ tracker \in [Channel -> 0 .. MaxQueued]
  /\ fatal \in BOOLEAN
  /\ th \in [Thread -> [pc : Steps, op : OpKinds, ch : 0 .. NumChannels, up : 0 .. NumChannels,
       todo : SUBSET Channel, tracked : BOOLEAN, ok : BOOLEAN, first : BOOLEAN,
       value : 0 .. MaxQueued, done : 0 .. NumEntries, max : 0 .. NumEntries,
       pending : 0 .. NumEntries, ret : Steps, loc : Steps, k : 0 .. NumChunks - 1,
       acquires : SUBSET (Channel \X (1 .. MaxQueued))]]

Init ==
  /\ entries = [c \in Channel |-> [i \in Index |-> no_entry]]
  /\ cpu_put = [c \in Channel |-> 0] /\ gpu_get = [c \in Channel |-> 0]
  /\ executed = [c \in Channel |-> 0]
  /\ count = [c \in Channel |-> 0]
  /\ infos = [c \in Channel |-> NumEntries]
  /\ queued = [c \in Channel |-> 0] /\ completed = [c \in Channel |-> 0]
  /\ released = [c \in Channel |-> 0]
  /\ error = [c \in Channel |-> FALSE] /\ suspended = [c \in Channel |-> FALSE]
  /\ lock = [P \in Pool |-> NoThread]
  /\ pb = pushbuffer_create
  /\ tracker = [c \in Channel |-> 0]
  /\ fatal = FALSE
  /\ th = [t \in Thread |-> idle]

at(t, pc) == th[t].pc = pc

becomes(t, r) == th' = [th EXCEPT ![t] = r]

goto(t, pc) == becomes(t, [th[t] EXCEPT !.pc = pc])

returns(t) == becomes(t, idle)

unlocked(c) == lock[pool_of(c)] = NoThread

first_channel(P) == CHOOSE c \in P : \A d \in P : c <= d

last_channel(P) == CHOOSE c \in P : \A d \in P : d <= c

(* uvm_for_each_channel_in_pool, in a loop that starts over.               *)
next_channel(c) == IF c = last_channel(pool_of(c)) THEN first_channel(pool_of(c)) ELSE c + 1

-----------------------------------------------------------------------------
(* The tracking semaphore.                                                 *)

(* Mutants: the wrap around is noticed one value late; or not at all.      *)
extend_NoWrap(old, payload) == (old - (old % SemMod)) + payload

extend_LateWrap(old, payload) ==
  (old - (old % SemMod)) + payload + (IF payload <= old % SemMod THEN SemMod ELSE 0)

(* update_completed_value_locked: the payload replaces the low bits, and a *)
(* smaller payload means that they wrapped around once.                    *)
extend(old, payload) ==
  (old - (old % SemMod)) + payload + (IF payload < old % SemMod THEN SemMod ELSE 0)

payload(c) == released[c] % SemMod

update_completed(c) == [completed EXCEPT ![c] = extend(completed[c], payload(c))]

(* uvm_gpu_tracking_semaphore_is_value_completed looks at the payload only *)
(* when the value it knows is too small.                                   *)
is_value_completed(c, v) == completed[c] >= v \/ extend(completed[c], payload(c)) >= v

looked_at(c, v) == IF completed[c] >= v THEN completed ELSE update_completed(c)

-----------------------------------------------------------------------------
(* uvm_channel_update_progress_with_max, of channel th[t].up.              *)

pending(c) == (cpu_put[c] - gpu_get[c]) % NumEntries

(* To update the progress of every channel of s and go on at ret.          *)
update_progress(r, s, max, ret) ==
  LET c == first_channel(s)
  IN  [r EXCEPT !.pc = "value", !.up = c, !.todo = s \ {c}, !.max = max, !.done = 0, !.ret = ret]

UpdateValue(t) ==
  /\ at(t, "value")
  /\ completed' = update_completed(th[t].up)
  /\ becomes(t, [th[t] EXCEPT !.value = completed'[th[t].up], !.pc = "complete"])
  /\ UNCHANGED <<ring, queued, gpu, suspended, lock, pb, tracker, fatal>>

retires(t) ==
  LET c == th[t].up
  IN  /\ gpu_get[c] # cpu_put[c]
      /\ th[t].done < th[t].max
      /\ entries[c][gpu_get[c]].value <= th[t].value

(* One turn of the loop, with the pool lock.                               *)
Complete(t) ==
  LET c == th[t].up
      g == <<c, gpu_get[c]>>
      normal == entries[c][gpu_get[c]].type = "NORMAL"
  IN  /\ at(t, "complete")
      /\ lock[pool_of(c)] \in {t, NoThread}
      /\ retires(t)
      /\ pb' = IF normal THEN pushbuffer_mark_completed(pb, entries, g) ELSE pb
      /\ infos' = IF normal THEN [infos EXCEPT ![c] = @ + 1] ELSE infos
      /\ entries' = [entries EXCEPT ![c][gpu_get[c]] = no_entry]
      /\ gpu_get' = [gpu_get EXCEPT ![c] = (@ + 1) % NumEntries]
      /\ lock' = [lock EXCEPT ![pool_of(c)] = t]
      /\ becomes(t, [th[t] EXCEPT !.done = th[t].done + 1])
      /\ UNCHANGED <<cpu_put, count, sem, gpu, suspended, tracker, fatal>>

(* The caller goes on at r.ret; uvm_channel_wait keeps what is pending.    *)
progress_returns(r, left) ==
  [r EXCEPT !.pc = r.ret, !.pending = IF r.ret = "wait" THEN left ELSE 0,
            !.ret = "idle", !.value = 0, !.done = 0, !.max = 0]

Completed(t) ==
  LET c == th[t].up
  IN  /\ at(t, "complete")
      /\ lock[pool_of(c)] \in {t, NoThread}
      /\ ~retires(t)
      /\ lock' = [lock EXCEPT ![pool_of(c)] = NoThread]
      /\ becomes(t, IF th[t].todo = {} THEN progress_returns(th[t], pending(c))
                    ELSE update_progress([th[t] EXCEPT !.value = 0], th[t].todo, th[t].max, th[t].ret))
      /\ UNCHANGED <<ring, sem, gpu, suspended, pb, tracker, fatal>>

-----------------------------------------------------------------------------
(* uvm_channel_check_errors and its callers.                               *)

(* What a thread does after it looked for errors at r.loc.                 *)
after_errors(r) ==
  CASE r.loc = "errors" /\ r.op \in {"push", "p2p"} ->
         IF ~r.ok \/ (r.op = "p2p" /\ suspended[r.up]) THEN idle
         ELSE update_progress(r, {next_channel(r.up)}, MaxToComplete, "claim_again")
    [] r.loc = "errors" /\ r.op \in {"ctrl", "suspend"} ->
         update_progress(r, {r.up}, MaxToComplete, "claim_again")
    [] r.loc = "chunk_errors" -> update_progress(r, Channel, MaxToComplete, "chunk")
    [] r.loc = "wait_last" -> idle
    [] r.loc = "wait_errors" -> update_progress(r, {r.up}, MaxToComplete, "wait")
    [] r.loc = "drain_errors" ->
         IF ~r.ok THEN idle
         ELSE [r EXCEPT !.pc = "drain", !.todo = {c \in Channel : tracker[c] # 0}]

(* uvm_tracker_wait clears the tracker when it fails.                      *)
clear_tracker(r) ==
  tracker' = IF r.loc = "drain_errors" /\ ~r.ok THEN [c \in Channel |-> 0] ELSE tracker

Errors == {"errors", "chunk_errors", "wait_errors", "wait_last", "drain_errors"}

(* These look at the global status first.                                  *)
GlobalErrors == Errors \ {"errors", "wait_last"}

looks_at(t) ==
  CASE at(t, "chunk_errors") -> Channel
    [] at(t, "drain_errors") -> {c \in Channel : tracker[c] # 0}
    [] OTHER -> {th[t].up}

NoErrors(t) ==
  LET status == th[t].ok /\ ~(fatal /\ th[t].pc \in GlobalErrors)
      r == [th[t] EXCEPT !.loc = th[t].pc, !.ok = status]
  IN  /\ th[t].pc \in Errors
      /\ r.ok => \A c \in looks_at(t) : ~error[c]
      /\ becomes(t, after_errors(r))
      /\ clear_tracker(r)
      /\ UNCHANGED <<ring, sem, gpu, suspended, lock, pb, fatal>>

(* uvm_channel_get_fatal_entry retires what has completed.                 *)
CheckErrors(t) ==
  /\ th[t].pc \in Errors
  /\ ~(fatal /\ th[t].pc \in GlobalErrors)
  /\ \E c \in looks_at(t) :
       /\ error[c] /\ \A d \in looks_at(t) : error[d] => c <= d
       /\ becomes(t, update_progress([th[t] EXCEPT !.loc = th[t].pc], {c}, NumEntries, "error_found"))
  /\ UNCHANGED <<ring, sem, gpu, suspended, lock, pb, tracker, fatal>>

ErrorFound(t) ==
  LET r == [th[t] EXCEPT !.ok = FALSE]
  IN  /\ at(t, "error_found")
      /\ fatal' = TRUE
      /\ becomes(t, after_errors(r))
      /\ clear_tracker(r)
      /\ UNCHANGED <<ring, sem, gpu, suspended, lock, pb>>

-----------------------------------------------------------------------------
(* Reservation of GPFIFO entries.                                          *)

num_entries(t) ==
  CASE th[t].op = "ctrl" -> 2 [] th[t].op = "suspend" -> NumEntries - 1 [] OTHER -> 1

(* Mutant: the sentinel entry is given out.                                *)
available_NoSentinel(c) == (NumEntries - count[c] - pending(c)) % CountMod

(* channel_get_available_gpfifo_entries, in unsigned arithmetic.           *)
available(c) == (NumEntries - 1 - count[c] - pending(c)) % CountMod

(* Mutant: a P2P push is not stopped on a suspended channel.               *)
may_claim_Suspended(t, c) == available(c) >= num_entries(t)

(* try_claim_channel_locked.                                               *)
may_claim(t, c) ==
  /\ th[t].op = "p2p" => ~suspended[c]
  /\ available(c) >= num_entries(t)

(* The step after a reservation.  uvm_channel_reserve may return an error  *)
(* although it claimed the entries.                                        *)
reserved(t) ==
  CASE th[t].op \in {"push", "p2p"} -> "begin"
    [] th[t].op = "ctrl" -> IF th[t].ok THEN "write" ELSE "idle"
    [] th[t].op = "suspend" -> IF th[t].ok THEN "suspend" ELSE "release"

Claim(t) ==
  LET c == th[t].up
  IN  /\ th[t].pc \in {"claim", "claim_again"}
      /\ unlocked(c)
      /\ may_claim(t, c)
      /\ count' = [count EXCEPT ![c] = (@ + num_entries(t)) % CountMod]
      /\ becomes(t, IF reserved(t) = "idle" THEN idle
                    ELSE [idle EXCEPT !.pc = reserved(t), !.op = th[t].op, !.ch = c,
                                      !.tracked = th[t].tracked, !.ok = th[t].ok])
      /\ UNCHANGED <<entries, cpu_put, gpu_get, infos, sem, gpu, suspended, lock, pb, tracker, fatal>>

(* The first pass over the pool, then one channel at a time.               *)
ClaimFails(t) ==
  LET c == th[t].up
      more == th[t].op \in {"push", "p2p"} /\ c # last_channel(pool_of(c))
      first == IF th[t].op \in {"push", "p2p"} THEN first_channel(pool_of(c)) ELSE c
  IN  /\ at(t, "claim")
      /\ unlocked(c)
      /\ ~may_claim(t, c)
      /\ becomes(t, IF more THEN [th[t] EXCEPT !.up = c + 1]
                    ELSE update_progress(th[t], {first}, MaxToComplete, "claim_again"))
      /\ UNCHANGED <<ring, sem, gpu, suspended, lock, pb, tracker, fatal>>

ClaimFailsAgain(t) ==
  LET c == th[t].up
  IN  /\ at(t, "claim_again")
      /\ unlocked(c)
      /\ ~may_claim(t, c)
      /\ becomes(t, IF th[t].ok THEN [th[t] EXCEPT !.pc = "errors"]
                    ELSE IF th[t].op = "suspend" THEN [th[t] EXCEPT !.pc = "release", !.ch = c]
                    ELSE idle)
      /\ UNCHANGED <<ring, sem, gpu, suspended, lock, pb, tracker, fatal>>

-----------------------------------------------------------------------------
(* A push: uvm_channel_begin_push, its methods, uvm_channel_end_push.      *)

Begin(t) ==
  /\ at(t, "begin")
  /\ pb.sema > 0
  /\ pb' = [pb EXCEPT !.sema = @ - 1]
  /\ goto(t, "chunk")
  /\ UNCHANGED <<ring, sem, gpu, suspended, lock, tracker, fatal>>

ClaimChunk(t) ==
  /\ at(t, "chunk")
  /\ \E k \in pick_chunks(pb) :
       /\ pb' = claim_chunk(pb, k, t)
       /\ becomes(t, [th[t] EXCEPT !.k = k, !.pc = IF th[t].ok THEN "info" ELSE "begin_failed"])
  /\ UNCHANGED <<ring, sem, gpu, suspended, lock, tracker, fatal>>

NoChunk(t) ==
  /\ at(t, "chunk")
  /\ pick_chunks(pb) = {}
  /\ becomes(t,
       IF th[t].first
       THEN update_progress([th[t] EXCEPT !.first = FALSE], Channel, MaxToComplete, "chunk")
       ELSE [th[t] EXCEPT !.pc = IF th[t].ok THEN "chunk_errors" ELSE "begin_failed"])
  /\ UNCHANGED <<ring, sem, gpu, suspended, lock, pb, tracker, fatal>>

(* The semaphore is upped and the caller gives the entry back.             *)
BeginFailed(t) ==
  /\ at(t, "begin_failed")
  /\ unlocked(th[t].ch)
  /\ pb' = [pb EXCEPT !.sema = @ + 1]
  /\ count' = [count EXCEPT ![th[t].ch] = (@ - 1) % CountMod]
  /\ returns(t)
  /\ UNCHANGED <<entries, cpu_put, gpu_get, infos, sem, gpu, suspended, lock, tracker, fatal>>

GetPushInfo(t) ==
  /\ at(t, "info")
  /\ unlocked(th[t].ch)
  /\ infos[th[t].ch] > 0
  /\ infos' = [infos EXCEPT ![th[t].ch] = @ - 1]
  /\ becomes(t, [th[t] EXCEPT
       !.pc = IF th[t].tracked THEN "acquire" ELSE "end",
       !.todo = IF th[t].tracked THEN {c \in Channel : tracker[c] # 0} ELSE {}])
  /\ UNCHANGED <<entries, cpu_put, gpu_get, count, sem, gpu, suspended, lock, pb, tracker, fatal>>

(* uvm_push_acquire_tracker: the completed entries are removed, the others *)
(* are acquired unless they are of the same channel.  uvm_tracker_wait     *)
(* removes the completed entries, too.                                     *)
TrackerEntry(t) ==
  /\ th[t].pc \in {"acquire", "drain"}
  /\ th[t].todo # {}
  /\ LET c == first_channel(th[t].todo)
         done == is_value_completed(c, tracker[c])
     IN  /\ completed' = looked_at(c, tracker[c])
         /\ tracker' = IF done THEN [tracker EXCEPT ![c] = 0] ELSE tracker
         /\ becomes(t, [th[t] EXCEPT
              !.todo = th[t].todo \ {c},
              !.acquires = IF at(t, "acquire") /\ ~done /\ c # th[t].ch
                           THEN th[t].acquires \cup {<<c, tracker[c]>>} ELSE th[t].acquires])
  /\ UNCHANGED <<ring, queued, gpu, suspended, lock, pb, fatal>>

TrackerDone(t) ==
  /\ th[t].pc \in {"acquire", "drain"}
  /\ th[t].todo = {}
  /\ becomes(t, IF at(t, "acquire") THEN [th[t] EXCEPT !.pc = "end"]
                ELSE IF \A c \in Channel : tracker[c] = 0 THEN idle
                ELSE [th[t] EXCEPT !.pc = "drain_errors"])
  /\ UNCHANGED <<ring, sem, gpu, suspended, lock, pb, tracker, fatal>>

EndPush(t) ==
  /\ at(t, "end")
  /\ unlocked(th[t].ch)
  /\ \E size \in PushSizes :
       LET c == th[t].ch
           i == cpu_put[c]
           entry == [type |-> "NORMAL", value |-> queued[c] + 1, offset |-> push_offset(pb, th[t].k),
                     size |-> size, acquires |-> th[t].acquires, p2p |-> th[t].op = "p2p"]
           es == [entries EXCEPT ![c][i] = entry]
       IN  /\ queued' = [queued EXCEPT ![c] = @ + 1]
           /\ entries' = es
           /\ count' = [count EXCEPT ![c] = (@ - 1) % CountMod]
           /\ cpu_put' = [cpu_put EXCEPT ![c] = (@ + 1) % NumEntries]
           /\ pb' = pushbuffer_end_push(pb, es, <<c, i>>)
           /\ tracker' = IF th[t].tracked /\ tracker[c] < queued'[c]
                         THEN [tracker EXCEPT ![c] = queued'[c]] ELSE tracker
  /\ returns(t)
  /\ UNCHANGED <<gpu_get, infos, completed, gpu, suspended, lock, fatal>>

-----------------------------------------------------------------------------
(* Mutants: the control entry has the value of the push before it; it has  *)
(* a value of its own.                                                     *)
control_value_Last(c) == queued[c]

control_value_TwoAhead(c) == queued[c] + 2

(* A control entry has the value of the push that follows it.              *)
control_value(c) == queued[c] + 1

(* write_ctrl_gpfifo.  The thread has a second entry for the push.         *)
WriteCtrl(t) ==
  /\ at(t, "write")
  /\ unlocked(th[t].ch)
  /\ LET c == th[t].ch
     IN  /\ entries' = [entries EXCEPT ![c][cpu_put[c]] =
                          [no_entry EXCEPT !.type = "CONTROL", !.value = control_value(c)]]
         /\ count' = [count EXCEPT ![c] = (@ - 1) % CountMod]
         /\ cpu_put' = [cpu_put EXCEPT ![c] = (@ + 1) % NumEntries]
  /\ goto(t, "begin")
  /\ UNCHANGED <<gpu_get, infos, sem, gpu, suspended, lock, pb, tracker, fatal>>

(* channel_suspend_p2p: with every entry reserved the flag is set.         *)
Suspend(t) ==
  /\ at(t, "suspend")
  /\ suspended' = [suspended EXCEPT ![th[t].ch] = TRUE]
  /\ goto(t, "release")
  /\ UNCHANGED <<ring, sem, gpu, lock, pb, tracker, fatal>>

(* The entries are released, also when none was reserved.  The next        *)
(* channel of the pool, or the channels before it are resumed.             *)
SuspendRelease(t) ==
  LET c == th[t].ch
      P == pool_of(c)
  IN  /\ at(t, "release")
      /\ unlocked(c)
      /\ count' = [count EXCEPT ![c] = (@ - (NumEntries - 1)) % CountMod]
      /\ suspended' = IF th[t].ok THEN suspended
                      ELSE [d \in Channel |-> suspended[d] /\ ~(d \in P /\ d < c)]
      /\ becomes(t, IF th[t].ok /\ c # last_channel(P)
                    THEN [idle EXCEPT !.pc = "claim", !.op = "suspend", !.up = c + 1] ELSE idle)
      /\ UNCHANGED <<entries, cpu_put, gpu_get, infos, sem, gpu, lock, pb, tracker, fatal>>

(* uvm_channel_wait: the first look, then the loop.                        *)
Wait(t) ==
  /\ at(t, "wait")
  /\ LET r == th[t]
     IN  becomes(t,
           IF r.first
           THEN IF r.pending = 0 /\ r.ok THEN [r EXCEPT !.pc = "wait_last"]
                ELSE update_progress([r EXCEPT !.first = FALSE], {r.up}, MaxToComplete, "wait")
           ELSE IF r.pending = 0 \/ ~r.ok THEN idle
           ELSE [r EXCEPT !.pc = "wait_errors"])
  /\ UNCHANGED <<ring, sem, gpu, suspended, lock, pb, tracker, fatal>>

-----------------------------------------------------------------------------
(* The operations threads start.                                           *)

tracker_locked == \E t \in Thread : th[t].tracked

may_push == \A c \in Channel : queued[c] + Cardinality({t \in Thread : th[t].pc # "idle"}) < MaxQueued

start(t, r) == at(t, "idle") /\ becomes(t, r)

unchanged == UNCHANGED <<ring, sem, gpu, suspended, lock, pb, tracker, fatal>>

StartPush(t) ==
  /\ may_push
  /\ \E op \in Operations \cap {"push", "p2p"}, P \in Pool, tracked \in BOOLEAN :
       /\ tracked => ~tracker_locked
       /\ start(t, [idle EXCEPT !.pc = "claim", !.op = op, !.up = first_channel(P), !.tracked = tracked])
  /\ unchanged

StartCtrl(t) ==
  /\ may_push
  /\ "ctrl" \in Operations
  /\ \E c \in Channel : start(t, [idle EXCEPT !.pc = "claim", !.op = "ctrl", !.up = c])
  /\ unchanged

(* Suspending and resuming are serialised by the global lock.              *)
StartSuspend(t) ==
  /\ "suspend" \in Operations
  /\ \A u \in Thread : th[u].op # "suspend"
  /\ \E P \in Pool :
       /\ \A c \in P : ~suspended[c]
       /\ start(t, [idle EXCEPT !.pc = "claim", !.op = "suspend", !.up = first_channel(P)])
  /\ unchanged

ResumeP2P ==
  /\ \A u \in Thread : th[u].op # "suspend"
  /\ \E P \in Pool :
       /\ \A c \in P : suspended[c]
       /\ suspended' = [c \in Channel |-> suspended[c] /\ c \notin P]
  /\ UNCHANGED <<ring, sem, gpu, lock, pb, tracker, fatal, th>>

StartWait(t) ==
  /\ "wait" \in Operations
  /\ \E c \in Channel :
       start(t, update_progress([idle EXCEPT !.op = "wait", !.ok = ~fatal], {c}, MaxToComplete, "wait"))
  /\ unchanged

StartDrain(t) ==
  /\ "drain" \in Operations
  /\ ~tracker_locked
  /\ start(t, [idle EXCEPT !.pc = "drain", !.op = "drain", !.tracked = TRUE,
                           !.todo = {c \in Channel : tracker[c] # 0}])
  /\ unchanged

-----------------------------------------------------------------------------
(* The GPU.                                                                *)

Execute(c) ==
  LET e == entries[c][executed[c]]
  IN  /\ ~error[c]
      /\ executed[c] # cpu_put[c]
      /\ \A a \in e.acquires : released[a[1]] >= a[2]
      /\ released' = IF e.type = "NORMAL" THEN [released EXCEPT ![c] = e.value] ELSE released
      /\ executed' = [executed EXCEPT ![c] = (@ + 1) % NumEntries]
      /\ UNCHANGED <<ring, sem, error, suspended, lock, pb, tracker, fatal, th>>

ChannelError(c) ==
  /\ "rc" \in Faults
  /\ ~error[c]
  /\ error' = [error EXCEPT ![c] = TRUE]
  /\ UNCHANGED <<ring, sem, released, executed, suspended, lock, pb, tracker, fatal, th>>

-----------------------------------------------------------------------------
Run(t) ==
  \/ UpdateValue(t) \/ Complete(t) \/ Completed(t) \/ NoErrors(t) \/ CheckErrors(t) \/ ErrorFound(t)
  \/ Claim(t) \/ ClaimFails(t) \/ ClaimFailsAgain(t)
  \/ Begin(t) \/ ClaimChunk(t) \/ NoChunk(t) \/ BeginFailed(t) \/ GetPushInfo(t)
  \/ TrackerEntry(t) \/ TrackerDone(t) \/ EndPush(t)
  \/ WriteCtrl(t) \/ Suspend(t) \/ SuspendRelease(t) \/ Wait(t)

Start(t) == StartPush(t) \/ StartCtrl(t) \/ StartSuspend(t) \/ StartWait(t) \/ StartDrain(t)

Next ==
  \/ \E t \in Thread : Run(t) \/ Start(t)
  \/ \E c \in Channel : Execute(c) \/ ChannelError(c)
  \/ ResumeP2P

Spec == Init /\ [][Next]_vars

(* Threads are scheduled and locks are handed to their waiters; the GPU    *)
(* executes what it can.  No operation has to be started.                  *)
Fairness ==
  /\ \A t \in Thread : SF_vars(Run(t))
  /\ \A c \in Channel : WF_vars(Execute(c))

FairSpec == Spec /\ Fairness

-----------------------------------------------------------------------------
(* Properties.                                                             *)

(* The completed value that is kept in 64 bits and extended from a payload *)
(* of 32 never runs ahead of what the GPU released, however the reads of   *)
(* several threads interleave with the GPU and with a wrap around of the   *)
(* payload, and it is never so far behind that a wrap around could go      *)
(* unnoticed ("there could be at most as many pending pushes as GPFIFO     *)
(* entries").                                                              *)
SemaphoreTracks ==
  /\ \A c \in Channel :
       completed[c] <= released[c] /\ released[c] <= queued[c] /\ queued[c] - completed[c] < NumEntries
  /\ \A t \in Thread : at(t, "complete") => th[t].value <= completed[th[t].up]

(* An entry is retired, and its push info and memory reused, only after    *)
(* the GPU executed it: also a control entry, which releases no semaphore  *)
(* of its own and waits for the push behind it, whoever submits that.      *)
RetiredAfterExecution ==
  \A c \in Channel : (executed[c] - gpu_get[c]) % NumEntries <= pending(c)

live == {g \in Channel \X Index : entry_of(entries, g).type = "NORMAL"}

area(g) == entry_of(entries, g).offset .. entry_of(entries, g).offset + entry_of(entries, g).size - 1

building == {t \in Thread : th[t].pc \in {"info", "acquire", "end"}}

space(t) == push_offset(pb, th[t].k) .. push_offset(pb, th[t].k) + MaxPushSize - 1

(* The methods of a push that the GPU has not finished are not written     *)
(* over: pending pushes lie apart, the space of a push that is being built *)
(* is its own and inside one chunk, although the pushes of a chunk belong  *)
(* to several channels and complete in any order.                          *)
PushesApart ==
  /\ \A g, h \in live : g # h => area(g) \cap area(h) = {}
  /\ \A t \in building :
       /\ \A g \in live : space(t) \cap area(g) = {}
       /\ \A u \in building \ {t} : space(t) \cap space(u) = {}
       /\ pb.next_push_start[th[t].k] + MaxPushSize <= ChunkSize

holds(t, c) ==
  IF th[t].ch # c THEN 0
  ELSE CASE at(t, "write") -> 2
         [] th[t].pc \in {"suspend", "release"} -> NumEntries - 1
         [] OTHER -> 1

(* One element for each entry a thread holds of channel c.                 *)
held(c) == {x \in Thread \X (1 .. NumEntries) : x[2] <= holds(x[1], c)}

(* Every entry is accounted for: the entries threads have reserved and     *)
(* those that are pending leave the sentinel free, and there is a push     *)
(* info for every push that is begun.  Only a fatal error may leave        *)
(* entries reserved for nobody.                                            *)
EntriesAccounted ==
  \A c \in Channel :
    /\ count[c] = Cardinality(held(c)) \/ (fatal /\ count[c] > Cardinality(held(c)))
    /\ count[c] + pending(c) < NumEntries
    /\ infos[c] = NumEntries - Cardinality({g \in live : g[1] = c})
                  - Cardinality({t \in building : th[t].ch = c /\ ~at(t, "info")})

(* While P2P is suspended on a channel, no P2P push is queued on it or     *)
(* being built for it: suspend waits for those that were on their way and  *)
(* no later one gets in, although the flag is written without the lock.    *)
P2PQuiesced ==
  \A c \in Channel : suspended[c] =>
    /\ \A i \in Index : ~entries[c][i].p2p
    /\ \A t \in Thread : ~(th[t].ch = c /\ th[t].op = "p2p")

(* No cycle of waits: once nobody suspends P2P any more and the pushes     *)
(* stop coming (MaxQueued bounds them), every thread comes to rest and the *)
(* GPU gets through everything it was given.  GPFIFO entries, pushbuffer   *)
(* chunks, semaphores and locks never make everyone wait for everyone.     *)
(* It is not about starvation: uvm_channel_write_ctrl_gpfifo says that a   *)
(* thread in need of two entries may never get them while others keep      *)
(* taking the ones that are released, and suspensions, which take them     *)
(* all, can do the same to every push.                                     *)
OperationsEnd ==
  <>[](\A t \in Thread : th[t].op # "suspend") =>
    /\ \A t \in Thread : []<>(th[t].pc = "idle")
    /\ \A c \in Channel : []<>(executed[c] = cpu_put[c])

-----------------------------------------------------------------------------
(* The assertion of uvm_channel_release: at least as many entries are      *)
(* reserved as are released.  channel_suspend_p2p releases the entries of  *)
(* a reservation that failed.                                              *)
ReleasesReserved ==
  \A t \in Thread :
    /\ at(t, "release") => count[th[t].ch] >= NumEntries - 1
    /\ at(t, "begin_failed") => count[th[t].ch] >= 1
=============================================================================
