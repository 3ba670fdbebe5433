----------------------------- MODULE Pushbuffer -----------------------------
(***************************************************************************)
(* The pushbuffer of a GPU (uvm_pushbuffer.c): the memory of the pushes,   *)
(* divided into chunks, each roughly a ring of pending pushes that may     *)
(* complete out of order.  The state is the record q of one variable of    *)
(* the module that uses this one; every operator is one section of         *)
(* pushbuffer->lock.  es[ch][i] are the software GPFIFO entries of the     *)
(* channels, with the offset and the size of their pushes.                 *)
(***************************************************************************)
EXTENDS Integers, Sequences, FiniteSets, SequencesExt

CONSTANTS
  NumChunks,   \* UVM_PUSHBUFFER_CHUNKS
  ChunkSize,   \* UVM_PUSHBUFFER_CHUNK_SIZE
  MaxPushSize, \* UVM_MAX_PUSH_SIZE
  NoPush

ASSUME PushbufferAssumption ==
  /\ NumChunks \in Nat \ {0}
  /\ MaxPushSize \in Nat \ {0}
  /\ ChunkSize \in Nat
  /\ ChunkSize >= MaxPushSize

PbChunk == 0 .. NumChunks - 1

(* idle and available are the two bitmaps, pending the lists of GPFIFO     *)
(* entries <<channel, index>>, sema the concurrent_pushes_sema.            *)
pushbuffer_create ==
  [idle |-> PbChunk, available |-> PbChunk,
   pending |-> [k \in PbChunk |-> <<>>],
   current_push |-> [k \in PbChunk |-> NoPush],
   next_push_start |-> [k \in PbChunk |-> 0],
   sema |-> NumChunks]

chunk_get_offset(k) == k * ChunkSize

offset_to_chunk(offset) == offset \div ChunkSize

entry_of(es, g) == es[g[1]][g[2]]

(* find_first_bit of the idle chunks, then of the available ones.          *)
pick_chunks(q) ==
  LET first(mask) == {k \in mask : \A j \in mask : k <= j}
  IN  IF q.idle # {} THEN first(q.idle) ELSE first(q.available)

(* try_claim_chunk: chunk k is where the push is built.                    *)
claim_chunk(q, k, push) ==
  [q EXCEPT !.current_push[k] = push, !.idle = @ \ {k}, !.available = @ \ {k}]

(* The place of the push: uvm_pushbuffer_get_offset_for_push.              *)
push_offset(q, k) == chunk_get_offset(k) + q.next_push_start[k]

chunk_get_cpu_put(q, es, k) ==
  IF q.pending[k] = <<>> THEN 0
  ELSE LET e == entry_of(es, Last(q.pending[k])) IN e.offset + e.size - chunk_get_offset(k)

chunk_get_gpu_get(q, es, k) ==
  IF q.pending[k] = <<>> THEN 0
  ELSE entry_of(es, Head(q.pending[k])).offset - chunk_get_offset(k)

set_available(q, k, start) ==
  [q EXCEPT !.available = @ \cup {k}, !.next_push_start[k] = start]

(* update_chunk: where the next push of the chunk may start, if anywhere.  *)
update_chunk(q, es, k) ==
  LET gpu_get == chunk_get_gpu_get(q, es, k)
      cpu_put == chunk_get_cpu_put(q, es, k)
  IN  IF gpu_get = cpu_put
        THEN IF q.pending[k] # <<>> THEN q
             ELSE [set_available(q, k, 0) EXCEPT !.idle = @ \cup {k}]
      ELSE IF gpu_get > cpu_put
        THEN IF gpu_get - cpu_put >= MaxPushSize THEN set_available(q, k, cpu_put) ELSE q
      ELSE IF ChunkSize >= cpu_put + MaxPushSize
        THEN set_available(q, k, cpu_put)
      ELSE IF gpu_get >= MaxPushSize
        THEN set_available(q, k, 0)
      ELSE q

(* uvm_pushbuffer_end_push of entry g.                                     *)
pushbuffer_end_push(q, es, g) ==
  LET k == offset_to_chunk(entry_of(es, g).offset)
      queued == [q EXCEPT !.pending[k] = Append(@, g)]
  IN  [update_chunk(queued, es, k) EXCEPT !.current_push[k] = NoPush, !.sema = @ + 1]

(* Mutant: the chunk is updated under a push that is being built in it.    *)
pushbuffer_mark_completed_Now(q, es, g) ==
  LET k == offset_to_chunk(entry_of(es, g).offset)
      removed == [q EXCEPT !.pending[k] = RemoveFirst(@, g)]
  IN  IF g \in {Head(q.pending[k]), Last(q.pending[k])}
      THEN update_chunk(removed, es, k) ELSE removed

(* uvm_pushbuffer_mark_completed: the chunk is updated when its first or   *)
(* its last push goes, but not under a push that is being built in it.     *)
pushbuffer_mark_completed(q, es, g) ==
  LET k == offset_to_chunk(entry_of(es, g).offset)
      removed == [q EXCEPT !.pending[k] = RemoveFirst(@, g)]
  IN  IF g \in {Head(q.pending[k]), Last(q.pending[k])} /\ q.current_push[k] = NoPush
      THEN update_chunk(removed, es, k) ELSE removed
=============================================================================
