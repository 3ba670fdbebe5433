---------------------------- MODULE UvmPmm_proofs ----------------------------
(***************************************************************************)
(* Proofs about UvmPmm, for any number of root chunks, subchunks, VA       *)
(* blocks and decisions of a policy.                                       *)
(***************************************************************************)
EXTENDS UvmPmm, DataLemmas, TLAPS

-----------------------------------------------------------------------------
(* Chunks.                                                                 *)

LEMMA ChunkFacts ==
  /\ \A r \in Root : /\ root_chunk(r) \in Chunk /\ root_chunk(r)[1] = r /\ root_chunk(r)[2] = 0
                     /\ root_chunk(r) \notin subchunks(r) /\ subchunks(r) \subseteq Chunk
                     /\ <<r, 1>> \in subchunks(r)
                     /\ root_chunk(r) = <<r, 0>>
  /\ \A r \in Root, i \in 0 .. NSub : <<r, i>> \in Chunk
  /\ \A c \in Chunk : /\ c[1] \in Root /\ c[2] \in 0 .. NSub /\ c = <<c[1], c[2]>>
                      /\ c[2] = 0 <=> c = root_chunk(c[1])
  /\ \A c \in Chunk, r \in Root : c \in subchunks(r) <=> c[1] = r /\ c[2] # 0
<1>1. NSub \in Nat /\ NSub >= 2
  BY NSubAssumption
<1> QED BY <1>1 DEF Chunk, root_chunk, subchunks

LEMMA RootTest ==
  ASSUME NEW c \in Chunk
  PROVE  chunk_is_root_chunk(c) <=> c = root_chunk(c[1])
BY ChunkFacts DEF chunk_is_root_chunk

-----------------------------------------------------------------------------
(* The lists of root chunks.                                               *)

ListsInjective(q) == IsInjective(q.used) /\ IsInjective(q.unused)

SameChunks(q, u) ==
  /\ u.state = q.state /\ u.va_block = q.va_block /\ u.type = q.type
  /\ u.allocated = q.allocated /\ u.pinned_leaf_chunks = q.pinned_leaf_chunks
  /\ u.in_eviction = q.in_eviction

(* list_state names the list that root chunk r is on.                      *)
linked(q, r) ==
  /\ r \in ToSet(q.used) <=> q.list_state[r] = "VA_BLOCK_USED"
  /\ r \in ToSet(q.unused) <=> q.list_state[r] = "VA_BLOCK_UNUSED"
  /\ root_chunk(r) \in q.free <=> q.list_state[r] = "FREE"

(* Between q and u only root chunk r has moved on the lists.               *)
Relisted(q, u, r) ==
  /\ u \in PmmType /\ ListsInjective(u) /\ SameChunks(q, u)
  /\ \A s \in Root \ {r} : /\ u.list_state[s] = q.list_state[s]
                           /\ u.list_generation[s] = q.list_generation[s]
                           /\ s \in ToSet(u.used) <=> s \in ToSet(q.used)
                           /\ s \in ToSet(u.unused) <=> s \in ToSet(q.unused)
  /\ \A c \in Chunk : c # root_chunk(r) => (c \in u.free <=> c \in q.free)
  /\ RemoveFirst(u.used, r) = RemoveFirst(q.used, r)
  /\ RemoveFirst(u.unused, r) = RemoveFirst(q.unused, r)

LEMMA RelistedTwice ==
  ASSUME NEW q, NEW u, NEW v, NEW r, Relisted(q, u, r), Relisted(u, v, r)
  PROVE  Relisted(q, v, r)
BY DEF Relisted, SameChunks

(* A root chunk that is taken off every list.                              *)
LEMMA Unlinked ==
  ASSUME NEW q \in PmmType, ListsInjective(q), NEW r \in Root
  PROVE  LET u == unlink(q, root_chunk(r))
         IN  /\ Relisted(q, u, r) /\ u.list_state = q.list_state
             /\ u.list_generation = q.list_generation
             /\ r \notin ToSet(u.used) /\ r \notin ToSet(u.unused) /\ root_chunk(r) \notin u.free
             /\ u.used = RemoveFirst(q.used, r) /\ u.unused = RemoveFirst(q.unused, r)
<1> DEFINE u == unlink(q, root_chunk(r))
           a == RemoveFirst(q.used, r)
           b == RemoveFirst(q.unused, r)
           f == q.free \ {root_chunk(r)}
<1>1. root_chunk(r) \in Chunk /\ root_chunk(r)[1] = r /\ chunk_is_root_chunk(root_chunk(r))
  BY ChunkFacts, RootTest
<1>2. u = [q EXCEPT !.free = f, !.used = a, !.unused = b]
  BY <1>1 DEF unlink
<1>3. q.used \in Seq(Root) /\ q.unused \in Seq(Root)
  BY DEF PmmType
<1>4. a \in Seq(Root) /\ IsInjective(a) /\ ToSet(a) = ToSet(q.used) \ {r}
  BY <1>3, RemoveElement DEF ListsInjective
<1>5. b \in Seq(Root) /\ IsInjective(b) /\ ToSet(b) = ToSet(q.unused) \ {r}
  BY <1>3, RemoveElement DEF ListsInjective
<1>6. RemoveFirst(a, r) = a /\ RemoveFirst(b, r) = b
  <2>1. r \notin ToSet(a) /\ r \notin ToSet(b)
    BY <1>4, <1>5
  <2> QED BY <1>4, <1>5, <2>1, RemovedNone
<1>7. f \in SUBSET Chunk
  BY DEF PmmType
<1> HIDE DEF u, a, b, f
<1>8. u.free = f /\ u.used = a /\ u.unused = b /\ SameChunks(q, u)
      /\ u.list_state = q.list_state /\ u.list_generation = q.list_generation
  BY <1>2 DEF PmmType, SameChunks
<1>9. u \in PmmType
  BY <1>2, <1>4, <1>5, <1>7 DEF PmmType
<1>10. Relisted(q, u, r)
  BY <1>4, <1>5, <1>6, <1>8, <1>9 DEF Relisted, ListsInjective, f, a, b
<1> QED BY <1>4, <1>5, <1>8, <1>10 DEF u, f, a, b

(* The generation of a list position is a natural number.                  *)
LEMMA NextGeneration ==
  ASSUME NEW n \in Nat
  PROVE  (n + 1) % GenSize \in Nat
<1>1. GenSize \in Nat \ {0}
  BY GenSizeAssumption
<1>2. n + 1 \in Nat
  OBVIOUS
<1> QED BY <1>1, <1>2, RemainderBelow

(* A root chunk that is put on one of the lists, or taken off all, and     *)
(* marked accordingly.                                                     *)
LEMMA SetListState ==
  ASSUME NEW q \in PmmType, ListsInjective(q), NEW r \in Root, NEW w \in ListStates
  PROVE  LET u == set_list_state(q, root_chunk(r), w)
         IN  /\ Relisted(q, u, r) /\ u.list_state[r] = w
             /\ u.used = q.used /\ u.unused = q.unused /\ u.free = q.free
<1> DEFINE u == set_list_state(q, root_chunk(r), w)
           g == IF q.list_state[r] # w THEN (q.list_generation[r] + 1) % GenSize
                ELSE q.list_generation[r]
           lg == [q.list_generation EXCEPT ![r] = g]
           ls == [q.list_state EXCEPT ![r] = w]
<1>1. root_chunk(r) \in Chunk /\ root_chunk(r)[1] = r /\ chunk_is_root_chunk(root_chunk(r))
  BY ChunkFacts, RootTest
<1>2. u = [q EXCEPT !.list_generation = lg, !.list_state = ls]
  <2>1. u = [q EXCEPT !.list_generation[r] =
                         IF q.list_state[r] # w THEN (q.list_generation[r] + 1) % GenSize
                         ELSE q.list_generation[r],
                      !.list_state[r] = w]
    BY <1>1 DEF set_list_state
  <2> QED BY <2>1
<1>3. q.list_generation \in [Root -> Nat] /\ q.list_state \in [Root -> ListStates]
  BY DEF PmmType
<1>4. g \in Nat
  BY <1>3, NextGeneration
<1> HIDE DEF g
<1>5. lg \in [Root -> Nat] /\ ls \in [Root -> ListStates] /\ ls[r] = w
      /\ \A s \in Root \ {r} : lg[s] = q.list_generation[s] /\ ls[s] = q.list_state[s]
  BY <1>3, <1>4
<1> HIDE DEF u, lg, ls
<1>6. /\ u.used = q.used /\ u.unused = q.unused /\ u.free = q.free /\ SameChunks(q, u)
      /\ u.list_state = ls /\ u.list_generation = lg
  BY <1>2 DEF PmmType, SameChunks
<1>7. u \in PmmType
  BY <1>2, <1>5 DEF PmmType
<1> QED BY <1>5, <1>6, <1>7 DEF Relisted, ListsInjective, u

(* list_del_init.                                                          *)
LEMMA RootDeleted ==
  ASSUME NEW q \in PmmType, ListsInjective(q), NEW r \in Root, NEW w \in {"NONE", "EVICTION"}
  PROVE  LET u == root_list_update_locked(q, root_chunk(r), "none", w, "DEL_INIT")
         IN  Relisted(q, u, r) /\ linked(u, r) /\ u.list_state[r] = w
<1> DEFINE v == unlink(q, root_chunk(r))
           u == set_list_state(v, root_chunk(r), w)
<1>1. /\ Relisted(q, v, r) /\ r \notin ToSet(v.used) /\ r \notin ToSet(v.unused)
      /\ root_chunk(r) \notin v.free
  BY Unlinked
<1> HIDE DEF v
<1>2. v \in PmmType /\ ListsInjective(v) /\ w \in ListStates
  BY <1>1 DEF Relisted, ListStates
<1>3. /\ Relisted(v, u, r) /\ u.list_state[r] = w
      /\ u.used = v.used /\ u.unused = v.unused /\ u.free = v.free
  BY <1>2, SetListState
<1> HIDE DEF u
<1>4. Relisted(q, u, r)
  BY <1>1, <1>3, RelistedTwice
<1>5. linked(u, r)
  BY <1>1, <1>3 DEF linked
<1>6. root_list_update_locked(q, root_chunk(r), "none", w, "DEL_INIT") = u
  BY DEF root_list_update_locked, u, v
<1> QED BY <1>3, <1>4, <1>5, <1>6

(* list_move and list_move_tail.                                           *)
LEMMA RootAdded ==
  ASSUME NEW v \in PmmType, ListsInjective(v), NEW r \in Root, NEW list \in {"used", "unused", "free"},
         NEW head \in BOOLEAN,
         r \notin ToSet(v.used), r \notin ToSet(v.unused), root_chunk(r) \notin v.free
  PROVE  LET u == link(v, root_chunk(r), list, head)
         IN  /\ Relisted(v, u, r) /\ u.list_state = v.list_state
             /\ r \in ToSet(u.used) <=> list = "used"
             /\ r \in ToSet(u.unused) <=> list = "unused"
             /\ root_chunk(r) \in u.free <=> list = "free"
<1> DEFINE u == link(v, root_chunk(r), list, head)
           added(s) == IF head THEN Cons(r, s) ELSE Append(s, r)
           a == added(v.used)
           b == added(v.unused)
           f == v.free \cup {root_chunk(r)}
<1>1. root_chunk(r) \in Chunk /\ root_chunk(r)[1] = r
  BY ChunkFacts
<1>2. v.used \in Seq(Root) /\ v.unused \in Seq(Root) /\ v.free \in SUBSET Chunk
  BY DEF PmmType
<1>3. RemoveFirst(v.used, r) = v.used /\ RemoveFirst(v.unused, r) = v.unused
  BY <1>2, RemovedNone
<1>4. /\ a \in Seq(Root) /\ IsInjective(a) /\ ToSet(a) = ToSet(v.used) \cup {r}
      /\ RemoveFirst(a, r) = v.used
  BY <1>2, AppendElement, ConsElement DEF ListsInjective
<1>5. /\ b \in Seq(Root) /\ IsInjective(b) /\ ToSet(b) = ToSet(v.unused) \cup {r}
      /\ RemoveFirst(b, r) = v.unused
  BY <1>2, AppendElement, ConsElement DEF ListsInjective
<1>6. f \in SUBSET Chunk /\ root_chunk(r) \in f
      /\ \A c \in Chunk : c # root_chunk(r) => (c \in f <=> c \in v.free)
  BY <1>1, <1>2
<1>7. CASE list = "used"
  <2>1. u = [v EXCEPT !.used = a]
    BY <1>1, <1>7 DEF link
  <2> HIDE DEF a, u
  <2>2. /\ u.used = a /\ u.unused = v.unused /\ u.free = v.free /\ SameChunks(v, u)
        /\ u.list_state = v.list_state /\ u.list_generation = v.list_generation
    BY <2>1 DEF PmmType, SameChunks
  <2>3. u \in PmmType
    BY <1>4, <2>1 DEF PmmType
  <2> QED BY <1>3, <1>4, <1>7, <2>2, <2>3 DEF Relisted, ListsInjective, u
<1>8. CASE list = "unused"
  <2>1. u = [v EXCEPT !.unused = b]
    BY <1>1, <1>8 DEF link
  <2> HIDE DEF b, u
  <2>2. /\ u.unused = b /\ u.used = v.used /\ u.free = v.free /\ SameChunks(v, u)
        /\ u.list_state = v.list_state /\ u.list_generation = v.list_generation
    BY <2>1 DEF PmmType, SameChunks
  <2>3. u \in PmmType
    BY <1>5, <2>1 DEF PmmType
  <2> QED BY <1>3, <1>5, <1>8, <2>2, <2>3 DEF Relisted, ListsInjective, u
<1>9. CASE list = "free"
  <2>1. u = [v EXCEPT !.free = f]
    BY <1>1, <1>9 DEF link
  <2> HIDE DEF f, u
  <2>2. /\ u.free = f /\ u.used = v.used /\ u.unused = v.unused /\ SameChunks(v, u)
        /\ u.list_state = v.list_state /\ u.list_generation = v.list_generation
    BY <2>1 DEF PmmType, SameChunks
  <2>3. u \in PmmType
    BY <1>6, <2>1 DEF PmmType
  <2> QED BY <1>3, <1>6, <1>9, <2>2, <2>3 DEF Relisted, ListsInjective, u
<1> QED BY <1>7, <1>8, <1>9

ListOf(list) ==
  CASE list = "used" -> "VA_BLOCK_USED" [] list = "unused" -> "VA_BLOCK_UNUSED" [] OTHER -> "FREE"

LEMMA RootMoved ==
  ASSUME NEW q \in PmmType, ListsInjective(q), NEW r \in Root, NEW list \in {"used", "unused", "free"},
         NEW operation \in {"MOVE_HEAD", "MOVE_TAIL"}, NEW w, w = ListOf(list)
  PROVE  LET u == root_list_update_locked(q, root_chunk(r), list, w, operation)
         IN  Relisted(q, u, r) /\ linked(u, r) /\ u.list_state[r] = w
<1> DEFINE head == operation = "MOVE_HEAD"
           v == unlink(q, root_chunk(r))
           l == link(v, root_chunk(r), list, head)
           u == set_list_state(l, root_chunk(r), w)
<1>1. /\ Relisted(q, v, r) /\ r \notin ToSet(v.used) /\ r \notin ToSet(v.unused)
      /\ root_chunk(r) \notin v.free
  BY Unlinked
<1>6. root_list_update_locked(q, root_chunk(r), list, w, operation) = u
  <2>1. CASE operation = "MOVE_HEAD"
    <3>1. head = TRUE
      BY <2>1
    <3> QED BY <2>1, <3>1 DEF root_list_update_locked
  <2>2. CASE operation = "MOVE_TAIL"
    <3>1. head = FALSE
      BY <2>2
    <3> QED BY <2>2, <3>1 DEF root_list_update_locked
  <2> QED BY <2>1, <2>2
<1> HIDE DEF v
<1>2. v \in PmmType /\ ListsInjective(v) /\ w \in ListStates /\ head \in BOOLEAN
  BY <1>1 DEF Relisted, ListStates, ListOf
<1> HIDE DEF head
<1>3. /\ Relisted(v, l, r)
      /\ r \in ToSet(l.used) <=> list = "used"
      /\ r \in ToSet(l.unused) <=> list = "unused"
      /\ root_chunk(r) \in l.free <=> list = "free"
  BY <1>1, <1>2, RootAdded
<1> HIDE DEF l
<1>4. /\ Relisted(l, u, r) /\ u.list_state[r] = w
      /\ u.used = l.used /\ u.unused = l.unused /\ u.free = l.free
  <2>1. l \in PmmType /\ ListsInjective(l)
    BY <1>3 DEF Relisted
  <2> QED BY <1>2, <2>1, SetListState
<1> HIDE DEF u
<1>5. Relisted(q, u, r)
  <2>1. Relisted(q, l, r)
    BY <1>1, <1>3, RelistedTwice
  <2> QED BY <1>4, <2>1, RelistedTwice
<1>7. linked(u, r)
  BY <1>3, <1>4 DEF linked, ListOf
<1> QED BY <1>4, <1>5, <1>6, <1>7

(* A subchunk is linked on a free list, or not linked at all.              *)
LEMMA SubchunkListed ==
  ASSUME NEW q \in PmmType, ListsInjective(q), NEW c \in Chunk, c # root_chunk(c[1])
  PROVE  LET u == root_list_update_locked(q, c, "free", "FREE", "MOVE_TAIL")
             v == root_list_update_locked(q, c, "none", "NONE", "DEL_INIT")
         IN  /\ u = [q EXCEPT !.free = q.free \cup {c}]
             /\ v = [q EXCEPT !.free = q.free \ {c}]
             /\ root_list_update_locked(q, c, "none", "NONE", "INIT") = q
<1>1. ~chunk_is_root_chunk(c)
  BY RootTest
<1>2. unlink(q, c) = [q EXCEPT !.free = q.free \ {c}]
  BY <1>1 DEF unlink
<1>3. ASSUME NEW f
      PROVE  [[q EXCEPT !.free = q.free \ {c}] EXCEPT !.free = f] = [q EXCEPT !.free = f]
  BY DEF PmmType
<1>4. [q EXCEPT !.free = q.free \ {c}].free = q.free \ {c}
  BY DEF PmmType
<1>5. link(unlink(q, c), c, "free", FALSE) = [q EXCEPT !.free = q.free \cup {c}]
  <2>1. link(unlink(q, c), c, "free", FALSE)
          = [[q EXCEPT !.free = q.free \ {c}] EXCEPT !.free = (q.free \ {c}) \cup {c}]
    BY <1>2, <1>4 DEF link
  <2>2. (q.free \ {c}) \cup {c} = q.free \cup {c}
    OBVIOUS
  <2> QED BY <1>3, <2>1, <2>2
<1> QED BY <1>1, <1>2, <1>5 DEF root_list_update_locked, set_list_state

Listed(q, r) == q.list_state[r] \in {"VA_BLOCK_USED", "VA_BLOCK_UNUSED"}

(* What a policy can do: move a root chunk that is on an eviction list to  *)
(* one of the two eviction lists.                                          *)
Reordered(q, u, r) ==
  \/ u = q
  \/ Listed(q, r) /\ Relisted(q, u, r) /\ linked(u, r) /\ Listed(u, r)

LEMMA Committed ==
  ASSUME NEW q \in PmmType, ListsInjective(q), NEW r \in Root, NEW observed, NEW request
  PROVE  Reordered(q, pmm_bpf_commit_reorder_locked(q, r, observed, request), r)
<1> DEFINE u == pmm_bpf_commit_reorder_locked(q, r, observed, request)
<1>1. CASE pmm_bpf_validate_reorder_locked(q, r, observed, request) # "APPLY"
  <2>1. u = q
    BY <1>1 DEF pmm_bpf_commit_reorder_locked
  <2> QED BY <2>1 DEF Reordered
<1>2. CASE pmm_bpf_validate_reorder_locked(q, r, observed, request) = "APPLY"
  <2> DEFINE list == IF request.value[1] = DESTINATION_USED THEN "used" ELSE "unused"
             w == IF request.value[1] = DESTINATION_USED THEN "VA_BLOCK_USED" ELSE "VA_BLOCK_UNUSED"
             operation == IF request.value[2] = POSITION_HEAD THEN "MOVE_HEAD" ELSE "MOVE_TAIL"
  <2>1. Listed(q, r)
    BY <1>2 DEF pmm_bpf_validate_reorder_locked, Listed
  <2>2. u = root_list_update_locked(q, root_chunk(r), list, w, operation)
    BY <1>2 DEF pmm_bpf_commit_reorder_locked
  <2>3. /\ list \in {"used", "unused", "free"} /\ w = ListOf(list)
        /\ operation \in {"MOVE_HEAD", "MOVE_TAIL"} /\ w \in {"VA_BLOCK_USED", "VA_BLOCK_UNUSED"}
    BY DEF ListOf
  <2> HIDE DEF list, w, operation, u
  <2>4. Relisted(q, u, r) /\ linked(u, r) /\ u.list_state[r] = w
    BY <2>2, <2>3, RootMoved
  <2> QED BY <2>1, <2>3, <2>4 DEF Reordered, Listed, u
<1> QED BY <1>1, <1>2

LEMMA HookReorders ==
  ASSUME NEW q \in PmmType, ListsInjective(q), NEW r \in Root, NEW d
  PROVE  /\ Reordered(q, bpf_call_gpu_block_access(q, r, d), r)
         /\ Reordered(q, bpf_call_gpu_block_activate(q, r, d), r)
<1>1. Reordered(q, pmm_bpf_commit_reorder_locked(q, r, pmm_snapshot(q, r), d.request), r)
  BY Committed
<1>2. Reordered(q, q, r)
  BY DEF Reordered
<1> QED BY <1>1, <1>2 DEF bpf_call_gpu_block_access, bpf_call_gpu_block_activate

(* The list state of the root of c after chunk_update_lists_locked, which  *)
(* was old before.                                                         *)
UpdatedListing(u, c, old) ==
  LET r == c[1]
      w == u.list_state[r]
      s == u.state[root_chunk(r)]
  IN  IF c = root_chunk(r) /\ s = "FREE" THEN w = "FREE"
      ELSE IF c = root_chunk(r) /\ s = "TEMP_PINNED" THEN w = "NONE"
      ELSE IF u.type[r] = "USER" /\ chunk_is_root_chunk_pinned(u, r) THEN w = "NONE"
      ELSE IF u.type[r] = "USER" /\ s # "FREE" THEN Listed(u, r)
      ELSE w = old

(* u is q with chunk c and its root on the lists that their states call    *)
(* for.                                                                    *)
Updated(q, u, c) ==
  /\ u \in PmmType /\ ListsInjective(u)
  /\ \A s \in Root \ {c[1]} : /\ u.list_state[s] = q.list_state[s]
                              /\ s \in ToSet(u.used) <=> s \in ToSet(q.used)
                              /\ s \in ToSet(u.unused) <=> s \in ToSet(q.unused)
  /\ \A e \in Chunk : e # root_chunk(c[1]) /\ e # c => (e \in u.free <=> e \in q.free)
  /\ RemoveFirst(u.used, c[1]) = RemoveFirst(q.used, c[1])
  /\ RemoveFirst(u.unused, c[1]) = RemoveFirst(q.unused, c[1])
  /\ linked(q, c[1]) => linked(u, c[1])
  /\ UpdatedListing(u, c, q.list_state[c[1]])
  /\ c # root_chunk(c[1]) => (c \in u.free <=> \/ u.state[c] = "FREE"
                                               \/ u.state[c] # "TEMP_PINNED" /\ c \in q.free)

(* chunk_update_lists_locked.                                              *)
LEMMA UpdateLists ==
  ASSUME NEW q \in PmmType, ListsInjective(q), NEW c \in Chunk, NEW d
  PROVE  LET u == chunk_update_lists_locked(q, c, d)
         IN  Updated(q, u, c) /\ SameChunks(q, u)
<1> DEFINE r == c[1]
           del == root_list_update_locked(q, root_chunk(r), "none", "NONE", "DEL_INIT")
           moved == root_list_update_locked(q, root_chunk(r), "used", "VA_BLOCK_USED", "MOVE_TAIL")
           hooked == bpf_call_gpu_block_activate(moved, r, d)
           user == q.type[r] = "USER"
           pin == chunk_is_root_chunk_pinned(q, r)
           s == q.state[root_chunk(r)]
           v == IF q.type[r] # "USER" THEN q ELSE IF pin THEN del ELSE IF s # "FREE" THEN hooked ELSE q
           u == chunk_update_lists_locked(q, c, d)
<1>0. r \in Root /\ root_chunk(r) \in Chunk
  BY ChunkFacts
<1>1. u = CASE v.state[c] = "FREE" -> root_list_update_locked(v, c, "free", "FREE", "MOVE_TAIL")
            [] v.state[c] = "TEMP_PINNED" -> root_list_update_locked(v, c, "none", "NONE", "DEL_INIT")
            [] OTHER -> v
  BY DEF chunk_update_lists_locked
<1>2. Relisted(q, del, r) /\ linked(del, r) /\ del.list_state[r] = "NONE"
  BY <1>0, RootDeleted
<1>3. Relisted(q, moved, r) /\ linked(moved, r) /\ Listed(moved, r)
  <2>1. ListOf("used") = "VA_BLOCK_USED"
    BY DEF ListOf
  <2> QED BY <1>0, <2>1, RootMoved DEF Listed
<1>4. Relisted(q, hooked, r) /\ linked(hooked, r) /\ Listed(hooked, r)
  <2> HIDE DEF moved
  <2>1. Reordered(moved, hooked, r)
    BY <1>0, <1>3, HookReorders DEF Relisted
  <2> HIDE DEF hooked
  <2> QED BY <1>3, <2>1, RelistedTwice DEF Reordered
<1> HIDE DEF del, hooked
<1>5. /\ Relisted(q, v, r) /\ (linked(q, r) => linked(v, r))
      /\ v.list_state[r] = "NONE" \/ ~(user /\ pin)
      /\ Listed(v, r) \/ ~(user /\ ~pin /\ s # "FREE")
      /\ v.list_state[r] = q.list_state[r] \/ (user /\ (pin \/ s # "FREE"))
  <2>1. Relisted(q, q, r)
    BY DEF Relisted, SameChunks
  <2>2. CASE ~user
    BY <2>1, <2>2
  <2>3. CASE user /\ pin
    BY <1>2, <2>3
  <2>4. CASE user /\ ~pin /\ s # "FREE"
    BY <1>4, <2>4
  <2>5. CASE user /\ ~pin /\ s = "FREE"
    BY <2>1, <2>5
  <2> QED BY <2>2, <2>3, <2>4, <2>5
<1> HIDE DEF v, u
<1>6. v \in PmmType /\ ListsInjective(v) /\ SameChunks(q, v) /\ v.state[c] = q.state[c]
  BY <1>5 DEF Relisted, SameChunks
<1>7. CASE c = root_chunk(r)
  <2>0. ASSUME Relisted(q, u, r), linked(q, r) => linked(u, r),
               UpdatedListing(u, c, q.list_state[r])
        PROVE  Updated(q, u, c) /\ SameChunks(q, u)
    BY <1>7, <2>0 DEF Relisted, Updated
  <2>1. CASE q.state[c] = "FREE"
    <3>1. u = root_list_update_locked(v, c, "free", "FREE", "MOVE_TAIL")
      BY <1>1, <1>6, <2>1
    <3>2. ListOf("free") = "FREE"
      BY DEF ListOf
    <3>3. Relisted(v, u, r) /\ linked(u, r) /\ u.list_state[r] = "FREE"
      BY <1>0, <1>6, <1>7, <3>1, <3>2, RootMoved
    <3>4. Relisted(q, u, r)
      BY <1>5, <3>3, RelistedTwice
    <3>5. UpdatedListing(u, c, q.list_state[r])
      BY <1>7, <2>1, <3>3, <3>4 DEF UpdatedListing, Relisted, SameChunks
    <3> QED BY <2>0, <3>3, <3>4, <3>5 DEF u
  <2>2. CASE q.state[c] = "TEMP_PINNED"
    <3>1. u = root_list_update_locked(v, c, "none", "NONE", "DEL_INIT")
      BY <1>1, <1>6, <2>2
    <3>3. Relisted(v, u, r) /\ linked(u, r) /\ u.list_state[r] = "NONE"
      BY <1>0, <1>6, <1>7, <3>1, RootDeleted
    <3>4. Relisted(q, u, r)
      BY <1>5, <3>3, RelistedTwice
    <3>5. UpdatedListing(u, c, q.list_state[r])
      BY <1>7, <2>2, <3>3, <3>4 DEF UpdatedListing, Relisted, SameChunks
    <3> QED BY <2>0, <3>3, <3>4, <3>5 DEF u
  <2>3. CASE q.state[c] # "FREE" /\ q.state[c] # "TEMP_PINNED"
    <3>1. u = v
      BY <1>1, <1>6, <2>3
    <3>2. u.state = q.state /\ u.type = q.type /\ u.pinned_leaf_chunks = q.pinned_leaf_chunks
      BY <1>6, <3>1 DEF SameChunks
    <3>3. chunk_is_root_chunk_pinned(u, r) <=> pin
      BY <3>2 DEF chunk_is_root_chunk_pinned
    <3> HIDE DEF pin
    <3>4. UpdatedListing(u, c, q.list_state[r])
      BY <1>5, <1>7, <2>3, <3>1, <3>2, <3>3 DEF UpdatedListing
    <3> QED BY <1>5, <2>0, <3>1, <3>4 DEF u
  <2> QED BY <2>1, <2>2, <2>3
<1>8. CASE c # root_chunk(r)
  <2> DEFINE f == CASE q.state[c] = "FREE" -> v.free \cup {c}
                    [] q.state[c] = "TEMP_PINNED" -> v.free \ {c}
                    [] OTHER -> v.free
  <2>1. u = [v EXCEPT !.free = f]
    <3>1. v = [v EXCEPT !.free = v.free]
      BY <1>6 DEF PmmType
    <3> QED BY <1>1, <1>6, <1>8, <3>1, SubchunkListed
  <2>2. f \in SUBSET Chunk /\ (\A e \in Chunk : e # c => (e \in f <=> e \in v.free))
    BY <1>6 DEF PmmType
  <2>3. c \in f <=> q.state[c] = "FREE" \/ (q.state[c] # "TEMP_PINNED" /\ c \in v.free)
    OBVIOUS
  <2> HIDE DEF f
  <2>4. /\ u.free = f /\ u.used = v.used /\ u.unused = v.unused /\ SameChunks(v, u)
        /\ u.list_state = v.list_state
    BY <1>6, <2>1 DEF PmmType, SameChunks
  <2>5. u \in PmmType
    BY <1>6, <2>1, <2>2 DEF PmmType
  <2>6. u.state = q.state /\ u.type = q.type /\ u.pinned_leaf_chunks = q.pinned_leaf_chunks
        /\ SameChunks(q, u)
    BY <1>6, <2>4 DEF SameChunks
  <2>7. linked(q, r) => linked(u, r)
    BY <1>0, <1>5, <1>8, <2>2, <2>4 DEF linked
  <2>8. UpdatedListing(u, c, q.list_state[r])
    <3>1. chunk_is_root_chunk_pinned(u, r) <=> pin
      BY <2>6 DEF chunk_is_root_chunk_pinned
    <3> HIDE DEF pin
    <3> QED BY <1>5, <1>8, <2>4, <2>6, <3>1 DEF UpdatedListing, Listed
  <2>9. c \in v.free <=> c \in q.free
    BY <1>5, <1>8 DEF Relisted
  <2>10. /\ \A m \in Root \ {r} : /\ u.list_state[m] = q.list_state[m]
                                  /\ m \in ToSet(u.used) <=> m \in ToSet(q.used)
                                  /\ m \in ToSet(u.unused) <=> m \in ToSet(q.unused)
         /\ \A e \in Chunk : e # root_chunk(r) /\ e # c => (e \in u.free <=> e \in q.free)
         /\ RemoveFirst(u.used, r) = RemoveFirst(q.used, r)
         /\ RemoveFirst(u.unused, r) = RemoveFirst(q.unused, r)
    BY <1>5, <2>2, <2>4 DEF Relisted
  <2>11. ListsInjective(u)
    BY <1>6, <2>4 DEF ListsInjective
  <2>12. c \in u.free <=> u.state[c] = "FREE" \/ (u.state[c] # "TEMP_PINNED" /\ c \in q.free)
    BY <2>3, <2>4, <2>6, <2>9
  <2> HIDE DEF s, user, pin
  <2> QED BY <2>5, <2>6, <2>7, <2>8, <2>10, <2>11, <2>12 DEF Updated, u
<1> QED BY <1>7, <1>8

-----------------------------------------------------------------------------
(* The operators of PmmChunks that change chunks and leave the eviction    *)
(* lists alone.                                                            *)

SameLists(q, u) ==
  /\ u \in PmmType /\ ListsInjective(u)
  /\ u.list_state = q.list_state /\ u.used = q.used /\ u.unused = q.unused

LEMMA Fields ==
  ASSUME NEW q \in PmmType
  PROVE  /\ q.state \in [Chunk -> ChunkStates] /\ q.va_block \in [Chunk -> Block \cup {NoBlock}]
         /\ q.type \in [Root -> MemoryTypes] /\ q.allocated \in [Root -> Int]
         /\ q.pinned_leaf_chunks \in [Root -> Int] /\ q.in_eviction \in [Root -> BOOLEAN]
         /\ q.free \in SUBSET Chunk /\ q.list_state \in [Root -> ListStates]
         /\ q.used \in Seq(Root) /\ q.unused \in Seq(Root)
BY DEF PmmType

(* A root chunk has NSub subchunks.                                        *)
LEMMA SubchunksCounted ==
  ASSUME NEW r \in Root
  PROVE  IsFiniteSet(subchunks(r)) /\ Cardinality(subchunks(r)) = NSub
<1> DEFINE f == [i \in 1 .. NSub |-> <<r, i>>]
<1>1. f \in Bijection(1 .. NSub, subchunks(r))
  <2>1. f \in [1 .. NSub -> subchunks(r)]
    BY DEF subchunks
  <2>2. \A i, j \in 1 .. NSub : f[i] = f[j] => i = j
    OBVIOUS
  <2>3. \A c \in subchunks(r) : \E i \in 1 .. NSub : f[i] = c
    BY DEF subchunks
  <2> HIDE DEF f
  <2> QED BY <2>1, <2>2, <2>3 DEF Bijection, Injection, Surjection, IsInjective
<1>2. 1 \in Int /\ NSub \in Int /\ NSub >= 1
  BY NSubAssumption
<1>3. IsFiniteSet(1 .. NSub) /\ Cardinality(1 .. NSub) = NSub
  <2>1. NSub - 1 + 1 = NSub
    BY <1>2
  <2> QED BY <1>2, <2>1, FS_Interval
<1> HIDE DEF f
<1>4. ExistsBijection(1 .. NSub, subchunks(r))
  BY <1>1 DEF ExistsBijection
<1> QED BY <1>3, <1>4, FS_Bijection

LEMMA SomeSubchunks ==
  ASSUME NEW r \in Root, NEW cs \in SUBSET subchunks(r)
  PROVE  IsFiniteSet(cs) /\ Cardinality(cs) \in 0 .. NSub /\ Cardinality(cs) \in Nat
<1>1. IsFiniteSet(subchunks(r)) /\ Cardinality(subchunks(r)) = NSub
  BY SubchunksCounted
<1>2. IsFiniteSet(cs) /\ Cardinality(cs) <= Cardinality(subchunks(r))
  BY <1>1, FS_Subset
<1>3. Cardinality(cs) \in Nat
  BY <1>2, FS_CardinalityType
<1> QED BY <1>1, <1>2, <1>3, NSubAssumption

LEMMA ChunksPinned ==
  ASSUME NEW q \in PmmType, ListsInjective(q), NEW r \in Root, NEW cs
  PROVE  LET u == chunks_pin(q, r, cs)
         IN  /\ SameLists(q, u) /\ u.free = q.free
             /\ \A e \in Chunk : u.state[e] = IF e \in cs THEN "TEMP_PINNED" ELSE q.state[e]
             /\ u.va_block = q.va_block /\ u.type = q.type /\ u.allocated = q.allocated
             /\ \A s \in Root : u.pinned_leaf_chunks[s] =
                  IF s # r THEN q.pinned_leaf_chunks[s] ELSE q.pinned_leaf_chunks[r] + Cardinality(cs \cap subchunks(r))
             /\ u.in_eviction = q.in_eviction
<1> DEFINE u == chunks_pin(q, r, cs)
           n == Cardinality(cs \cap subchunks(r))
           S == [e \in Chunk |-> IF e \in cs THEN "TEMP_PINNED" ELSE q.state[e]]
           P == [q.pinned_leaf_chunks EXCEPT ![r] = q.pinned_leaf_chunks[r] + n]
<1>1. u = [q EXCEPT !.state = S, !.pinned_leaf_chunks = P]
  BY DEF chunks_pin
<1>2. n \in Nat
  <2>1. cs \cap subchunks(r) \in SUBSET subchunks(r)
    OBVIOUS
  <2> QED BY <2>1, SomeSubchunks
<1> HIDE DEF n
<1>3. S \in [Chunk -> ChunkStates] /\ P \in [Root -> Int]
  BY <1>2, Fields DEF ChunkStates
<1>8. /\ \A e \in Chunk : S[e] = IF e \in cs THEN "TEMP_PINNED" ELSE q.state[e]
      /\ \A s \in Root : P[s] = IF s # r THEN q.pinned_leaf_chunks[s]
                                ELSE q.pinned_leaf_chunks[r] + n
  BY Fields
<1> HIDE DEF u, S, P
<1>4. u \in PmmType
  BY <1>1, <1>3 DEF PmmType
<1>5. /\ u.state = S /\ u.pinned_leaf_chunks = P /\ u.va_block = q.va_block /\ u.type = q.type
      /\ u.allocated = q.allocated /\ u.in_eviction = q.in_eviction /\ u.free = q.free
      /\ u.list_state = q.list_state /\ u.used = q.used /\ u.unused = q.unused
  BY <1>1 DEF PmmType
<1>6. ListsInjective(u)
  BY <1>5 DEF ListsInjective
<1> QED BY <1>4, <1>5, <1>6, <1>8 DEF SameLists, u, n

LEMMA ChunkPinned ==
  ASSUME NEW q \in PmmType, ListsInjective(q), NEW c \in Chunk
  PROVE  LET u == chunk_pin(q, c)
         IN  /\ SameLists(q, u) /\ u.free = q.free
             /\ \A e \in Chunk : u.state[e] = IF e = c THEN "TEMP_PINNED" ELSE q.state[e]
             /\ u.va_block = q.va_block /\ u.type = q.type /\ u.allocated = q.allocated
             /\ \A s \in Root : u.pinned_leaf_chunks[s] =
                  IF s # c[1] THEN q.pinned_leaf_chunks[s] ELSE IF c = root_chunk(c[1]) THEN q.pinned_leaf_chunks[c[1]]
                               ELSE q.pinned_leaf_chunks[c[1]] + 1
             /\ u.in_eviction = q.in_eviction
<1>0. c[1] \in Root /\ (c \in subchunks(c[1]) <=> c # root_chunk(c[1]))
  BY ChunkFacts
<1>1. Cardinality({c} \cap subchunks(c[1])) = IF c = root_chunk(c[1]) THEN 0 ELSE 1
  <2>1. CASE c = root_chunk(c[1])
    <3>1. {c} \cap subchunks(c[1]) = {}
      BY <1>0, <2>1
    <3> QED BY <2>1, <3>1, FS_EmptySet
  <2>2. CASE c # root_chunk(c[1])
    <3>1. {c} \cap subchunks(c[1]) = {c}
      BY <1>0, <2>2
    <3> QED BY <2>2, <3>1, FS_Singleton
  <2> QED BY <2>1, <2>2
<1> DEFINE u == chunk_pin(q, c)
           n == Cardinality({c} \cap subchunks(c[1]))
           S == [e \in Chunk |-> IF e \in {c} THEN "TEMP_PINNED" ELSE q.state[e]]
           P == [q.pinned_leaf_chunks EXCEPT ![c[1]] = q.pinned_leaf_chunks[c[1]] + n]
<1>2. u = [q EXCEPT !.state = S, !.pinned_leaf_chunks = P]
  BY DEF chunk_pin, chunks_pin
<1> HIDE DEF n
<1>3. n \in Int
  BY <1>1 DEF n
<1>4. S \in [Chunk -> ChunkStates] /\ P \in [Root -> Int]
  BY <1>0, <1>3, Fields DEF ChunkStates
<1>5. /\ \A e \in Chunk : S[e] = IF e = c THEN "TEMP_PINNED" ELSE q.state[e]
      /\ \A s \in Root : P[s] = IF s # c[1] THEN q.pinned_leaf_chunks[s]
                                ELSE q.pinned_leaf_chunks[c[1]] + n
  BY Fields
<1> HIDE DEF u, S, P
<1>6. u \in PmmType
  BY <1>2, <1>4 DEF PmmType
<1>7. /\ u.state = S /\ u.pinned_leaf_chunks = P /\ u.va_block = q.va_block /\ u.type = q.type
      /\ u.allocated = q.allocated /\ u.in_eviction = q.in_eviction /\ u.free = q.free
      /\ u.list_state = q.list_state /\ u.used = q.used /\ u.unused = q.unused
  BY <1>2 DEF PmmType
<1>8. ListsInjective(u)
  BY <1>7 DEF ListsInjective
<1>9. q.pinned_leaf_chunks[c[1]] \in Int
  BY <1>0, Fields
<1>10. q.pinned_leaf_chunks[c[1]] + n = IF c = root_chunk(c[1]) THEN q.pinned_leaf_chunks[c[1]]
                                       ELSE q.pinned_leaf_chunks[c[1]] + 1
  BY <1>1, <1>9 DEF n
<1> QED BY <1>5, <1>6, <1>7, <1>8, <1>10 DEF SameLists, u

LEMMA ChunkUnpinned ==
  ASSUME NEW q \in PmmType, ListsInjective(q), NEW c \in Chunk, NEW w \in ChunkStates
  PROVE  LET u == chunk_unpin(q, c, w)
         IN  /\ SameLists(q, u) /\ u.free = q.free
             /\ \A e \in Chunk : u.state[e] = IF e = c THEN w ELSE q.state[e]
             /\ u.va_block = q.va_block /\ u.type = q.type /\ u.allocated = q.allocated
             /\ \A s \in Root : u.pinned_leaf_chunks[s] =
                  IF s # c[1] THEN q.pinned_leaf_chunks[s] ELSE IF c = root_chunk(c[1]) THEN q.pinned_leaf_chunks[c[1]]
                               ELSE q.pinned_leaf_chunks[c[1]] - 1
             /\ u.in_eviction = q.in_eviction
<1> DEFINE u == chunk_unpin(q, c, w)
           S == [q.state EXCEPT ![c] = w]
           P == [q.pinned_leaf_chunks EXCEPT
                   ![c[1]] = IF c = root_chunk(c[1]) THEN q.pinned_leaf_chunks[c[1]]
                             ELSE q.pinned_leaf_chunks[c[1]] - 1]
<1>0. c[1] \in Root
  BY ChunkFacts
<1>1. u = [q EXCEPT !.state = S, !.pinned_leaf_chunks = P]
  BY RootTest DEF chunk_unpin
<1>3. S \in [Chunk -> ChunkStates] /\ P \in [Root -> Int]
  BY <1>0, Fields
<1>8. /\ \A e \in Chunk : S[e] = IF e = c THEN w ELSE q.state[e]
      /\ \A s \in Root : P[s] = IF s # c[1] THEN q.pinned_leaf_chunks[s]
                                ELSE IF c = root_chunk(c[1]) THEN q.pinned_leaf_chunks[c[1]]
                                ELSE q.pinned_leaf_chunks[c[1]] - 1
  BY Fields
<1> HIDE DEF u, S, P
<1>4. u \in PmmType
  BY <1>1, <1>3 DEF PmmType
<1>5. /\ u.state = S /\ u.pinned_leaf_chunks = P /\ u.va_block = q.va_block /\ u.type = q.type
      /\ u.allocated = q.allocated /\ u.in_eviction = q.in_eviction /\ u.free = q.free
      /\ u.list_state = q.list_state /\ u.used = q.used /\ u.unused = q.unused
  BY <1>1 DEF PmmType
<1>6. ListsInjective(u)
  BY <1>5 DEF ListsInjective
<1> QED BY <1>4, <1>5, <1>6, <1>8 DEF SameLists, u

LEMMA ChunkSplit ==
  ASSUME NEW q \in PmmType, ListsInjective(q), NEW r \in Root
  PROVE  LET u == split_gpu_chunk(q, r)
         IN  /\ SameLists(q, u) /\ u.free = q.free
             /\ \A e \in Chunk : u.state[e] = IF e = root_chunk(r) THEN "IS_SPLIT"
                                           ELSE IF e[1] = r THEN q.state[root_chunk(r)] ELSE q.state[e]
             /\ \A e \in Chunk : u.va_block[e] = IF e = root_chunk(r) THEN NoBlock
                                              ELSE IF e[1] = r THEN q.va_block[root_chunk(r)]
                                              ELSE q.va_block[e]
             /\ u.type = q.type /\ u.in_eviction = q.in_eviction
             /\ \A s \in Root : u.allocated[s] = IF s # r THEN q.allocated[s] ELSE NSub
             /\ \A s \in Root : u.pinned_leaf_chunks[s] =
                  IF s # r THEN q.pinned_leaf_chunks[s] ELSE IF q.state[root_chunk(r)] = "TEMP_PINNED" THEN NSub ELSE 0
<1> DEFINE u == split_gpu_chunk(q, r)
           S == [e \in Chunk |-> IF e = root_chunk(r) THEN "IS_SPLIT"
                                 ELSE IF e[1] = r THEN q.state[root_chunk(r)] ELSE q.state[e]]
           V == [e \in Chunk |-> IF e = root_chunk(r) THEN NoBlock
                                 ELSE IF e[1] = r THEN q.va_block[root_chunk(r)] ELSE q.va_block[e]]
           A == [q.allocated EXCEPT ![r] = NSub]
           P == [q.pinned_leaf_chunks EXCEPT
                   ![r] = IF q.state[root_chunk(r)] = "TEMP_PINNED" THEN NSub ELSE 0]
<1>a. NSub \in Int
  BY NSubAssumption
<1>0. root_chunk(r) \in Chunk /\ NSub \in Int
  BY <1>a, ChunkFacts
<1>1. u = [q EXCEPT !.state = S, !.va_block = V, !.allocated = A, !.pinned_leaf_chunks = P]
  BY DEF split_gpu_chunk
<1>3. /\ S \in [Chunk -> ChunkStates] /\ V \in [Chunk -> Block \cup {NoBlock}]
      /\ A \in [Root -> Int] /\ P \in [Root -> Int]
  BY <1>0, Fields DEF ChunkStates
<1>8. /\ \A e \in Chunk : S[e] = IF e = root_chunk(r) THEN "IS_SPLIT"
                                 ELSE IF e[1] = r THEN q.state[root_chunk(r)] ELSE q.state[e]
      /\ \A e \in Chunk : V[e] = IF e = root_chunk(r) THEN NoBlock
                                 ELSE IF e[1] = r THEN q.va_block[root_chunk(r)] ELSE q.va_block[e]
      /\ \A s \in Root : A[s] = IF s # r THEN q.allocated[s] ELSE NSub
      /\ \A s \in Root : P[s] = IF s # r THEN q.pinned_leaf_chunks[s]
                                ELSE IF q.state[root_chunk(r)] = "TEMP_PINNED" THEN NSub ELSE 0
  BY Fields
<1> HIDE DEF u, S, V, A, P
<1>4. u \in PmmType
  BY <1>1, <1>3 DEF PmmType
<1>5. /\ u.state = S /\ u.pinned_leaf_chunks = P /\ u.va_block = V /\ u.type = q.type
      /\ u.allocated = A /\ u.in_eviction = q.in_eviction /\ u.free = q.free
      /\ u.list_state = q.list_state /\ u.used = q.used /\ u.unused = q.unused
  BY <1>1 DEF PmmType
<1>6. ListsInjective(u)
  BY <1>5 DEF ListsInjective
<1> QED BY <1>4, <1>5, <1>6, <1>8 DEF SameLists, u

LEMMA ChunkMerged ==
  ASSUME NEW q \in PmmType, ListsInjective(q), NEW r \in Root
  PROVE  LET u == merge_gpu_chunk(q, r)
             m == q.state[<<r, 1>>]
         IN  /\ SameLists(q, u) /\ u.free = q.free
             /\ \A e \in Chunk : u.state[e] = IF e = root_chunk(r) THEN m
                                           ELSE IF e[1] = r THEN "NO_CHUNK" ELSE q.state[e]
             /\ \A e \in Chunk : e[1] # r => u.va_block[e] = q.va_block[e]
             /\ u.type = q.type /\ u.in_eviction = q.in_eviction
             /\ \A s \in Root : u.allocated[s] = IF s # r THEN q.allocated[s] ELSE 0
             /\ \A s \in Root : u.pinned_leaf_chunks[s] =
                  IF s # r THEN q.pinned_leaf_chunks[s] ELSE 0
<1> DEFINE u == merge_gpu_chunk(q, r)
           s == q.state[<<r, 1>>]
           b == q.va_block[<<r, 1>>]
           S == [e \in Chunk |-> IF e = root_chunk(r) THEN s
                                 ELSE IF e[1] = r THEN "NO_CHUNK" ELSE q.state[e]]
           V == [e \in Chunk |-> IF e = root_chunk(r)
                                 THEN (IF s = "ALLOCATED" THEN b ELSE q.va_block[e])
                                 ELSE IF e[1] = r THEN NoBlock ELSE q.va_block[e]]
           A == [q.allocated EXCEPT ![r] = 0]
           P == [q.pinned_leaf_chunks EXCEPT ![r] = 0]
<1>0. root_chunk(r) \in Chunk /\ root_chunk(r)[1] = r /\ <<r, 1>> \in Chunk
  BY ChunkFacts
<1>1. u = [q EXCEPT !.state = S, !.va_block = V, !.allocated = A, !.pinned_leaf_chunks = P]
  BY DEF merge_gpu_chunk
<1>2. s \in ChunkStates /\ b \in Block \cup {NoBlock}
  BY <1>0, Fields
<1> HIDE DEF s, b
<1>3. /\ S \in [Chunk -> ChunkStates] /\ V \in [Chunk -> Block \cup {NoBlock}]
      /\ A \in [Root -> Int] /\ P \in [Root -> Int]
  BY <1>0, <1>2, Fields DEF ChunkStates
<1>7. \A e \in Chunk : e[1] # r => V[e] = q.va_block[e]
  BY <1>0
<1>8. /\ \A e \in Chunk : S[e] = IF e = root_chunk(r) THEN s
                                 ELSE IF e[1] = r THEN "NO_CHUNK" ELSE q.state[e]
      /\ \A x \in Root : A[x] = IF x # r THEN q.allocated[x] ELSE 0
      /\ \A x \in Root : P[x] = IF x # r THEN q.pinned_leaf_chunks[x] ELSE 0
  BY Fields
<1> HIDE DEF u, S, V, A, P
<1>4. u \in PmmType
  BY <1>1, <1>3 DEF PmmType
<1>5. /\ u.state = S /\ u.pinned_leaf_chunks = P /\ u.va_block = V /\ u.type = q.type
      /\ u.allocated = A /\ u.in_eviction = q.in_eviction /\ u.free = q.free
      /\ u.list_state = q.list_state /\ u.used = q.used /\ u.unused = q.unused
  BY <1>1 DEF PmmType
<1>6. ListsInjective(u)
  BY <1>5 DEF ListsInjective
<1> QED BY <1>4, <1>5, <1>6, <1>7, <1>8 DEF SameLists, u, s

LEMMA MergePrepared ==
  ASSUME NEW q \in PmmType, ListsInjective(q), NEW r \in Root
  PROVE  LET u == prepare_for_merge(q, r)
         IN  /\ SameLists(q, u) /\ u.free = q.free \ subchunks(r)
             /\ \A e \in Chunk : u.state[e] = IF e \in subchunks(r) THEN "TEMP_PINNED" ELSE q.state[e]
             /\ u.va_block = q.va_block /\ u.type = q.type /\ u.in_eviction = q.in_eviction
             /\ \A s \in Root : u.allocated[s] = IF s # r THEN q.allocated[s] ELSE NSub
             /\ \A s \in Root : u.pinned_leaf_chunks[s] =
                  IF s # r THEN q.pinned_leaf_chunks[s] ELSE q.pinned_leaf_chunks[r] + NSub
<1> DEFINE u == prepare_for_merge(q, r)
           S == [e \in Chunk |-> IF e \in subchunks(r) THEN "TEMP_PINNED" ELSE q.state[e]]
           A == [q.allocated EXCEPT ![r] = NSub]
           P == [q.pinned_leaf_chunks EXCEPT ![r] = q.pinned_leaf_chunks[r] + NSub]
           F == q.free \ subchunks(r)
<1>0. NSub \in Int
  BY NSubAssumption
<1>1. u = [q EXCEPT !.state = S, !.free = F, !.pinned_leaf_chunks = P, !.allocated = A]
  BY DEF prepare_for_merge
<1>3. /\ S \in [Chunk -> ChunkStates] /\ F \in SUBSET Chunk
      /\ A \in [Root -> Int] /\ P \in [Root -> Int]
  BY <1>0, Fields DEF ChunkStates
<1>8. /\ \A e \in Chunk : S[e] = IF e \in subchunks(r) THEN "TEMP_PINNED" ELSE q.state[e]
      /\ \A s \in Root : A[s] = IF s # r THEN q.allocated[s] ELSE NSub
      /\ \A s \in Root : P[s] = IF s # r THEN q.pinned_leaf_chunks[s]
                                ELSE q.pinned_leaf_chunks[r] + NSub
  BY Fields
<1> HIDE DEF u, S, A, P, F
<1>4. u \in PmmType
  BY <1>1, <1>3 DEF PmmType
<1>5. /\ u.state = S /\ u.pinned_leaf_chunks = P /\ u.va_block = q.va_block /\ u.type = q.type
      /\ u.allocated = A /\ u.in_eviction = q.in_eviction /\ u.free = F
      /\ u.list_state = q.list_state /\ u.used = q.used /\ u.unused = q.unused
  BY <1>1 DEF PmmType
<1>6. ListsInjective(u)
  BY <1>5 DEF ListsInjective
<1> QED BY <1>4, <1>5, <1>6, <1>8 DEF SameLists, u, F

-----------------------------------------------------------------------------
(* The functions that change a chunk and put it on the right list.         *)

(* Between q and u nothing has happened outside root chunk r.              *)
Frame(q, u, r) ==
  /\ u \in PmmType /\ ListsInjective(u)
  /\ \A s \in Root \ {r} : /\ u.list_state[s] = q.list_state[s] /\ u.type[s] = q.type[s]
                           /\ u.allocated[s] = q.allocated[s]
                           /\ u.pinned_leaf_chunks[s] = q.pinned_leaf_chunks[s]
                           /\ u.in_eviction[s] = q.in_eviction[s]
                           /\ s \in ToSet(u.used) <=> s \in ToSet(q.used)
                           /\ s \in ToSet(u.unused) <=> s \in ToSet(q.unused)
  /\ \A e \in Chunk : e[1] # r => /\ u.state[e] = q.state[e] /\ u.va_block[e] = q.va_block[e]
                                  /\ e \in u.free <=> e \in q.free

LEMMA FrameTwice ==
  ASSUME NEW q, NEW u, NEW v, NEW r, Frame(q, u, r), Frame(u, v, r)
  PROVE  Frame(q, v, r)
BY DEF Frame

LEMMA FrameUpdated ==
  ASSUME NEW q, NEW u, NEW c \in Chunk, Updated(q, u, c), SameChunks(q, u)
  PROVE  Frame(q, u, c[1])
<1>1. \A e \in Chunk : e[1] # c[1] => e # c /\ e # root_chunk(c[1])
  BY ChunkFacts
<1> QED BY <1>1 DEF Updated, SameChunks, Frame

LEMMA FrameRelisted ==
  ASSUME NEW q, NEW u, NEW r \in Root, Relisted(q, u, r)
  PROVE  Frame(q, u, r)
<1>1. \A e \in Chunk : e[1] # r => e # root_chunk(r)
  BY ChunkFacts
<1> QED BY <1>1 DEF Relisted, SameChunks, Frame

(* Single assignments.                                                     *)
LEMMA BlockSet ==
  ASSUME NEW q \in PmmType, ListsInjective(q), NEW c \in Chunk, NEW b \in Block \cup {NoBlock}
  PROVE  LET u == [q EXCEPT !.va_block[c] = b]
         IN  /\ SameLists(q, u) /\ u.free = q.free /\ u.state = q.state /\ u.type = q.type
             /\ u.allocated = q.allocated /\ u.pinned_leaf_chunks = q.pinned_leaf_chunks
             /\ u.in_eviction = q.in_eviction
             /\ \A e \in Chunk : u.va_block[e] = IF e = c THEN b ELSE q.va_block[e]
<1> DEFINE V == [q.va_block EXCEPT ![c] = b]
           u == [q EXCEPT !.va_block[c] = b]
<1>1. u = [q EXCEPT !.va_block = V]
  OBVIOUS
<1>2. V \in [Chunk -> Block \cup {NoBlock}] /\ \A e \in Chunk : V[e] = IF e = c THEN b ELSE q.va_block[e]
  BY Fields
<1> HIDE DEF V, u
<1>3. u \in PmmType
  BY <1>1, <1>2 DEF PmmType
<1>4. /\ u.state = q.state /\ u.pinned_leaf_chunks = q.pinned_leaf_chunks /\ u.va_block = V
      /\ u.type = q.type /\ u.allocated = q.allocated /\ u.in_eviction = q.in_eviction
      /\ u.free = q.free /\ u.list_state = q.list_state /\ u.used = q.used /\ u.unused = q.unused
  BY <1>1 DEF PmmType
<1> QED BY <1>2, <1>3, <1>4 DEF SameLists, ListsInjective, u

LEMMA AllocatedSet ==
  ASSUME NEW q \in PmmType, ListsInjective(q), NEW r \in Root, NEW n \in Int
  PROVE  LET u == [q EXCEPT !.allocated[r] = n]
         IN  /\ SameLists(q, u) /\ u.free = q.free /\ u.state = q.state /\ u.type = q.type
             /\ u.va_block = q.va_block /\ u.pinned_leaf_chunks = q.pinned_leaf_chunks
             /\ u.in_eviction = q.in_eviction
             /\ \A s \in Root : u.allocated[s] = IF s = r THEN n ELSE q.allocated[s]
<1> DEFINE A == [q.allocated EXCEPT ![r] = n]
           u == [q EXCEPT !.allocated[r] = n]
<1>1. u = [q EXCEPT !.allocated = A]
  OBVIOUS
<1>2. A \in [Root -> Int] /\ \A s \in Root : A[s] = IF s = r THEN n ELSE q.allocated[s]
  BY Fields
<1> HIDE DEF A, u
<1>3. u \in PmmType
  BY <1>1, <1>2 DEF PmmType
<1>4. /\ u.state = q.state /\ u.pinned_leaf_chunks = q.pinned_leaf_chunks /\ u.va_block = q.va_block
      /\ u.type = q.type /\ u.allocated = A /\ u.in_eviction = q.in_eviction
      /\ u.free = q.free /\ u.list_state = q.list_state /\ u.used = q.used /\ u.unused = q.unused
  BY <1>1 DEF PmmType
<1> QED BY <1>2, <1>3, <1>4 DEF SameLists, ListsInjective, u

LEMMA StateSet ==
  ASSUME NEW q \in PmmType, ListsInjective(q), NEW c \in Chunk, NEW w \in ChunkStates
  PROVE  LET u == [q EXCEPT !.state[c] = w]
         IN  /\ SameLists(q, u) /\ u.free = q.free /\ u.type = q.type
             /\ u.va_block = q.va_block /\ u.pinned_leaf_chunks = q.pinned_leaf_chunks
             /\ u.in_eviction = q.in_eviction /\ u.allocated = q.allocated
             /\ \A e \in Chunk : u.state[e] = IF e = c THEN w ELSE q.state[e]
<1> DEFINE S == [q.state EXCEPT ![c] = w]
           u == [q EXCEPT !.state[c] = w]
<1>1. u = [q EXCEPT !.state = S]
  OBVIOUS
<1>2. S \in [Chunk -> ChunkStates] /\ \A e \in Chunk : S[e] = IF e = c THEN w ELSE q.state[e]
  BY Fields
<1> HIDE DEF S, u
<1>3. u \in PmmType
  BY <1>1, <1>2 DEF PmmType
<1>4. /\ u.state = S /\ u.pinned_leaf_chunks = q.pinned_leaf_chunks /\ u.va_block = q.va_block
      /\ u.type = q.type /\ u.allocated = q.allocated /\ u.in_eviction = q.in_eviction
      /\ u.free = q.free /\ u.list_state = q.list_state /\ u.used = q.used /\ u.unused = q.unused
  BY <1>1 DEF PmmType
<1> QED BY <1>2, <1>3, <1>4 DEF SameLists, ListsInjective, u

LEMMA TypeSet ==
  ASSUME NEW q \in PmmType, ListsInjective(q), NEW r \in Root, NEW w \in MemoryTypes
  PROVE  LET u == [q EXCEPT !.type[r] = w]
         IN  /\ SameLists(q, u) /\ u.free = q.free /\ u.state = q.state
             /\ u.va_block = q.va_block /\ u.pinned_leaf_chunks = q.pinned_leaf_chunks
             /\ u.in_eviction = q.in_eviction /\ u.allocated = q.allocated
             /\ \A s \in Root : u.type[s] = IF s = r THEN w ELSE q.type[s]
<1> DEFINE T == [q.type EXCEPT ![r] = w]
           u == [q EXCEPT !.type[r] = w]
<1>1. u = [q EXCEPT !.type = T]
  OBVIOUS
<1>2. T \in [Root -> MemoryTypes] /\ \A s \in Root : T[s] = IF s = r THEN w ELSE q.type[s]
  BY Fields
<1> HIDE DEF T, u
<1>3. u \in PmmType
  BY <1>1, <1>2 DEF PmmType
<1>4. /\ u.state = q.state /\ u.pinned_leaf_chunks = q.pinned_leaf_chunks /\ u.va_block = q.va_block
      /\ u.type = T /\ u.allocated = q.allocated /\ u.in_eviction = q.in_eviction
      /\ u.free = q.free /\ u.list_state = q.list_state /\ u.used = q.used /\ u.unused = q.unused
  BY <1>1 DEF PmmType
<1> QED BY <1>2, <1>3, <1>4 DEF SameLists, ListsInjective, u

LEMMA EvictionSet ==
  ASSUME NEW q \in PmmType, ListsInjective(q), NEW r \in Root, NEW w \in BOOLEAN
  PROVE  LET u == [q EXCEPT !.in_eviction[r] = w]
         IN  /\ SameLists(q, u) /\ u.free = q.free /\ u.state = q.state
             /\ u.va_block = q.va_block /\ u.pinned_leaf_chunks = q.pinned_leaf_chunks
             /\ u.type = q.type /\ u.allocated = q.allocated
             /\ \A s \in Root : u.in_eviction[s] = IF s = r THEN w ELSE q.in_eviction[s]
<1> DEFINE E == [q.in_eviction EXCEPT ![r] = w]
           u == [q EXCEPT !.in_eviction[r] = w]
<1>1. u = [q EXCEPT !.in_eviction = E]
  OBVIOUS
<1>2. E \in [Root -> BOOLEAN] /\ \A s \in Root : E[s] = IF s = r THEN w ELSE q.in_eviction[s]
  BY Fields
<1> HIDE DEF E, u
<1>3. u \in PmmType
  BY <1>1, <1>2 DEF PmmType
<1>4. /\ u.state = q.state /\ u.pinned_leaf_chunks = q.pinned_leaf_chunks /\ u.va_block = q.va_block
      /\ u.type = q.type /\ u.allocated = q.allocated /\ u.in_eviction = E
      /\ u.free = q.free /\ u.list_state = q.list_state /\ u.used = q.used /\ u.unused = q.unused
  BY <1>1 DEF PmmType
<1> QED BY <1>2, <1>3, <1>4 DEF SameLists, ListsInjective, u

LEMMA FreeSet ==
  ASSUME NEW q \in PmmType, ListsInjective(q), NEW f \in SUBSET Chunk
  PROVE  LET u == [q EXCEPT !.free = f]
         IN  /\ SameLists(q, u) /\ u.free = f /\ u.state = q.state
             /\ u.va_block = q.va_block /\ u.pinned_leaf_chunks = q.pinned_leaf_chunks
             /\ u.type = q.type /\ u.allocated = q.allocated /\ u.in_eviction = q.in_eviction
<1> DEFINE u == [q EXCEPT !.free = f]
<1>3. u \in PmmType
  BY DEF PmmType
<1>4. /\ u.state = q.state /\ u.pinned_leaf_chunks = q.pinned_leaf_chunks /\ u.va_block = q.va_block
      /\ u.type = q.type /\ u.allocated = q.allocated /\ u.in_eviction = q.in_eviction
      /\ u.free = f /\ u.list_state = q.list_state /\ u.used = q.used /\ u.unused = q.unused
  BY DEF PmmType
<1> HIDE DEF u
<1> QED BY <1>3, <1>4 DEF SameLists, ListsInjective, u

LEMMA UpdatedFrom ==
  ASSUME NEW q \in PmmType, NEW v, NEW u, NEW c \in Chunk,
         SameLists(q, v), v.free = q.free, Updated(v, u, c)
  PROVE  Updated(q, u, c)
<1>1. linked(q, c[1]) => linked(v, c[1])
  BY DEF linked, SameLists
<1> QED BY <1>1 DEF Updated, SameLists

(* claim of a free chunk.                                                  *)
LEMMA Claimed ==
  ASSUME NEW q \in PmmType, ListsInjective(q), NEW c \in Chunk, NEW d
  PROVE  LET u == claim(q, c, d)
             sub == c # root_chunk(c[1])
         IN  /\ Updated(q, u, c) /\ Frame(q, u, c[1])
             /\ \A e \in Chunk : u.state[e] = IF e = c THEN "TEMP_PINNED" ELSE q.state[e]
             /\ u.va_block = q.va_block /\ u.type = q.type /\ u.in_eviction = q.in_eviction
             /\ u.allocated[c[1]] = q.allocated[c[1]] + (IF sub THEN 1 ELSE 0)
             /\ u.pinned_leaf_chunks[c[1]] = q.pinned_leaf_chunks[c[1]] + (IF sub THEN 1 ELSE 0)
<1> DEFINE counted == IF chunk_is_root_chunk(c) THEN q
                      ELSE [q EXCEPT !.allocated[c[1]] = q.allocated[c[1]] + 1]
           v == chunk_pin(counted, c)
           u == chunk_update_lists_locked(v, c, d)
<1>0. c[1] \in Root /\ q.allocated[c[1]] \in Int /\ q.pinned_leaf_chunks[c[1]] \in Int
  BY ChunkFacts, Fields
<1>1. claim(q, c, d) = u
  BY DEF claim
<1>2. /\ SameLists(q, counted) /\ counted.free = q.free /\ counted.state = q.state
      /\ counted.type = q.type /\ counted.va_block = q.va_block
      /\ counted.pinned_leaf_chunks = q.pinned_leaf_chunks /\ counted.in_eviction = q.in_eviction
      /\ \A s \in Root : counted.allocated[s] =
           IF s = c[1] /\ c # root_chunk(c[1]) THEN q.allocated[s] + 1 ELSE q.allocated[s]
  <2>1. CASE c = root_chunk(c[1])
    <3>1. counted = q
      BY <2>1, RootTest
    <3> HIDE DEF counted
    <3> QED BY <2>1, <3>1 DEF SameLists
  <2>2. CASE c # root_chunk(c[1])
    <3>1. PICK n \in Int : n = q.allocated[c[1]] + 1
      BY <1>0
    <3>2. PICK r \in Root : r = c[1]
      BY <1>0
    <3>3. counted = [q EXCEPT !.allocated[r] = n]
      BY <2>2, <3>1, <3>2, RootTest
    <3> HIDE DEF counted
    <3>4. /\ SameLists(q, counted) /\ counted.free = q.free /\ counted.state = q.state
          /\ counted.type = q.type /\ counted.va_block = q.va_block
          /\ counted.pinned_leaf_chunks = q.pinned_leaf_chunks /\ counted.in_eviction = q.in_eviction
          /\ \A s \in Root : counted.allocated[s] = IF s = r THEN n ELSE q.allocated[s]
      BY <3>3, AllocatedSet
    <3> QED BY <2>2, <3>1, <3>2, <3>4
  <2> QED BY <2>1, <2>2
<1> HIDE DEF counted
<1>3. counted \in PmmType /\ ListsInjective(counted)
  BY <1>2 DEF SameLists
<1>4. /\ SameLists(counted, v) /\ v.free = counted.free
      /\ \A e \in Chunk : v.state[e] = IF e = c THEN "TEMP_PINNED" ELSE counted.state[e]
      /\ v.va_block = counted.va_block /\ v.type = counted.type /\ v.allocated = counted.allocated
      /\ \A s \in Root : v.pinned_leaf_chunks[s] =
           IF s # c[1] THEN counted.pinned_leaf_chunks[s]
           ELSE IF c = root_chunk(c[1]) THEN counted.pinned_leaf_chunks[c[1]]
           ELSE counted.pinned_leaf_chunks[c[1]] + 1
      /\ v.in_eviction = counted.in_eviction
  BY <1>3, ChunkPinned
<1> HIDE DEF v
<1>5. v \in PmmType /\ ListsInjective(v) /\ SameLists(q, v) /\ v.free = q.free
  BY <1>2, <1>4 DEF SameLists
<1>6. Updated(v, u, c) /\ SameChunks(v, u)
  BY <1>5, UpdateLists
<1> HIDE DEF u
<1>7. Updated(q, u, c)
  BY <1>5, <1>6, UpdatedFrom
<1>8. /\ \A e \in Chunk : u.state[e] = IF e = c THEN "TEMP_PINNED" ELSE q.state[e]
      /\ u.va_block = q.va_block /\ u.type = q.type /\ u.in_eviction = q.in_eviction
      /\ \A s \in Root : u.allocated[s] = IF s = c[1] /\ c # root_chunk(c[1]) THEN q.allocated[s] + 1
                                          ELSE q.allocated[s]
      /\ \A s \in Root : u.pinned_leaf_chunks[s] =
           IF s = c[1] /\ c # root_chunk(c[1]) THEN q.pinned_leaf_chunks[s] + 1
           ELSE q.pinned_leaf_chunks[s]
  BY <1>2, <1>4, <1>6 DEF SameChunks
<1>9. Frame(q, u, c[1])
  <2>1. \A e \in Chunk : e[1] # c[1] => e # c /\ e # root_chunk(c[1])
    BY ChunkFacts
  <2> QED BY <1>7, <1>8, <2>1 DEF Frame, Updated
<1>10. /\ u.allocated[c[1]] = q.allocated[c[1]] + (IF c # root_chunk(c[1]) THEN 1 ELSE 0)
       /\ u.pinned_leaf_chunks[c[1]] = q.pinned_leaf_chunks[c[1]] + (IF c # root_chunk(c[1]) THEN 1 ELSE 0)
  BY <1>0, <1>8
<1> QED BY <1>1, <1>7, <1>8, <1>9, <1>10

(* gpu_unpin_temp.  The list state of a root chunk stays right if it was   *)
(* on no list.                                                             *)
LEMMA TempUnpinned ==
  ASSUME NEW q \in PmmType, ListsInjective(q), NEW c \in Chunk, NEW b \in Block, NEW d
  PROVE  LET u == gpu_unpin_temp(q, c, b, d)
             sub == c # root_chunk(c[1])
         IN  /\ Frame(q, u, c[1])
             /\ linked(q, c[1]) /\ q.list_state[c[1]] \in {"NONE", "EVICTION"} => linked(u, c[1])
             /\ UpdatedListing(u, c, IF sub THEN q.list_state[c[1]] ELSE "NONE")
             /\ \A e \in Chunk : e # root_chunk(c[1]) => (e \in u.free <=> e \in q.free)
             /\ \A e \in Chunk : u.state[e] = IF e = c THEN "ALLOCATED" ELSE q.state[e]
             /\ \A e \in Chunk : u.va_block[e] = IF e = c THEN b ELSE q.va_block[e]
             /\ u.type = q.type /\ u.in_eviction = q.in_eviction /\ u.allocated = q.allocated
             /\ u.pinned_leaf_chunks[c[1]] = q.pinned_leaf_chunks[c[1]] - (IF sub THEN 1 ELSE 0)
<1> DEFINE l == root_list_update_locked(q, c, "none", "NONE", "INIT")
           k == chunk_unpin(l, c, "ALLOCATED")
           v == [k EXCEPT !.va_block[c] = b]
           u == chunk_update_lists_locked(v, c, d)
           unlisted == linked(q, c[1]) /\ q.list_state[c[1]] \in {"NONE", "EVICTION"}
           old == IF c # root_chunk(c[1]) THEN q.list_state[c[1]] ELSE "NONE"
<1>0. PICK r \in Root : r = c[1]
  BY ChunkFacts
<1>1. gpu_unpin_temp(q, c, b, d) = u
  BY DEF gpu_unpin_temp
<1>2. /\ Relisted(q, l, r) /\ (unlisted => linked(l, r)) /\ l.free = q.free /\ l.list_state[r] = old
      /\ l.used = q.used /\ l.unused = q.unused
  <2>1. CASE c = root_chunk(r)
    <3>1. l = set_list_state(q, root_chunk(r), "NONE")
      BY <2>1 DEF root_list_update_locked
    <3>2. "NONE" \in ListStates
      BY DEF ListStates
    <3>3. /\ Relisted(q, l, r) /\ l.list_state[r] = "NONE"
          /\ l.used = q.used /\ l.unused = q.unused /\ l.free = q.free
      BY <3>1, <3>2, SetListState
    <3> QED BY <1>0, <2>1, <3>3 DEF linked
  <2>2. CASE c # root_chunk(r)
    <3>1. l = q
      BY <1>0, <2>2, SubchunkListed
    <3> QED BY <1>0, <2>2, <3>1 DEF Relisted, SameChunks
  <2> QED BY <2>1, <2>2
<1> HIDE DEF l
<1>3. l \in PmmType /\ ListsInjective(l) /\ SameChunks(q, l)
  BY <1>2 DEF Relisted
<1>4. /\ SameLists(l, k) /\ k.free = l.free
      /\ \A e \in Chunk : k.state[e] = IF e = c THEN "ALLOCATED" ELSE l.state[e]
      /\ k.va_block = l.va_block /\ k.type = l.type /\ k.allocated = l.allocated
      /\ \A s \in Root : k.pinned_leaf_chunks[s] =
           IF s # c[1] THEN l.pinned_leaf_chunks[s]
           ELSE IF c = root_chunk(c[1]) THEN l.pinned_leaf_chunks[c[1]]
           ELSE l.pinned_leaf_chunks[c[1]] - 1
      /\ k.in_eviction = l.in_eviction
  <2>1. "ALLOCATED" \in ChunkStates
    BY DEF ChunkStates
  <2> QED BY <1>3, <2>1, ChunkUnpinned
<1> HIDE DEF k
<1>5. /\ SameLists(k, v) /\ v.free = k.free /\ v.state = k.state /\ v.type = k.type
      /\ v.allocated = k.allocated /\ v.pinned_leaf_chunks = k.pinned_leaf_chunks
      /\ v.in_eviction = k.in_eviction
      /\ \A e \in Chunk : v.va_block[e] = IF e = c THEN b ELSE k.va_block[e]
  <2>1. k \in PmmType /\ ListsInjective(k) /\ b \in Block \cup {NoBlock}
    BY <1>4 DEF SameLists
  <2> QED BY <2>1, BlockSet
<1> HIDE DEF v
<1>6. v \in PmmType /\ ListsInjective(v) /\ SameLists(l, v) /\ v.free = l.free
  BY <1>4, <1>5 DEF SameLists
<1>7. Updated(v, u, c) /\ SameChunks(v, u)
  BY <1>6, UpdateLists
<1> HIDE DEF u
<1>8. Updated(l, u, c)
  BY <1>3, <1>6, <1>7, UpdatedFrom
<1>9. /\ \A e \in Chunk : u.state[e] = IF e = c THEN "ALLOCATED" ELSE q.state[e]
      /\ \A e \in Chunk : u.va_block[e] = IF e = c THEN b ELSE q.va_block[e]
      /\ u.type = q.type /\ u.in_eviction = q.in_eviction /\ u.allocated = q.allocated
      /\ \A s \in Root : u.pinned_leaf_chunks[s] =
           IF s = c[1] /\ c # root_chunk(c[1]) THEN q.pinned_leaf_chunks[s] - 1
           ELSE q.pinned_leaf_chunks[s]
  BY <1>3, <1>4, <1>5, <1>7 DEF SameChunks
<1>10. \A e \in Chunk : e # root_chunk(r) => (e \in u.free <=> e \in q.free)
  <2>1. c # root_chunk(c[1]) => (c \in u.free <=> c \in l.free)
    <3>1. u.state[c] = "ALLOCATED"
      BY <1>9
    <3> QED BY <1>8, <3>1 DEF Updated
  <2> QED BY <1>0, <1>2, <1>8, <2>1 DEF Updated
<1>11. Frame(q, u, r)
  <2>1. \A e \in Chunk : e[1] # r => e # c /\ e # root_chunk(r)
    BY <1>0, ChunkFacts
  <2>2. /\ u \in PmmType /\ ListsInjective(u)
        /\ \A s \in Root \ {r} : /\ u.list_state[s] = q.list_state[s]
                                 /\ s \in ToSet(u.used) <=> s \in ToSet(q.used)
                                 /\ s \in ToSet(u.unused) <=> s \in ToSet(q.unused)
    BY <1>0, <1>2, <1>8 DEF Updated, Relisted
  <2> QED BY <1>0, <1>9, <1>10, <2>1, <2>2 DEF Frame
<1>12. u.pinned_leaf_chunks[r] = q.pinned_leaf_chunks[r] - (IF c # root_chunk(r) THEN 1 ELSE 0)
  <2>1. q.pinned_leaf_chunks[r] \in Int
    BY Fields
  <2> QED BY <1>0, <1>9, <2>1
<1>13. (unlisted => linked(u, r)) /\ UpdatedListing(u, c, old)
  BY <1>0, <1>2, <1>8 DEF Updated
<1> QED BY <1>0, <1>1, <1>9, <1>10, <1>11, <1>12, <1>13

(* chunk_free_locked of a chunk of a root in eviction pins the chunk.      *)
LEMMA FreedInEviction ==
  ASSUME NEW q \in PmmType, ListsInjective(q), NEW c \in Chunk, NEW d, q.in_eviction[c[1]]
  PROVE  LET u == chunk_free_locked(q, c, d)
             sub == c # root_chunk(c[1])
         IN  /\ Frame(q, u, c[1]) /\ SameLists(q, u) /\ u.free = q.free
             /\ \A e \in Chunk : u.state[e] = IF e = c THEN "TEMP_PINNED" ELSE q.state[e]
             /\ \A e \in Chunk : u.va_block[e] = IF e = c THEN NoBlock ELSE q.va_block[e]
             /\ u.type = q.type /\ u.in_eviction = q.in_eviction /\ u.allocated = q.allocated
             /\ u.pinned_leaf_chunks[c[1]] = q.pinned_leaf_chunks[c[1]] + (IF sub THEN 1 ELSE 0)
<1> DEFINE k == [q EXCEPT !.va_block[c] = NoBlock]
           u == chunk_pin(k, c)
<1>0. c[1] \in Root /\ q.pinned_leaf_chunks[c[1]] \in Int
  BY ChunkFacts, Fields
<1>1. chunk_free_locked(q, c, d) = u
  BY DEF chunk_free_locked
<1>2. /\ SameLists(q, k) /\ k.free = q.free /\ k.state = q.state /\ k.type = q.type
      /\ k.allocated = q.allocated /\ k.pinned_leaf_chunks = q.pinned_leaf_chunks
      /\ k.in_eviction = q.in_eviction
      /\ \A e \in Chunk : k.va_block[e] = IF e = c THEN NoBlock ELSE q.va_block[e]
  <2>1. NoBlock \in Block \cup {NoBlock}
    OBVIOUS
  <2> QED BY <2>1, BlockSet
<1> HIDE DEF k
<1>3. k \in PmmType /\ ListsInjective(k)
  BY <1>2 DEF SameLists
<1>4. /\ SameLists(k, u) /\ u.free = k.free
      /\ \A e \in Chunk : u.state[e] = IF e = c THEN "TEMP_PINNED" ELSE k.state[e]
      /\ u.va_block = k.va_block /\ u.type = k.type /\ u.allocated = k.allocated
      /\ \A s \in Root : u.pinned_leaf_chunks[s] =
           IF s # c[1] THEN k.pinned_leaf_chunks[s]
           ELSE IF c = root_chunk(c[1]) THEN k.pinned_leaf_chunks[c[1]]
           ELSE k.pinned_leaf_chunks[c[1]] + 1
      /\ u.in_eviction = k.in_eviction
  BY <1>3, ChunkPinned
<1> HIDE DEF u
<1>5. /\ SameLists(q, u) /\ u.free = q.free
      /\ \A e \in Chunk : u.state[e] = IF e = c THEN "TEMP_PINNED" ELSE q.state[e]
      /\ \A e \in Chunk : u.va_block[e] = IF e = c THEN NoBlock ELSE q.va_block[e]
      /\ u.type = q.type /\ u.in_eviction = q.in_eviction /\ u.allocated = q.allocated
      /\ \A s \in Root : u.pinned_leaf_chunks[s] =
           IF s = c[1] /\ c # root_chunk(c[1]) THEN q.pinned_leaf_chunks[s] + 1
           ELSE q.pinned_leaf_chunks[s]
  BY <1>2, <1>4 DEF SameLists
<1>6. Frame(q, u, c[1])
  BY <1>5 DEF Frame, SameLists
<1>7. u.pinned_leaf_chunks[c[1]] = q.pinned_leaf_chunks[c[1]] + (IF c # root_chunk(c[1]) THEN 1 ELSE 0)
  BY <1>0, <1>5
<1> QED BY <1>1, <1>5, <1>6, <1>7

(* chunk_free_locked otherwise.                                            *)
LEMMA Freed ==
  ASSUME NEW q \in PmmType, ListsInjective(q), NEW c \in Chunk, NEW d, ~q.in_eviction[c[1]]
  PROVE  LET u == chunk_free_locked(q, c, d)
             sub == c # root_chunk(c[1])
         IN  /\ Updated(q, u, c) /\ Frame(q, u, c[1])
             /\ \A e \in Chunk : u.state[e] = IF e = c THEN "FREE" ELSE q.state[e]
             /\ \A e \in Chunk : u.va_block[e] = IF e = c THEN NoBlock ELSE q.va_block[e]
             /\ u.type = q.type /\ u.in_eviction = q.in_eviction
             /\ u.allocated[c[1]] = q.allocated[c[1]] - (IF sub THEN 1 ELSE 0)
             /\ u.pinned_leaf_chunks[c[1]] =
                  q.pinned_leaf_chunks[c[1]] - (IF sub /\ q.state[c] = "TEMP_PINNED" THEN 1 ELSE 0)
<1> DEFINE k == [q EXCEPT !.va_block[c] = NoBlock]
           l == IF chunk_is_root_chunk(c) THEN k ELSE [k EXCEPT !.allocated[c[1]] = k.allocated[c[1]] - 1]
           v == IF l.state[c] = "TEMP_PINNED" THEN chunk_unpin(l, c, "FREE")
                ELSE [l EXCEPT !.state[c] = "FREE"]
           u == chunk_update_lists_locked(v, c, d)
<1>0. PICK r \in Root : r = c[1]
  BY ChunkFacts
<1>1. chunk_free_locked(q, c, d) = u
  BY DEF chunk_free_locked
<1>2. /\ SameLists(q, k) /\ k.free = q.free /\ k.state = q.state /\ k.type = q.type
      /\ k.allocated = q.allocated /\ k.pinned_leaf_chunks = q.pinned_leaf_chunks
      /\ k.in_eviction = q.in_eviction
      /\ \A e \in Chunk : k.va_block[e] = IF e = c THEN NoBlock ELSE q.va_block[e]
  <2>1. NoBlock \in Block \cup {NoBlock}
    OBVIOUS
  <2> QED BY <2>1, BlockSet
<1> HIDE DEF k
<1>3. k \in PmmType /\ ListsInjective(k)
  BY <1>2 DEF SameLists
<1>4. /\ SameLists(k, l) /\ l.free = k.free /\ l.state = k.state /\ l.type = k.type
      /\ l.va_block = k.va_block /\ l.pinned_leaf_chunks = k.pinned_leaf_chunks
      /\ l.in_eviction = k.in_eviction
      /\ \A s \in Root : l.allocated[s] = IF s = r /\ c # root_chunk(r) THEN k.allocated[s] - 1
                                          ELSE k.allocated[s]
  <2>1. CASE c = root_chunk(r)
    <3>1. l = k
      BY <1>0, <2>1, RootTest
    <3> HIDE DEF l
    <3> QED BY <1>3, <2>1, <3>1 DEF SameLists
  <2>2. CASE c # root_chunk(r)
    <3>0. k.allocated[r] \in Int
      BY <1>3, Fields
    <3>1. PICK n \in Int : n = k.allocated[r] - 1
      BY <3>0
    <3>2. l = [k EXCEPT !.allocated[r] = n]
      BY <1>0, <2>2, <3>1, RootTest
    <3> HIDE DEF l
    <3>3. /\ SameLists(k, l) /\ l.free = k.free /\ l.state = k.state
          /\ l.type = k.type /\ l.va_block = k.va_block
          /\ l.pinned_leaf_chunks = k.pinned_leaf_chunks /\ l.in_eviction = k.in_eviction
          /\ \A s \in Root : l.allocated[s] = IF s = r THEN n ELSE k.allocated[s]
      BY <1>3, <3>2, AllocatedSet
    <3> QED BY <2>2, <3>1, <3>3
  <2> QED BY <2>1, <2>2
<1> HIDE DEF l
<1>5. l \in PmmType /\ ListsInjective(l)
  BY <1>4 DEF SameLists
<1>6. /\ SameLists(l, v) /\ v.free = l.free /\ v.type = l.type /\ v.va_block = l.va_block
      /\ v.in_eviction = l.in_eviction /\ v.allocated = l.allocated
      /\ \A e \in Chunk : v.state[e] = IF e = c THEN "FREE" ELSE l.state[e]
      /\ \A s \in Root : v.pinned_leaf_chunks[s] =
           IF s = r /\ c # root_chunk(r) /\ l.state[c] = "TEMP_PINNED" THEN l.pinned_leaf_chunks[s] - 1
           ELSE l.pinned_leaf_chunks[s]
  <2>0. "FREE" \in ChunkStates
    BY DEF ChunkStates
  <2>1. CASE l.state[c] = "TEMP_PINNED"
    <3>1. v = chunk_unpin(l, c, "FREE")
      BY <2>1
    <3> HIDE DEF v
    <3>2. /\ SameLists(l, v) /\ v.free = l.free
          /\ \A e \in Chunk : v.state[e] = IF e = c THEN "FREE" ELSE l.state[e]
          /\ v.va_block = l.va_block /\ v.type = l.type /\ v.allocated = l.allocated
          /\ \A s \in Root : v.pinned_leaf_chunks[s] =
               IF s # c[1] THEN l.pinned_leaf_chunks[s]
               ELSE IF c = root_chunk(c[1]) THEN l.pinned_leaf_chunks[c[1]]
               ELSE l.pinned_leaf_chunks[c[1]] - 1
          /\ v.in_eviction = l.in_eviction
      BY <1>5, <2>0, <3>1, ChunkUnpinned
    <3> QED BY <1>0, <2>1, <3>2
  <2>2. CASE l.state[c] # "TEMP_PINNED"
    <3>1. v = [l EXCEPT !.state[c] = "FREE"]
      BY <2>2
    <3> HIDE DEF v
    <3>2. /\ SameLists(l, v) /\ v.free = l.free /\ v.type = l.type
          /\ v.va_block = l.va_block /\ v.pinned_leaf_chunks = l.pinned_leaf_chunks
          /\ v.in_eviction = l.in_eviction /\ v.allocated = l.allocated
          /\ \A e \in Chunk : v.state[e] = IF e = c THEN "FREE" ELSE l.state[e]
      BY <1>5, <2>0, <3>1, StateSet
    <3> QED BY <2>2, <3>2
  <2> QED BY <2>1, <2>2
<1> HIDE DEF v
<1>7. v \in PmmType /\ ListsInjective(v) /\ SameLists(q, v) /\ v.free = q.free
  BY <1>2, <1>4, <1>6 DEF SameLists
<1>8. Updated(v, u, c) /\ SameChunks(v, u)
  BY <1>7, UpdateLists
<1> HIDE DEF u
<1>9. Updated(q, u, c)
  BY <1>7, <1>8, UpdatedFrom
<1>10. /\ \A e \in Chunk : u.state[e] = IF e = c THEN "FREE" ELSE q.state[e]
       /\ \A e \in Chunk : u.va_block[e] = IF e = c THEN NoBlock ELSE q.va_block[e]
       /\ u.type = q.type /\ u.in_eviction = q.in_eviction
       /\ \A s \in Root : u.allocated[s] = IF s = r /\ c # root_chunk(r) THEN q.allocated[s] - 1
                                           ELSE q.allocated[s]
       /\ \A s \in Root : u.pinned_leaf_chunks[s] =
            IF s = r /\ c # root_chunk(r) /\ q.state[c] = "TEMP_PINNED" THEN q.pinned_leaf_chunks[s] - 1
            ELSE q.pinned_leaf_chunks[s]
  BY <1>2, <1>4, <1>6, <1>8 DEF SameChunks
<1>11. Frame(q, u, r)
  <2>1. \A e \in Chunk : e[1] # r => e # c /\ e # root_chunk(r)
    BY <1>0, ChunkFacts
  <2> QED BY <1>0, <1>9, <1>10, <2>1 DEF Frame, Updated
<1>12. /\ u.allocated[r] = q.allocated[r] - (IF c # root_chunk(r) THEN 1 ELSE 0)
       /\ u.pinned_leaf_chunks[r] =
            q.pinned_leaf_chunks[r] - (IF c # root_chunk(r) /\ q.state[c] = "TEMP_PINNED" THEN 1 ELSE 0)
  <2>1. q.pinned_leaf_chunks[r] \in Int /\ q.allocated[r] \in Int
    BY Fields
  <2> QED BY <1>10, <2>1
<1> QED BY <1>0, <1>1, <1>9, <1>10, <1>11, <1>12

(* init_root_chunk.                                                        *)
LEMMA RootInitialized ==
  ASSUME NEW q \in PmmType, ListsInjective(q), NEW r \in Root, NEW m \in MemoryTypes,
         NEW w \in ChunkStates, NEW d
  PROVE  LET u == init_root_chunk(q, r, m, w, d)
         IN  /\ Updated(q, u, root_chunk(r)) /\ Frame(q, u, r)
             /\ \A e \in Chunk : u.state[e] = IF e = root_chunk(r) THEN w ELSE q.state[e]
             /\ u.type[r] = m /\ u.va_block = q.va_block /\ u.in_eviction = q.in_eviction
             /\ u.allocated = q.allocated /\ u.pinned_leaf_chunks = q.pinned_leaf_chunks
<1> DEFINE k == [q EXCEPT !.type[r] = m]
           c == root_chunk(r)
           v == [k EXCEPT !.state[c] = w]
           u == chunk_update_lists_locked(v, c, d)
<1>0. c \in Chunk /\ c[1] = r
  BY ChunkFacts
<1>1. init_root_chunk(q, r, m, w, d) = u
  BY DEF init_root_chunk, PmmType
<1> HIDE DEF c
<1>2. /\ SameLists(q, k) /\ k.free = q.free /\ k.state = q.state
      /\ k.va_block = q.va_block /\ k.pinned_leaf_chunks = q.pinned_leaf_chunks
      /\ k.in_eviction = q.in_eviction /\ k.allocated = q.allocated
      /\ \A s \in Root : k.type[s] = IF s = r THEN m ELSE q.type[s]
  BY TypeSet
<1> HIDE DEF k
<1>3. k \in PmmType /\ ListsInjective(k)
  BY <1>2 DEF SameLists
<1>4. /\ SameLists(k, v) /\ v.free = k.free /\ v.type = k.type
      /\ v.va_block = k.va_block /\ v.pinned_leaf_chunks = k.pinned_leaf_chunks
      /\ v.in_eviction = k.in_eviction /\ v.allocated = k.allocated
      /\ \A e \in Chunk : v.state[e] = IF e = c THEN w ELSE k.state[e]
  BY <1>0, <1>3, StateSet
<1> HIDE DEF v
<1>5. v \in PmmType /\ ListsInjective(v) /\ SameLists(q, v) /\ v.free = q.free
  BY <1>2, <1>4 DEF SameLists
<1>6. Updated(v, u, c) /\ SameChunks(v, u)
  BY <1>0, <1>5, UpdateLists
<1> HIDE DEF u
<1>7. Updated(q, u, c)
  BY <1>0, <1>5, <1>6, UpdatedFrom
<1>8. /\ \A e \in Chunk : u.state[e] = IF e = c THEN w ELSE q.state[e]
      /\ \A s \in Root : u.type[s] = IF s = r THEN m ELSE q.type[s]
      /\ u.va_block = q.va_block /\ u.in_eviction = q.in_eviction
      /\ u.allocated = q.allocated /\ u.pinned_leaf_chunks = q.pinned_leaf_chunks
  BY <1>2, <1>4, <1>6 DEF SameChunks
<1>9. Frame(q, u, r)
  <2>1. c = root_chunk(c[1])
    BY <1>0 DEF c
  <2>2. \A e \in Chunk : e[1] # r => e # c
    BY <1>0
  <2> QED BY <1>0, <1>7, <1>8, <2>1, <2>2 DEF Frame, Updated
<1> QED BY <1>1, <1>7, <1>8, <1>9 DEF c

(* free_all_but_first.                                                     *)
LEMMA AllButFirstFreed ==
  ASSUME NEW q \in PmmType, ListsInjective(q), NEW r \in Root
  PROVE  LET u == free_all_but_first(q, r)
             rest == {<<r, i>> : i \in 2 .. NSub}
         IN  /\ Frame(q, u, r) /\ (linked(q, r) => linked(u, r))
             /\ u.list_state[r] = IF q.type[r] = "USER" THEN "NONE" ELSE q.list_state[r]
             /\ \A e \in Chunk : e # root_chunk(r) => (e \in u.free <=> e \in q.free \/ e \in rest)
             /\ \A e \in Chunk : u.state[e] = IF e \in rest THEN "FREE" ELSE q.state[e]
             /\ \A e \in Chunk : u.va_block[e] = IF e \in rest THEN NoBlock ELSE q.va_block[e]
             /\ u.type = q.type /\ u.in_eviction = q.in_eviction
             /\ u.allocated[r] = 1 /\ u.pinned_leaf_chunks[r] = 1
<1> DEFINE rest == {<<r, i>> : i \in 2 .. NSub}
           S == [e \in Chunk |-> IF e \in rest THEN "FREE" ELSE q.state[e]]
           V == [e \in Chunk |-> IF e \in rest THEN NoBlock ELSE q.va_block[e]]
           A == [q.allocated EXCEPT ![r] = 1]
           P == [q.pinned_leaf_chunks EXCEPT ![r] = 1]
           F == q.free \cup rest
           v == [q EXCEPT !.state = S, !.va_block = V, !.allocated = A, !.pinned_leaf_chunks = P,
                          !.free = F]
           l == root_list_update_locked(v, root_chunk(r), "none", "NONE", "DEL_INIT")
           u == IF q.type[r] = "USER" THEN l ELSE v
<1>0. rest \subseteq Chunk /\ root_chunk(r) \notin rest /\ (\A e \in rest : e[1] = r)
  BY ChunkFacts, NSubAssumption DEF root_chunk, Chunk
<1>1. free_all_but_first(q, r) = u
  BY DEF free_all_but_first
<1> HIDE DEF rest
<1>2. /\ S \in [Chunk -> ChunkStates] /\ V \in [Chunk -> Block \cup {NoBlock}]
      /\ A \in [Root -> Int] /\ P \in [Root -> Int] /\ F \in SUBSET Chunk
  BY <1>0, Fields DEF ChunkStates
<1>3. /\ \A e \in Chunk : S[e] = IF e \in rest THEN "FREE" ELSE q.state[e]
      /\ \A e \in Chunk : V[e] = IF e \in rest THEN NoBlock ELSE q.va_block[e]
      /\ \A s \in Root : A[s] = IF s = r THEN 1 ELSE q.allocated[s]
      /\ \A s \in Root : P[s] = IF s = r THEN 1 ELSE q.pinned_leaf_chunks[s]
      /\ \A e \in Chunk : e \in F <=> e \in q.free \/ e \in rest
  BY Fields
<1> HIDE DEF S, V, A, P, F, v
<1>4. v \in PmmType
  BY <1>2 DEF PmmType, v
<1>5. /\ v.state = S /\ v.va_block = V /\ v.allocated = A /\ v.pinned_leaf_chunks = P
      /\ v.free = F /\ v.type = q.type /\ v.in_eviction = q.in_eviction
      /\ v.list_state = q.list_state /\ v.used = q.used /\ v.unused = q.unused
  BY DEF PmmType, v
<1>6. ListsInjective(v)
  BY <1>5 DEF ListsInjective
<1>7. linked(q, r) => linked(v, r)
  BY <1>0, <1>3, <1>5, ChunkFacts DEF linked
<1>8. Relisted(v, l, r) /\ linked(l, r) /\ l.list_state[r] = "NONE"
  BY <1>4, <1>6, RootDeleted
<1>9. Relisted(v, v, r)
  BY <1>4, <1>6 DEF Relisted, SameChunks
<1> HIDE DEF l
<1>10. /\ Relisted(v, u, r) /\ (linked(v, r) => linked(u, r))
       /\ u.list_state[r] = IF q.type[r] = "USER" THEN "NONE" ELSE q.list_state[r]
  BY <1>5, <1>8, <1>9
<1> HIDE DEF u
<1>11. /\ \A e \in Chunk : e # root_chunk(r) => (e \in u.free <=> e \in q.free \/ e \in rest)
       /\ \A e \in Chunk : u.state[e] = IF e \in rest THEN "FREE" ELSE q.state[e]
       /\ \A e \in Chunk : u.va_block[e] = IF e \in rest THEN NoBlock ELSE q.va_block[e]
       /\ u.type = q.type /\ u.in_eviction = q.in_eviction
       /\ \A s \in Root : u.allocated[s] = IF s = r THEN 1 ELSE q.allocated[s]
       /\ \A s \in Root : u.pinned_leaf_chunks[s] = IF s = r THEN 1 ELSE q.pinned_leaf_chunks[s]
  BY <1>3, <1>5, <1>10 DEF Relisted, SameChunks
<1>12. Frame(q, u, r)
  <2>1. \A e \in Chunk : e[1] # r => e # root_chunk(r) /\ e \notin rest
    BY <1>0, ChunkFacts
  <2>2. /\ u \in PmmType /\ ListsInjective(u)
        /\ \A s \in Root \ {r} : /\ u.list_state[s] = q.list_state[s]
                                 /\ s \in ToSet(u.used) <=> s \in ToSet(q.used)
                                 /\ s \in ToSet(u.unused) <=> s \in ToSet(q.unused)
    BY <1>5, <1>10 DEF Relisted
  <2> QED BY <1>11, <2>1, <2>2 DEF Frame
<1> QED BY <1>1, <1>7, <1>10, <1>11, <1>12 DEF rest

(* chunk_start_eviction.                                                   *)
LEMMA EvictionStarted ==
  ASSUME NEW q \in PmmType, ListsInjective(q), NEW r \in Root
  PROVE  LET u == chunk_start_eviction(q, r)
         IN  /\ Frame(q, u, r) /\ linked(u, r) /\ u.list_state[r] = "EVICTION" /\ u.in_eviction[r]
             /\ u.state = q.state /\ u.va_block = q.va_block /\ u.type = q.type
             /\ u.allocated = q.allocated /\ u.pinned_leaf_chunks = q.pinned_leaf_chunks
             /\ \A e \in Chunk : e # root_chunk(r) => (e \in u.free <=> e \in q.free)
<1> DEFINE l == root_list_update_locked(q, root_chunk(r), "none", "EVICTION", "DEL_INIT")
           u == [l EXCEPT !.in_eviction[r] = TRUE]
<1>1. chunk_start_eviction(q, r) = u
  BY DEF chunk_start_eviction
<1>2. Relisted(q, l, r) /\ linked(l, r) /\ l.list_state[r] = "EVICTION"
  BY RootDeleted
<1> HIDE DEF l
<1>3. l \in PmmType /\ ListsInjective(l)
  BY <1>2 DEF Relisted
<1>4. /\ SameLists(l, u) /\ u.free = l.free /\ u.state = l.state
      /\ u.va_block = l.va_block /\ u.pinned_leaf_chunks = l.pinned_leaf_chunks
      /\ u.type = l.type /\ u.allocated = l.allocated
      /\ \A s \in Root : u.in_eviction[s] = IF s = r THEN TRUE ELSE l.in_eviction[s]
  BY <1>3, EvictionSet
<1> HIDE DEF u
<1>5. linked(u, r) /\ u.list_state[r] = "EVICTION" /\ u.in_eviction[r]
  BY <1>2, <1>4 DEF linked, SameLists
<1>6. /\ u.state = q.state /\ u.va_block = q.va_block /\ u.type = q.type
      /\ u.allocated = q.allocated /\ u.pinned_leaf_chunks = q.pinned_leaf_chunks
      /\ \A e \in Chunk : e # root_chunk(r) => (e \in u.free <=> e \in q.free)
      /\ \A s \in Root \ {r} : /\ u.list_state[s] = q.list_state[s]
                               /\ u.in_eviction[s] = q.in_eviction[s]
                               /\ s \in ToSet(u.used) <=> s \in ToSet(q.used)
                               /\ s \in ToSet(u.unused) <=> s \in ToSet(q.unused)
  BY <1>2, <1>4 DEF Relisted, SameChunks, SameLists
<1>7. Frame(q, u, r)
  <2>1. \A e \in Chunk : e[1] # r => e # root_chunk(r)
    BY ChunkFacts
  <2> QED BY <1>4, <1>6, <2>1 DEF Frame, SameLists
<1> QED BY <1>1, <1>5, <1>6, <1>7

(* The chunks of a root chunk.                                             *)
family(r) == {root_chunk(r)} \cup subchunks(r)

LEMMA FamilyFacts ==
  ASSUME NEW r \in Root
  PROVE  family(r) \subseteq Chunk /\ \A c \in Chunk : c \in family(r) <=> c[1] = r
<1>1. \A c \in Chunk : c[1] = r => (c[2] = 0 <=> c = root_chunk(r))
  BY ChunkFacts
<1>2. family(r) \subseteq Chunk /\ root_chunk(r)[1] = r
  BY ChunkFacts DEF family
<1>3. \A c \in Chunk : c[1] = r /\ c[2] # 0 <=> c \in subchunks(r)
  BY ChunkFacts
<1> QED BY <1>1, <1>2, <1>3 DEF family

(* pin_free_chunks.                                                        *)
LEMMA FreePinned ==
  ASSUME NEW q \in PmmType, ListsInjective(q), NEW r \in Root
  PROVE  LET u == pin_free_chunks(q, r)
             cs == {c \in family(r) : q.state[c] = "FREE"}
         IN  /\ Frame(q, u, r) /\ (linked(q, r) => linked(u, r))
             /\ u.list_state[r] = IF q.state[root_chunk(r)] = "FREE" THEN "EVICTION" ELSE q.list_state[r]
             /\ \A e \in Chunk : e # root_chunk(r) => (e \in u.free <=> e \in q.free /\ e \notin cs)
             /\ \A e \in Chunk : u.state[e] = IF e \in cs THEN "TEMP_PINNED" ELSE q.state[e]
             /\ u.va_block = q.va_block /\ u.type = q.type /\ u.in_eviction = q.in_eviction
             /\ u.allocated[r] = q.allocated[r] + Cardinality(cs \cap subchunks(r))
             /\ u.pinned_leaf_chunks[r] = q.pinned_leaf_chunks[r] + Cardinality(cs \cap subchunks(r))
<1> DEFINE cs == {c \in family(r) : q.state[c] = "FREE"}
           n == Cardinality(cs \cap subchunks(r))
           S == [e \in Chunk |-> IF e \in cs THEN "TEMP_PINNED" ELSE q.state[e]]
           A == [q.allocated EXCEPT ![r] = q.allocated[r] + n]
           P == [q.pinned_leaf_chunks EXCEPT ![r] = q.pinned_leaf_chunks[r] + n]
           F == q.free \ cs
           v == [q EXCEPT !.state = S, !.allocated = A, !.pinned_leaf_chunks = P, !.free = F]
           l == root_list_update_locked(v, root_chunk(r), "none", "EVICTION", "DEL_INIT")
           u == IF root_chunk(r) \in cs THEN l ELSE v
<1>0. cs \subseteq Chunk /\ (\A e \in cs : e[1] = r)
      /\ (root_chunk(r) \in cs <=> q.state[root_chunk(r)] = "FREE")
  <2>1. root_chunk(r) \in family(r)
    BY DEF family
  <2> QED BY <2>1, FamilyFacts
<1>1. n \in Nat
  <2>1. cs \cap subchunks(r) \in SUBSET subchunks(r)
    OBVIOUS
  <2> QED BY <2>1, SomeSubchunks
<1>2. pin_free_chunks(q, r) = u
  <2>1. cs \ {root_chunk(r)} = cs \cap subchunks(r)
    BY ChunkFacts, ZenonT(40) DEF family
  <2>3. PICK k : k = [q EXCEPT !.free = F, !.allocated = A]
    OBVIOUS
  <2>4. k.state = q.state /\ k.pinned_leaf_chunks = q.pinned_leaf_chunks
    BY <2>3 DEF PmmType
  <2>5. chunks_pin(k, r, cs) = [k EXCEPT !.state = S, !.pinned_leaf_chunks = P]
    BY <2>4 DEF chunks_pin
  <2>6. [k EXCEPT !.state = S, !.pinned_leaf_chunks = P] = v
    <3> HIDE DEF S, A, P, F
    <3> QED BY <2>3 DEF PmmType
  <2>7. chunks_pin([q EXCEPT !.free = q.free \ cs,
                             !.allocated[r] = q.allocated[r] + Cardinality(cs \ {root_chunk(r)})], r, cs) = v
    <3>1. [q EXCEPT !.free = q.free \ cs,
                    !.allocated[r] = q.allocated[r] + Cardinality(cs \ {root_chunk(r)})] = k
      BY <2>1, <2>3
    <3> QED BY <2>5, <2>6, <3>1
  <2> HIDE DEF v
  <2> QED BY <2>7 DEF pin_free_chunks, family
<1> HIDE DEF cs, n
<1>3. /\ S \in [Chunk -> ChunkStates] /\ A \in [Root -> Int] /\ P \in [Root -> Int] /\ F \in SUBSET Chunk
  BY <1>0, <1>1, Fields DEF ChunkStates
<1>4. /\ \A e \in Chunk : S[e] = IF e \in cs THEN "TEMP_PINNED" ELSE q.state[e]
      /\ \A s \in Root : A[s] = IF s = r THEN q.allocated[r] + n ELSE q.allocated[s]
      /\ \A s \in Root : P[s] = IF s = r THEN q.pinned_leaf_chunks[r] + n ELSE q.pinned_leaf_chunks[s]
      /\ \A e \in Chunk : e \in F <=> e \in q.free /\ e \notin cs
  BY Fields
<1> HIDE DEF S, A, P, F, v
<1>5. v \in PmmType
  BY <1>3 DEF PmmType, v
<1>6. /\ v.state = S /\ v.va_block = q.va_block /\ v.allocated = A /\ v.pinned_leaf_chunks = P
      /\ v.free = F /\ v.type = q.type /\ v.in_eviction = q.in_eviction
      /\ v.list_state = q.list_state /\ v.used = q.used /\ v.unused = q.unused
  BY DEF PmmType, v
<1>7. ListsInjective(v)
  BY <1>6 DEF ListsInjective
<1>8. Relisted(v, l, r) /\ linked(l, r) /\ l.list_state[r] = "EVICTION"
  BY <1>5, <1>7, RootDeleted
<1>9. Relisted(v, v, r)
  BY <1>5, <1>7 DEF Relisted, SameChunks
<1>10. root_chunk(r) \notin cs => (linked(q, r) => linked(v, r))
  BY <1>4, <1>6, ChunkFacts DEF linked
<1> HIDE DEF l
<1>11. /\ Relisted(v, u, r) /\ (linked(q, r) => linked(u, r))
       /\ u.list_state[r] = IF q.state[root_chunk(r)] = "FREE" THEN "EVICTION" ELSE q.list_state[r]
  BY <1>0, <1>6, <1>8, <1>9, <1>10
<1> HIDE DEF u
<1>12. /\ \A e \in Chunk : e # root_chunk(r) => (e \in u.free <=> e \in q.free /\ e \notin cs)
       /\ \A e \in Chunk : u.state[e] = IF e \in cs THEN "TEMP_PINNED" ELSE q.state[e]
       /\ u.va_block = q.va_block /\ u.type = q.type /\ u.in_eviction = q.in_eviction
       /\ \A s \in Root : u.allocated[s] = IF s = r THEN q.allocated[r] + n ELSE q.allocated[s]
       /\ \A s \in Root : u.pinned_leaf_chunks[s] = IF s = r THEN q.pinned_leaf_chunks[r] + n
                                                    ELSE q.pinned_leaf_chunks[s]
  BY <1>4, <1>6, <1>11 DEF Relisted, SameChunks
<1>13. Frame(q, u, r)
  <2>1. \A e \in Chunk : e[1] # r => e # root_chunk(r) /\ e \notin cs
    BY <1>0, ChunkFacts
  <2>2. /\ u \in PmmType /\ ListsInjective(u)
        /\ \A s \in Root \ {r} : /\ u.list_state[s] = q.list_state[s]
                                 /\ s \in ToSet(u.used) <=> s \in ToSet(q.used)
                                 /\ s \in ToSet(u.unused) <=> s \in ToSet(q.unused)
    BY <1>6, <1>11 DEF Relisted
  <2> QED BY <1>12, <2>1, <2>2 DEF Frame
<1> QED BY <1>2, <1>11, <1>12, <1>13 DEF cs, n

(* mark_chunks_evicted.                                                    *)
LEMMA MarkedEvicted ==
  ASSUME NEW q \in PmmType, ListsInjective(q), NEW r \in Root, NEW cs
  PROVE  LET u == mark_chunks_evicted(q, r, cs)
         IN  /\ (cs \subseteq family(r) => Frame(q, u, r)) /\ SameLists(q, u) /\ u.free = q.free
             /\ \A e \in Chunk : u.state[e] = IF e \in cs THEN "TEMP_PINNED" ELSE q.state[e]
             /\ \A e \in Chunk : u.va_block[e] = IF e \in cs THEN NoBlock ELSE q.va_block[e]
             /\ u.type = q.type /\ u.in_eviction = q.in_eviction /\ u.allocated = q.allocated
             /\ u.pinned_leaf_chunks[r] = q.pinned_leaf_chunks[r] + Cardinality(cs \cap subchunks(r))
<1> DEFINE n == Cardinality(cs \cap subchunks(r))
           S == [e \in Chunk |-> IF e \in cs THEN "TEMP_PINNED" ELSE q.state[e]]
           V == [e \in Chunk |-> IF e \in cs THEN NoBlock ELSE q.va_block[e]]
           P == [q.pinned_leaf_chunks EXCEPT ![r] = q.pinned_leaf_chunks[r] + n]
           u == [q EXCEPT !.state = S, !.va_block = V, !.pinned_leaf_chunks = P]
<1>1. n \in Nat
  <2>1. cs \cap subchunks(r) \in SUBSET subchunks(r)
    OBVIOUS
  <2> QED BY <2>1, SomeSubchunks
<1>2. mark_chunks_evicted(q, r, cs) = u
  <2>3. PICK k : k = [q EXCEPT !.va_block = V]
    OBVIOUS
  <2>4. k.state = q.state /\ k.pinned_leaf_chunks = q.pinned_leaf_chunks
    BY <2>3 DEF PmmType
  <2>5. chunks_pin(k, r, cs) = [k EXCEPT !.state = S, !.pinned_leaf_chunks = P]
    BY <2>4 DEF chunks_pin
  <2>6. [k EXCEPT !.state = S, !.pinned_leaf_chunks = P] = u
    <3> HIDE DEF S, V, P
    <3> QED BY <2>3 DEF PmmType
  <2> HIDE DEF u
  <2> QED BY <2>3, <2>5, <2>6 DEF mark_chunks_evicted
<1> HIDE DEF n
<1>3. S \in [Chunk -> ChunkStates] /\ V \in [Chunk -> Block \cup {NoBlock}] /\ P \in [Root -> Int]
  BY <1>1, Fields DEF ChunkStates
<1>4. /\ \A e \in Chunk : S[e] = IF e \in cs THEN "TEMP_PINNED" ELSE q.state[e]
      /\ \A e \in Chunk : V[e] = IF e \in cs THEN NoBlock ELSE q.va_block[e]
      /\ \A s \in Root : P[s] = IF s = r THEN q.pinned_leaf_chunks[r] + n ELSE q.pinned_leaf_chunks[s]
  BY Fields
<1> HIDE DEF S, V, P, u
<1>5. u \in PmmType
  BY <1>3 DEF PmmType, u
<1>6. /\ u.state = S /\ u.va_block = V /\ u.allocated = q.allocated /\ u.pinned_leaf_chunks = P
      /\ u.free = q.free /\ u.type = q.type /\ u.in_eviction = q.in_eviction
      /\ u.list_state = q.list_state /\ u.used = q.used /\ u.unused = q.unused
  BY DEF PmmType, u
<1>7. SameLists(q, u)
  BY <1>5, <1>6 DEF ListsInjective, SameLists
<1>8. ASSUME cs \subseteq family(r) PROVE Frame(q, u, r)
  <2>1. \A e \in Chunk : e[1] # r => e \notin cs
    BY <1>8, FamilyFacts
  <2>2. \A s \in Root \ {r} : u.pinned_leaf_chunks[s] = q.pinned_leaf_chunks[s]
    BY <1>4, <1>6
  <2>3. \A e \in Chunk : e[1] # r => u.state[e] = q.state[e] /\ u.va_block[e] = q.va_block[e]
    BY <1>4, <1>6, <2>1
  <2> QED BY <1>6, <1>7, <2>2, <2>3 DEF Frame, SameLists
<1> QED BY <1>2, <1>4, <1>6, <1>7, <1>8 DEF n

(* The end of an eviction.                                                 *)
LEMMA EvictMerged ==
  ASSUME NEW q \in PmmType, ListsInjective(q), NEW r \in Root
  PROVE  LET u == evict_merge(q, r)
             m == IF q.state[root_chunk(r)] = "IS_SPLIT" THEN q.state[<<r, 1>>] ELSE q.state[root_chunk(r)]
         IN  /\ Frame(q, u, r) /\ SameLists(q, u) /\ u.free = q.free
             /\ u.state[root_chunk(r)] = m
             /\ \A e \in subchunks(r) : u.state[e] = IF q.state[root_chunk(r)] = "IS_SPLIT"
                                                     THEN "NO_CHUNK" ELSE q.state[e]
             /\ u.type = q.type /\ ~u.in_eviction[r]
<1> DEFINE k == IF q.state[root_chunk(r)] = "IS_SPLIT" THEN merge_gpu_chunk(q, r) ELSE q
           u == [k EXCEPT !.in_eviction[r] = FALSE]
<1>1. evict_merge(q, r) = u
  BY DEF evict_merge
<1>2. /\ Frame(q, k, r) /\ SameLists(q, k) /\ k.free = q.free /\ k.type = q.type
      /\ k.state[root_chunk(r)] =
           IF q.state[root_chunk(r)] = "IS_SPLIT" THEN q.state[<<r, 1>>] ELSE q.state[root_chunk(r)]
      /\ \A e \in subchunks(r) : k.state[e] = IF q.state[root_chunk(r)] = "IS_SPLIT"
                                              THEN "NO_CHUNK" ELSE q.state[e]
  <2>1. CASE q.state[root_chunk(r)] = "IS_SPLIT"
    <3>1. k = merge_gpu_chunk(q, r)
      BY <2>1
    <3> HIDE DEF k
    <3>2. /\ SameLists(q, k) /\ k.free = q.free
          /\ \A e \in Chunk : k.state[e] = IF e = root_chunk(r) THEN q.state[<<r, 1>>]
                                           ELSE IF e[1] = r THEN "NO_CHUNK" ELSE q.state[e]
          /\ \A e \in Chunk : e[1] # r => k.va_block[e] = q.va_block[e]
          /\ k.type = q.type /\ k.in_eviction = q.in_eviction
          /\ \A s \in Root : k.allocated[s] = IF s # r THEN q.allocated[s] ELSE 0
          /\ \A s \in Root : k.pinned_leaf_chunks[s] = IF s # r THEN q.pinned_leaf_chunks[s] ELSE 0
      BY <3>1, ChunkMerged
    <3>3. \A e \in Chunk : e[1] # r => e # root_chunk(r)
      BY ChunkFacts
    <3>4. Frame(q, k, r)
      BY <3>2, <3>3 DEF Frame, SameLists
    <3> QED BY <2>1, <3>2, <3>4, ChunkFacts
  <2>2. CASE q.state[root_chunk(r)] # "IS_SPLIT"
    <3>1. k = q
      BY <2>2
    <3> QED BY <2>2, <3>1 DEF Frame, SameLists
  <2> QED BY <2>1, <2>2
<1> HIDE DEF k
<1>3. k \in PmmType /\ ListsInjective(k)
  BY <1>2 DEF SameLists
<1>4. /\ SameLists(k, u) /\ u.free = k.free /\ u.state = k.state
      /\ u.va_block = k.va_block /\ u.pinned_leaf_chunks = k.pinned_leaf_chunks
      /\ u.type = k.type /\ u.allocated = k.allocated
      /\ \A s \in Root : u.in_eviction[s] = IF s = r THEN FALSE ELSE k.in_eviction[s]
  BY <1>3, EvictionSet
<1> HIDE DEF u
<1>5. Frame(k, u, r)
  BY <1>4 DEF Frame, SameLists
<1>6. Frame(q, u, r)
  BY <1>2, <1>5, FrameTwice
<1>7. SameLists(q, u) /\ u.free = q.free /\ u.type = q.type /\ ~u.in_eviction[r]
  BY <1>2, <1>4 DEF SameLists
<1> QED BY <1>1, <1>2, <1>4, <1>6, <1>7

(* The first critical section of an aborted eviction.                      *)
LEMMA EvictionAborted ==
  ASSUME NEW q \in PmmType, ListsInjective(q), NEW r \in Root, NEW d
  PROVE  Frame(q, evict_abort(q, r, d), r)
<1> DEFINE k == [q EXCEPT !.in_eviction[r] = FALSE]
           u == chunk_update_lists_locked(k, root_chunk(r), d)
<1>1. evict_abort(q, r, d) = u
  BY DEF evict_abort
<1>2. /\ SameLists(q, k) /\ k.free = q.free /\ k.state = q.state
      /\ k.va_block = q.va_block /\ k.pinned_leaf_chunks = q.pinned_leaf_chunks
      /\ k.type = q.type /\ k.allocated = q.allocated
      /\ \A s \in Root : k.in_eviction[s] = IF s = r THEN FALSE ELSE q.in_eviction[s]
  BY EvictionSet
<1> HIDE DEF k
<1>3. k \in PmmType /\ ListsInjective(k) /\ Frame(q, k, r)
  BY <1>2 DEF SameLists, Frame
<1>4. PICK c \in Chunk : c = root_chunk(r) /\ c[1] = r
  BY ChunkFacts
<1>5. u = chunk_update_lists_locked(k, c, d)
  BY <1>4
<1> HIDE DEF u
<1>6. Updated(k, u, c) /\ SameChunks(k, u)
  BY <1>3, <1>5, UpdateLists
<1>7. Frame(k, u, c[1])
  BY <1>6, FrameUpdated
<1>8. Frame(k, u, r)
  BY <1>4, <1>7
<1> QED BY <1>1, <1>3, <1>8, FrameTwice

(* root_chunk_update_eviction_list.                                        *)
LEMMA MarkedUsed ==
  ASSUME NEW q \in PmmType, ListsInjective(q), NEW r \in Root, NEW used \in BOOLEAN, NEW d
  PROVE  LET u == root_chunk_update_eviction_list(q, r, used, d)
         IN  /\ Relisted(q, u, r) /\ (linked(q, r) => linked(u, r))
             /\ \/ u = q
                \/ ~chunk_is_root_chunk_pinned(q, r) /\ ~q.in_eviction[r] /\ Listed(u, r)
<1> DEFINE k == IF used THEN bpf_call_gpu_block_access(q, r, d) ELSE q
           list == IF used THEN "used" ELSE "unused"
           w == IF used THEN "VA_BLOCK_USED" ELSE "VA_BLOCK_UNUSED"
           v == root_list_update_locked(k, root_chunk(r), list, w, "MOVE_TAIL")
           u == root_chunk_update_eviction_list(q, r, used, d)
           skip == chunk_is_root_chunk_pinned(q, r) \/ q.in_eviction[r]
<1>0. Relisted(q, q, r)
  BY DEF Relisted, SameChunks
<1>1. \/ skip /\ u = q
      \/ ~skip /\ u = v
      \/ ~skip /\ u = k
  BY DEF root_chunk_update_eviction_list
<1>2. Reordered(q, k, r)
  <2>1. Reordered(q, q, r)
    BY DEF Reordered
  <2>2. Reordered(q, bpf_call_gpu_block_access(q, r, d), r)
    BY HookReorders
  <2> QED BY <2>1, <2>2
<1> HIDE DEF k
<1>3. Relisted(q, k, r) /\ (linked(q, r) => linked(k, r)) /\ (k = q \/ Listed(k, r))
  BY <1>0, <1>2 DEF Reordered
<1>4. k \in PmmType /\ ListsInjective(k)
  BY <1>3 DEF Relisted
<1>5. list \in {"used", "unused", "free"} /\ w = ListOf(list) /\ w \in {"VA_BLOCK_USED", "VA_BLOCK_UNUSED"}
  BY DEF ListOf
<1> HIDE DEF list, w
<1>6. Relisted(k, v, r) /\ linked(v, r) /\ v.list_state[r] = w
  BY <1>4, <1>5, RootMoved
<1> HIDE DEF v
<1>7. Relisted(q, v, r)
  BY <1>3, <1>6, RelistedTwice
<1>8. Listed(v, r)
  BY <1>5, <1>6 DEF Listed
<1> HIDE DEF u
<1> QED BY <1>0, <1>1, <1>3, <1>6, <1>7, <1>8 DEF u

(* free_next_available_root_chunk takes a free root chunk.                 *)
LEMMA RootTaken ==
  ASSUME NEW q \in PmmType, ListsInjective(q), NEW r \in Root
  PROVE  LET u == chunk_pin(root_list_update_locked(q, root_chunk(r), "none", "NONE", "DEL_INIT"),
                            root_chunk(r))
         IN  /\ Frame(q, u, r) /\ linked(u, r) /\ u.list_state[r] = "NONE"
             /\ \A e \in Chunk : e # root_chunk(r) => (e \in u.free <=> e \in q.free)
             /\ \A e \in Chunk : u.state[e] = IF e = root_chunk(r) THEN "TEMP_PINNED" ELSE q.state[e]
             /\ u.va_block = q.va_block /\ u.type = q.type /\ u.in_eviction = q.in_eviction
             /\ u.allocated = q.allocated /\ u.pinned_leaf_chunks[r] = q.pinned_leaf_chunks[r]
<1> DEFINE l == root_list_update_locked(q, root_chunk(r), "none", "NONE", "DEL_INIT")
           u == chunk_pin(l, root_chunk(r))
<1>1. Relisted(q, l, r) /\ linked(l, r) /\ l.list_state[r] = "NONE"
  BY RootDeleted
<1> HIDE DEF l
<1>2. l \in PmmType /\ ListsInjective(l) /\ SameChunks(q, l)
  BY <1>1 DEF Relisted
<1>3. PICK c \in Chunk : c = root_chunk(r) /\ c[1] = r
  BY ChunkFacts
<1>4. u = chunk_pin(l, c)
  BY <1>3
<1> HIDE DEF u
<1>5. /\ SameLists(l, u) /\ u.free = l.free
      /\ \A e \in Chunk : u.state[e] = IF e = c THEN "TEMP_PINNED" ELSE l.state[e]
      /\ u.va_block = l.va_block /\ u.type = l.type /\ u.allocated = l.allocated
      /\ \A s \in Root : u.pinned_leaf_chunks[s] =
           IF s # c[1] THEN l.pinned_leaf_chunks[s]
           ELSE IF c = root_chunk(c[1]) THEN l.pinned_leaf_chunks[c[1]]
           ELSE l.pinned_leaf_chunks[c[1]] + 1
      /\ u.in_eviction = l.in_eviction
  BY <1>2, <1>4, ChunkPinned
<1>6. /\ \A e \in Chunk : u.state[e] = IF e = root_chunk(r) THEN "TEMP_PINNED" ELSE q.state[e]
      /\ u.va_block = q.va_block /\ u.type = q.type /\ u.in_eviction = q.in_eviction
      /\ u.allocated = q.allocated
      /\ \A s \in Root : u.pinned_leaf_chunks[s] = q.pinned_leaf_chunks[s]
  BY <1>2, <1>3, <1>5 DEF SameChunks
<1>7. /\ linked(u, r) /\ u.list_state[r] = "NONE"
      /\ \A e \in Chunk : e # root_chunk(r) => (e \in u.free <=> e \in q.free)
      /\ \A s \in Root \ {r} : /\ u.list_state[s] = q.list_state[s]
                               /\ s \in ToSet(u.used) <=> s \in ToSet(q.used)
                               /\ s \in ToSet(u.unused) <=> s \in ToSet(q.unused)
  BY <1>1, <1>5 DEF linked, Relisted, SameLists
<1>8. Frame(q, u, r)
  <2>1. \A e \in Chunk : e[1] # r => e # root_chunk(r)
    BY ChunkFacts
  <2> QED BY <1>5, <1>6, <1>7, <2>1 DEF Frame, SameLists
<1> QED BY <1>6, <1>7, <1>8 DEF u, l

(* claim_free_chunk: q is p after the chunks s that are in eviction were   *)
(* unlinked, and u after c was claimed.                                    *)
Stale(m, size) == {c \in free_list(m, size) : p.in_eviction[c[1]]}

skipping(s) == [p EXCEPT !.free = p.free \ s]

LEMMA Skipped ==
  ASSUME p \in PmmType, ListsInjective(p), NEW s
  PROVE  LET q == skipping(s)
         IN  /\ SameLists(p, q) /\ q.free = p.free \ s /\ q.state = p.state
             /\ q.va_block = p.va_block /\ q.pinned_leaf_chunks = p.pinned_leaf_chunks
             /\ q.type = p.type /\ q.allocated = p.allocated /\ q.in_eviction = p.in_eviction
<1>1. PICK f \in SUBSET Chunk : f = p.free \ s
  BY Fields
<1>2. skipping(s) = [p EXCEPT !.free = f]
  BY <1>1 DEF skipping
<1> QED BY <1>1, <1>2, FreeSet

LEMMA ClaimCases ==
  ASSUME NEW m, NEW size, NEW o \in claims(m, size)
  PROVE  \/ /\ o[2] = NoChunk
            /\ o[1] = skipping(Stale(m, size))
         \/ \E s \in SUBSET Stale(m, size), c \in free_list(m, size) \ Stale(m, size) :
              /\ o[2] = c
              /\ o[1] = claim(skipping(s), c, no_decision)
<1> DEFINE list == free_list(m, size)
           stale == {c \in list : p.in_eviction[c[1]]}
           found == {<<claim([p EXCEPT !.free = p.free \ s], c, no_decision), c>> :
                       s \in SUBSET stale, c \in list \ stale}
           none == {<<[p EXCEPT !.free = p.free \ stale], NoChunk>>}
<1>0. claims(m, size) = IF list = stale THEN none
                       ELSE IF "elevated" \in Faults THEN found \cup none ELSE found
  BY DEF claims
<1>2. stale = Stale(m, size)
  BY DEF Stale
<1>3. CASE o \in none
  <2>1. o[2] = NoChunk /\ o[1] = [p EXCEPT !.free = p.free \ stale]
    BY <1>3
  <2> QED BY <1>2, <2>1 DEF skipping
<1>4. CASE o \in found
  <2>1. PICK s \in SUBSET stale, c \in list \ stale :
          o = <<claim([p EXCEPT !.free = p.free \ s], c, no_decision), c>>
    BY <1>4
  <2> QED BY <1>2, <2>1 DEF skipping
<1> HIDE DEF found, none, stale, list
<1>5. o \in found \/ o \in none
  BY <1>0
<1> QED BY <1>3, <1>4, <1>5

LEMMA FreeListed ==
  ASSUME p \in PmmType, NEW m, NEW size, NEW c \in free_list(m, size)
  PROVE  /\ c \in Chunk /\ c \in p.free /\ p.type[c[1]] = m
         /\ c = root_chunk(c[1]) <=> size = "root"
<1>1. c \in p.free /\ p.type[c[1]] = m /\ (chunk_is_root_chunk(c) <=> size = "root")
  BY DEF free_list
<1>2. c \in Chunk
  BY <1>1, Fields
<1> QED BY <1>1, <1>2, RootTest

-----------------------------------------------------------------------------
(* The control flow of a thread.                                           *)

RootSteps == {"lock_range", "pin_free", "find", "va_block", "relock", "relock_error", "merge",
              "pma_pin", "set_type", "pages_check", "free_root", "pma_free", "pages_next",
              "abort", "abort_walk"}

ChunkSteps == {"done", "split", "free", "lock_free", "free_locked", "merge_locked"}

AllocSteps == {"claim", "lock_split", "claim_again", "claim_bigger", "pma_alloc", "init", "split",
               "lock_evict", "done"}

RangeSteps == {"flush", "spin", "lock_range", "range_error", "range_ok"}

PageSteps == {"lock_pages", "pages_check", "pages_next", "pages_error"}

(* The steps of evict_root_chunk, which allocations and the two callbacks  *)
(* share.                                                                  *)
EvictSteps == {"pick", "pin_free", "find", "va_block", "relock", "relock_error", "merge", "pma_pin",
               "set_type", "abort", "abort_walk", "abort_next"}

(* free_chunk for its own sake, or of a chunk whose tracker could not be   *)
(* kept.                                                                   *)
Frees(x) == x.op \in {"free", "release"} /\ x.ret \in {"idle", "evict_again"}

(* The operation that each step belongs to, and where it returns to.       *)
Course(x) ==
  CASE x.pc = "idle" -> x = idle
    [] x.pc \in AllocSteps \cup {"alloc_error"} -> x.op = "alloc" /\ x.ret = "idle"
    [] x.pc = "evict_again" ->
         x.op \in {"alloc", "free", "release"} /\ x.ret \in {"idle", "evict_again"}
    [] x.pc \in RangeSteps -> x.op = "range" /\ x.ret = "idle"
    [] x.pc \in PageSteps -> x.op = "pages" /\ x.ret = "idle"
    [] x.pc \in EvictSteps \ {"abort_next"} -> x.op \in {"alloc", "range", "pages"} /\ x.ret = "idle"
    [] x.pc = "abort_next" -> \/ x.op = "alloc" /\ x.ret = "alloc_error"
                              \/ x.op = "range" /\ x.ret = "range_error"
                              \/ x.op = "pages" /\ x.ret = "pages_error"
    [] x.pc = "in_place_split" -> x.op = "split"
    [] x.pc \in {"free", "lock_free"} -> Frees(x)
    [] x.pc = "merge_locked" -> \/ Frees(x)
                                \/ x.op \in {"alloc", "range", "pages"} /\ x.ret = "abort_walk"
    [] x.pc = "free_locked" -> \/ Frees(x)
                               \/ x.op = "alloc" /\ x.ret = "alloc_error" /\ x.c[2] = 0
                               \/ x.op \in {"alloc", "range", "pages"} /\ x.ret = "abort_walk"
    [] x.pc = "next" -> \/ Frees(x)
                        \/ x.op = "alloc" /\ x.ret = "evict_again"
    [] OTHER -> \/ Frees(x)
                \/ x.op = "alloc" /\ x.ret \in {"evict_again", "pick", "alloc_error"}
                \/ x.op = "range" /\ x.ret \in {"spin", "range_error"}
                \/ x.op = "pages" /\ x.ret \in {"pick", "pages_next", "pages_error"}

(* The local variables that a step relies on.                              *)
Locals(x) ==
  /\ x.pc \in ChunkSteps => x.c \in Chunk
  /\ x.pc \in {"claim_bigger", "pma_alloc"} => x.c = NoChunk
  /\ x.pc = "init" => x.batch # {} /\ (x.c # NoChunk => x.c[2] = 0)
  /\ x.pc = "split" => x.c[2] = 0
  /\ x.pc = "merge_locked" => x.c[2] # 0
  /\ x.pc \in RootSteps \/ x.ret = "abort_walk" => x.r \in Root
  /\ x.op = "pages" => x.n # 0
  /\ x.op = "range" => x.lo .. x.hi \subseteq Root
  /\ x.pc = "lock_range" => x.r \in Root

FlowOf(t, x) ==
  /\ Course(x) /\ Locals(x)
  /\ x.op \in {"range", "pages"} <=> (t = PThread /\ x.pc # "idle")
  /\ x.op = "split" => t \in Block
  /\ x.pc \in {"pma_pin", "set_type"} => t \notin Block /\ x.op # "range"

Flow(t) == FlowOf(t, th[t])

TypeInv == TypeOK /\ ListsInjective(p) /\ \A t \in Thread : Flow(t)

(* The variables that are neither chunk state nor threads.                 *)
RestTyped ==
  /\ lock \in Thread \cup {NoThread} /\ readers \subseteq Thread
  /\ pma \in [Root -> {"free", "unpinned", "pinned", "rm"}] /\ evicting \subseteq Root
  /\ chunks \in [Block -> SUBSET Chunk] /\ used_chunks \in [Block -> SUBSET Chunk]
  /\ free_chunks \in [Block -> SUBSET Chunk] /\ kchunks \subseteq Chunk

(* Only thread t moves.                                                    *)
Moved(t) == \A u \in Thread \ {t} : th'[u] = th[u]

LEMMA Threads ==
  /\ KThread \in Thread /\ PThread \in Thread /\ Block \subseteq Thread
  /\ KThread \notin Block /\ PThread \notin Block /\ KThread # PThread /\ NoThread \notin Thread
  /\ NoChunk \notin Chunk /\ NoRoot \notin Root
BY ThreadAssumption DEF Thread

LEMMA ThreadTyped ==
  ASSUME TypeInv, NEW t \in Thread
  PROVE  th[t] \in Local /\ FlowOf(t, th[t])
BY DEF TypeInv, TypeOK, Flow

LEMMA StateTyped ==
  ASSUME TypeInv
  PROVE  p \in PmmType /\ ListsInjective(p) /\ RestTyped
BY DEF TypeInv, TypeOK, RestTyped

LEMMA StepTyped ==
  ASSUME TypeInv, NEW t \in Thread, NEW x \in Local, FlowOf(t, x), becomes(t, x),
         p' \in PmmType, ListsInjective(p)', RestTyped'
  PROVE  TypeInv' /\ Moved(t) /\ th'[t] = x
<1>1. th \in [Thread -> Local] /\ \A u \in Thread : FlowOf(u, th[u])
  BY DEF TypeInv, TypeOK, Flow
<1>2. th' = [th EXCEPT ![t] = x]
  BY DEF becomes
<1>3. /\ th' \in [Thread -> Local] /\ th'[t] = x
      /\ \A u \in Thread \ {t} : th'[u] = th[u]
  BY <1>1, <1>2
<1>4. \A u \in Thread : FlowOf(u, th'[u])
  BY <1>1, <1>3
<1>5. TypeOK'
  BY <1>3 DEF TypeOK, RestTyped
<1> QED BY <1>3, <1>4, <1>5 DEF TypeInv, Flow, Moved

(* The fields of a record other than pc.                                   *)
SameLocals(x, y) ==
  /\ x.op = y.op /\ x.size = y.size /\ x.evict = y.evict /\ x.c = y.c /\ x.r = y.r /\ x.va = y.va
  /\ x.ret = y.ret /\ x.i = y.i /\ x.batch = y.batch /\ x.lo = y.lo /\ x.hi = y.hi /\ x.n = y.n

LEMMA GotoTyped ==
  ASSUME NEW y \in Local, NEW pc \in Steps
  PROVE  LET x == [y EXCEPT !.pc = pc]
         IN  x \in Local /\ x.pc = pc /\ SameLocals(x, y)
BY DEF Local, SameLocals

Unchanged == UNCHANGED <<p, pma_vars, clients>>

LEMMA RestUnchanged ==
  ASSUME TypeInv, UNCHANGED <<pma_vars, clients>>, lock' \in Thread \cup {NoThread}
  PROVE  RestTyped'
BY DEF TypeInv, TypeOK, RestTyped, pma_vars, clients

(* A step that takes or leaves the lock and changes nothing else.          *)
LEMMA GotoStep ==
  ASSUME TypeInv, NEW t \in Thread, NEW pc \in Steps, goto(t, pc), Unchanged,
         lock' \in Thread \cup {NoThread},
         \A x \in Local : x.pc = pc /\ SameLocals(x, th[t]) => FlowOf(t, x)
  PROVE  TypeInv' /\ Moved(t) /\ th'[t].pc = pc /\ SameLocals(th'[t], th[t])
<1> DEFINE y == th[t]
           x == [y EXCEPT !.pc = pc]
<1>1. y \in Local
  BY ThreadTyped
<1>2. becomes(t, x)
  BY DEF goto
<1> HIDE DEF y
<1>3. x \in Local /\ x.pc = pc /\ SameLocals(x, y)
  BY <1>1, GotoTyped
<1> HIDE DEF x
<1>4. FlowOf(t, x)
  BY <1>3 DEF y
<1>5. p' \in PmmType /\ ListsInjective(p)' /\ RestTyped'
  BY StateTyped, RestUnchanged DEF Unchanged, ListsInjective
<1> QED BY <1>2, <1>3, <1>4, <1>5, StepTyped DEF y

LEMMA LockSplitStep ==
  ASSUME TypeInv, NEW t \in Thread, LockSplit(t)
  PROVE  /\ TypeInv' /\ Moved(t) /\ SameLocals(th'[t], th[t])
         /\ th'[t].pc = "claim_again"
<1> DEFINE y == th[t]
           pc == "claim_again"
<1>1. y \in Local /\ FlowOf(t, y)
  BY ThreadTyped
<1>2. y.pc = "lock_split" /\ goto(t, pc) /\ Unchanged
  BY DEF LockSplit, at, acquire, Unchanged
<1>3. lock' \in Thread \cup {NoThread}
  BY StateTyped DEF LockSplit, acquire, RestTyped
<1>4. pc \in {"claim_again"} /\ pc \in Steps
  BY <1>2 DEF Steps
<1>5. \A x \in Local : x.pc = pc /\ SameLocals(x, y) => FlowOf(t, x)
  <2> HIDE DEF y
  <2> QED BY <1>1, <1>2, <1>4 DEF FlowOf, Course, Frees, Locals, SameLocals, AllocSteps, RangeSteps, PageSteps,
                            EvictSteps, RootSteps, ChunkSteps, idle
<1> HIDE DEF pc
<1>6. TypeInv' /\ Moved(t) /\ th'[t].pc = pc /\ SameLocals(th'[t], th[t])
  BY <1>2, <1>3, <1>4, <1>5, GotoStep
<1> QED BY <1>2, <1>4, <1>6 DEF pc

LEMMA PmaAllocFailsStep ==
  ASSUME TypeInv, NEW t \in Thread, PmaAllocFails(t)
  PROVE  /\ TypeInv' /\ Moved(t) /\ SameLocals(th'[t], th[t])
         /\ th'[t].pc \in {"alloc_error", "lock_evict", "pick"}
         /\ (th'[t].pc = "pick" => th[t].size # "root")
<1> DEFINE y == th[t]
           pc == IF ~th[t].evict THEN "alloc_error" ELSE IF th[t].size = "root" THEN "lock_evict" ELSE "pick"
<1>1. y \in Local /\ FlowOf(t, y)
  BY ThreadTyped
<1>2. y.pc = "pma_alloc" /\ goto(t, pc) /\ Unchanged
  BY DEF PmaAllocFails, at, acquire, Unchanged
<1>3. lock' \in Thread \cup {NoThread}
  BY StateTyped DEF PmaAllocFails, acquire, RestTyped
<1>4. pc \in {"alloc_error", "lock_evict", "pick"} /\ pc \in Steps
  BY <1>2 DEF Steps
<1>5. \A x \in Local : x.pc = pc /\ SameLocals(x, y) => FlowOf(t, x)
  <2> HIDE DEF y, pc
  <2> QED BY <1>1, <1>2, <1>4 DEF FlowOf, Course, Frees, Locals, SameLocals, AllocSteps, RangeSteps, PageSteps,
                            EvictSteps, RootSteps, ChunkSteps, idle
<1> HIDE DEF pc
<1>6. TypeInv' /\ Moved(t) /\ th'[t].pc = pc /\ SameLocals(th'[t], th[t])
  BY <1>2, <1>3, <1>4, <1>5, GotoStep
<1> QED BY <1>2, <1>4, <1>6 DEF pc

LEMMA LockEvictStep ==
  ASSUME TypeInv, NEW t \in Thread, LockEvict(t)
  PROVE  /\ TypeInv' /\ Moved(t) /\ SameLocals(th'[t], th[t])
         /\ th'[t].pc = "pick"
<1> DEFINE y == th[t]
           pc == "pick"
<1>1. y \in Local /\ FlowOf(t, y)
  BY ThreadTyped
<1>2. y.pc \in {"lock_evict", "lock_pages"} /\ goto(t, pc) /\ Unchanged
  BY DEF LockEvict, at, acquire, Unchanged
<1>3. lock' \in Thread \cup {NoThread}
  BY StateTyped DEF LockEvict, acquire, RestTyped
<1>4. pc \in {"pick"} /\ pc \in Steps
  BY <1>2 DEF Steps
<1>5. \A x \in Local : x.pc = pc /\ SameLocals(x, y) => FlowOf(t, x)
  <2> HIDE DEF y
  <2> QED BY <1>1, <1>2, <1>4 DEF FlowOf, Course, Frees, Locals, SameLocals, AllocSteps, RangeSteps, PageSteps,
                            EvictSteps, RootSteps, ChunkSteps, idle
<1> HIDE DEF pc
<1>6. TypeInv' /\ Moved(t) /\ th'[t].pc = pc /\ SameLocals(th'[t], th[t])
  BY <1>2, <1>3, <1>4, <1>5, GotoStep
<1> QED BY <1>2, <1>4, <1>6 DEF pc

LEMMA PickNoneStep ==
  ASSUME TypeInv, NEW t \in Thread, PickNone(t)
  PROVE  /\ TypeInv' /\ Moved(t) /\ SameLocals(th'[t], th[t])
         /\ th'[t].pc \in {"alloc_error", "range_error", "pages_error"}
<1> DEFINE y == th[t]
           pc == failed_step(t)
<1>1. y \in Local /\ FlowOf(t, y)
  BY ThreadTyped
<1>2. y.pc = "pick" /\ goto(t, pc) /\ Unchanged
  BY DEF PickNone, at, acquire, Unchanged
<1>3. lock' \in Thread \cup {NoThread}
  BY StateTyped DEF PickNone, acquire, RestTyped
<1>4. pc \in {"alloc_error", "range_error", "pages_error"} /\ pc \in Steps
  BY <1>2 DEF Steps, failed_step
<1>5. \A x \in Local : x.pc = pc /\ SameLocals(x, y) => FlowOf(t, x)
  <2> QED BY <1>1, <1>2, <1>4 DEF FlowOf, Course, Frees, Locals, SameLocals, AllocSteps, RangeSteps, PageSteps,
                            EvictSteps, RootSteps, ChunkSteps, idle, failed_step
<1> HIDE DEF pc
<1>6. TypeInv' /\ Moved(t) /\ th'[t].pc = pc /\ SameLocals(th'[t], th[t])
  BY <1>2, <1>3, <1>4, <1>5, GotoStep
<1> QED BY <1>2, <1>4, <1>6 DEF pc

LEMMA FindNoneStep ==
  ASSUME TypeInv, NEW t \in Thread, FindNone(t)
  PROVE  /\ TypeInv' /\ Moved(t) /\ SameLocals(th'[t], th[t])
         /\ th'[t].pc = "merge"
<1> DEFINE y == th[t]
           pc == "merge"
<1>1. y \in Local /\ FlowOf(t, y)
  BY ThreadTyped
<1>2. y.pc = "find" /\ goto(t, pc) /\ Unchanged
  BY DEF FindNone, at, acquire, Unchanged
<1>3. lock' \in Thread \cup {NoThread}
  BY StateTyped DEF FindNone, acquire, RestTyped
<1>4. pc \in {"merge"} /\ pc \in Steps
  BY <1>2 DEF Steps
<1>5. \A x \in Local : x.pc = pc /\ SameLocals(x, y) => FlowOf(t, x)
  <2> HIDE DEF y
  <2> QED BY <1>1, <1>2, <1>4 DEF FlowOf, Course, Frees, Locals, SameLocals, AllocSteps, RangeSteps, PageSteps,
                            EvictSteps, RootSteps, ChunkSteps, idle
<1> HIDE DEF pc
<1>6. TypeInv' /\ Moved(t) /\ th'[t].pc = pc /\ SameLocals(th'[t], th[t])
  BY <1>2, <1>3, <1>4, <1>5, GotoStep
<1> QED BY <1>2, <1>4, <1>6 DEF pc

LEMMA RelockStep ==
  ASSUME TypeInv, NEW t \in Thread, Relock(t)
  PROVE  /\ TypeInv' /\ Moved(t) /\ SameLocals(th'[t], th[t])
         /\ th'[t].pc = IF th[t].pc = "relock" THEN "find" ELSE "abort"
<1> DEFINE y == th[t]
           pc == IF at(t, "relock") THEN "find" ELSE "abort"
<1>1. y \in Local /\ FlowOf(t, y)
  BY ThreadTyped
<1>2. y.pc \in {"relock", "relock_error"} /\ goto(t, pc) /\ Unchanged
  BY DEF Relock, at, acquire, Unchanged
<1>3. lock' \in Thread \cup {NoThread}
  BY StateTyped DEF Relock, acquire, RestTyped
<1>4. pc \in {"find", "abort"} /\ pc \in Steps
  BY <1>2 DEF Steps
<1>5. \A x \in Local : x.pc = pc /\ SameLocals(x, y) => FlowOf(t, x)
  <2> HIDE DEF y, pc
  <2> QED BY <1>1, <1>2, <1>4 DEF FlowOf, Course, Frees, Locals, SameLocals, AllocSteps, RangeSteps, PageSteps,
                            EvictSteps, RootSteps, ChunkSteps, idle
<1> HIDE DEF pc
<1>6. TypeInv' /\ Moved(t) /\ th'[t].pc = pc /\ SameLocals(th'[t], th[t])
  BY <1>2, <1>3, <1>4, <1>5, GotoStep
<1> QED BY <1>2, <1>4, <1>6 DEF pc, at

LEMMA TryFreeFailsStep ==
  ASSUME TypeInv, NEW t \in Thread, TryFreeFails(t)
  PROVE  /\ TypeInv' /\ Moved(t) /\ SameLocals(th'[t], th[t])
         /\ th'[t].pc = "lock_free"
<1> DEFINE y == th[t]
           pc == "lock_free"
<1>1. y \in Local /\ FlowOf(t, y)
  BY ThreadTyped
<1>2. y.pc = "free" /\ goto(t, pc) /\ Unchanged
  BY DEF TryFreeFails, at, acquire, Unchanged
<1>3. lock' \in Thread \cup {NoThread}
  BY StateTyped DEF TryFreeFails, acquire, RestTyped
<1>4. pc \in {"lock_free"} /\ pc \in Steps
  BY <1>2 DEF Steps
<1>5. \A x \in Local : x.pc = pc /\ SameLocals(x, y) => FlowOf(t, x)
  <2> HIDE DEF y
  <2> QED BY <1>1, <1>2, <1>4 DEF FlowOf, Course, Frees, Locals, SameLocals, AllocSteps, RangeSteps, PageSteps,
                            EvictSteps, RootSteps, ChunkSteps, idle
<1> HIDE DEF pc
<1>6. TypeInv' /\ Moved(t) /\ th'[t].pc = pc /\ SameLocals(th'[t], th[t])
  BY <1>2, <1>3, <1>4, <1>5, GotoStep
<1> QED BY <1>2, <1>4, <1>6 DEF pc

LEMMA LockFreeStep ==
  ASSUME TypeInv, NEW t \in Thread, LockFree(t)
  PROVE  /\ TypeInv' /\ Moved(t) /\ SameLocals(th'[t], th[t])
         /\ th'[t].pc = "free_locked"
<1> DEFINE y == th[t]
           pc == "free_locked"
<1>1. y \in Local /\ FlowOf(t, y)
  BY ThreadTyped
<1>2. y.pc = "lock_free" /\ goto(t, pc) /\ Unchanged
  BY DEF LockFree, at, acquire, Unchanged
<1>3. lock' \in Thread \cup {NoThread}
  BY StateTyped DEF LockFree, acquire, RestTyped
<1>4. pc \in {"free_locked"} /\ pc \in Steps
  BY <1>2 DEF Steps
<1>5. \A x \in Local : x.pc = pc /\ SameLocals(x, y) => FlowOf(t, x)
  <2> HIDE DEF y
  <2> QED BY <1>1, <1>2, <1>4 DEF FlowOf, Course, Frees, Locals, SameLocals, AllocSteps, RangeSteps, PageSteps,
                            EvictSteps, RootSteps, ChunkSteps, idle
<1> HIDE DEF pc
<1>6. TypeInv' /\ Moved(t) /\ th'[t].pc = pc /\ SameLocals(th'[t], th[t])
  BY <1>2, <1>3, <1>4, <1>5, GotoStep
<1> QED BY <1>2, <1>4, <1>6 DEF pc

LEMMA FlushStep ==
  ASSUME TypeInv, Flush
  PROVE  /\ TypeInv' /\ Moved(PThread) /\ SameLocals(th'[PThread], th[PThread])
         /\ th'[PThread].pc = "spin"
<1> DEFINE y == th[PThread]
           pc == "spin"
<1>0. PThread \in Thread
  BY Threads
<1>1. y \in Local /\ FlowOf(PThread, y)
  BY <1>0, ThreadTyped
<1>2. y.pc = "flush" /\ goto(PThread, pc) /\ Unchanged
  BY DEF Flush, at, acquire, Unchanged
<1>3. lock' \in Thread \cup {NoThread}
  BY <1>0, StateTyped DEF Flush, acquire, RestTyped
<1>4. pc \in {"spin"} /\ pc \in Steps
  BY <1>2 DEF Steps
<1>5. \A x \in Local : x.pc = pc /\ SameLocals(x, y) => FlowOf(PThread, x)
  <2> HIDE DEF y
  <2> QED BY <1>1, <1>2, <1>4 DEF FlowOf, Course, Frees, Locals, SameLocals, AllocSteps, RangeSteps, PageSteps,
                            EvictSteps, RootSteps, ChunkSteps, idle
<1> HIDE DEF pc
<1>6. TypeInv' /\ Moved(PThread) /\ th'[PThread].pc = pc /\ SameLocals(th'[PThread], th[PThread])
  BY <1>0, <1>2, <1>3, <1>4, <1>5, GotoStep
<1> QED BY <1>2, <1>4, <1>6 DEF pc

LEMMA LockRangeStep ==
  ASSUME TypeInv, LockRange
  PROVE  /\ TypeInv' /\ Moved(PThread) /\ SameLocals(th'[PThread], th[PThread])
         /\ th'[PThread].pc = "pin_free"
<1> DEFINE y == th[PThread]
           pc == "pin_free"
<1>0. PThread \in Thread
  BY Threads
<1>1. y \in Local /\ FlowOf(PThread, y)
  BY <1>0, ThreadTyped
<1>2. y.pc = "lock_range" /\ goto(PThread, pc) /\ Unchanged
  BY DEF LockRange, at, acquire, Unchanged
<1>3. lock' \in Thread \cup {NoThread}
  BY <1>0, StateTyped DEF LockRange, acquire, RestTyped
<1>4. pc \in {"pin_free"} /\ pc \in Steps
  BY <1>2 DEF Steps
<1>5. \A x \in Local : x.pc = pc /\ SameLocals(x, y) => FlowOf(PThread, x)
  <2> HIDE DEF y
  <2> QED BY <1>1, <1>2, <1>4 DEF FlowOf, Course, Frees, Locals, SameLocals, AllocSteps, RangeSteps, PageSteps,
                            EvictSteps, RootSteps, ChunkSteps, idle
<1> HIDE DEF pc
<1>6. TypeInv' /\ Moved(PThread) /\ th'[PThread].pc = pc /\ SameLocals(th'[PThread], th[PThread])
  BY <1>0, <1>2, <1>3, <1>4, <1>5, GotoStep
<1> QED BY <1>2, <1>4, <1>6 DEF pc

LEMMA FlushAgainStep ==
  ASSUME TypeInv, FlushAgain
  PROVE  /\ TypeInv' /\ Moved(PThread) /\ SameLocals(th'[PThread], th[PThread])
         /\ th'[PThread].pc = "range_ok"
<1> DEFINE y == th[PThread]
           pc == "range_ok"
<1>0. PThread \in Thread
  BY Threads
<1>1. y \in Local /\ FlowOf(PThread, y)
  BY <1>0, ThreadTyped
<1>2. y.pc = "spin" /\ goto(PThread, pc) /\ Unchanged
  BY DEF FlushAgain, at, acquire, Unchanged
<1>3. lock' \in Thread \cup {NoThread}
  BY <1>0, StateTyped DEF FlushAgain, acquire, RestTyped
<1>4. pc \in {"range_ok"} /\ pc \in Steps
  BY <1>2 DEF Steps
<1>5. \A x \in Local : x.pc = pc /\ SameLocals(x, y) => FlowOf(PThread, x)
  <2> HIDE DEF y
  <2> QED BY <1>1, <1>2, <1>4 DEF FlowOf, Course, Frees, Locals, SameLocals, AllocSteps, RangeSteps, PageSteps,
                            EvictSteps, RootSteps, ChunkSteps, idle
<1> HIDE DEF pc
<1>6. TypeInv' /\ Moved(PThread) /\ th'[PThread].pc = pc /\ SameLocals(th'[PThread], th[PThread])
  BY <1>0, <1>2, <1>3, <1>4, <1>5, GotoStep
<1> QED BY <1>2, <1>4, <1>6 DEF pc

(* Most steps leave the operation and its range as they are.               *)
Kept(x, y) ==
  /\ x.op = y.op /\ x.size = y.size /\ x.evict = y.evict
  /\ x.lo = y.lo /\ x.hi = y.hi /\ x.n = y.n

-----------------------------------------------------------------------------
(* Allocation.                                                             *)

LEMMA ClaimTyped ==
  ASSUME p \in PmmType, ListsInjective(p), NEW m, NEW size, NEW o \in claims(m, size)
  PROVE  /\ o[1] \in PmmType /\ ListsInjective(o[1])
         /\ o[2] # NoChunk => o[2] \in Chunk /\ (o[2][2] = 0 <=> size = "root")
         /\ o[2] \in Chunk \cup {NoChunk}
<1>1. CASE o[2] = NoChunk /\ o[1] = skipping(Stale(m, size))
  BY <1>1, Skipped DEF SameLists
<1>2. CASE \E s \in SUBSET Stale(m, size), c \in free_list(m, size) \ Stale(m, size) :
             o[2] = c /\ o[1] = claim(skipping(s), c, no_decision)
  <2>1. PICK s \in SUBSET Stale(m, size), c \in free_list(m, size) \ Stale(m, size) :
             o[2] = c /\ o[1] = claim(skipping(s), c, no_decision)
    BY <1>2
  <2>2. PICK q : q = skipping(s)
    OBVIOUS
  <2>3. q \in PmmType /\ ListsInjective(q)
    BY <2>2, Skipped DEF SameLists
  <2>4. c \in Chunk /\ (c = root_chunk(c[1]) <=> size = "root")
    BY FreeListed
  <2>5. Updated(q, claim(q, c, no_decision), c)
    BY <2>3, <2>4, Claimed
  <2>6. o[1] \in PmmType /\ ListsInjective(o[1])
    BY <2>1, <2>2, <2>5 DEF Updated
  <2> QED BY <2>1, <2>4, <2>6, ChunkFacts
<1> QED BY <1>1, <1>2, ClaimCases

LEMMA ClaimStep ==
  ASSUME TypeInv, NEW t \in Thread, Claim(t)
  PROVE  /\ TypeInv' /\ Moved(t)
         /\ Kept(th'[t], th[t])
         /\ th'[t].r = th[t].r /\ th'[t].ret = th[t].ret /\ th'[t].batch = th[t].batch
         /\ \E o \in claims(mem_type(t), th[t].size) :
              /\ p' = o[1] /\ th'[t].c = o[2]
              /\ th'[t].pc = IF o[2] # NoChunk THEN "done" ELSE IF th[t].size = "root" THEN "pma_alloc" ELSE "lock_split"
<1>0. t \in Thread
  BY Threads
<1>1. th[t] \in Local /\ FlowOf(t, th[t])
  BY <1>0, ThreadTyped
<1>2. PICK o \in claims(mem_type(t), th[t].size) :
        /\ p' = o[1]
        /\ becomes(t, [th[t] EXCEPT !.c = o[2], !.pc = IF o[2] # NoChunk THEN "done" ELSE IF th[t].size = "root" THEN "pma_alloc" ELSE "lock_split"])
  BY DEF Claim
<1> DEFINE y == th[t]
           pc == IF o[2] # NoChunk THEN "done" ELSE IF y.size = "root" THEN "pma_alloc" ELSE "lock_split"
           x == [y EXCEPT !.c = o[2], !.pc = pc]
<1>3. y.pc = "claim" /\ UNCHANGED <<pma_vars, clients>> /\ lock' = lock
  BY DEF Claim, at
<1>4. /\ o[1] \in PmmType /\ ListsInjective(o[1]) /\ o[2] \in Chunk \cup {NoChunk}
      /\ o[2] # NoChunk => o[2] \in Chunk /\ (o[2][2] = 0 <=> th[t].size = "root")
  BY ClaimTyped, StateTyped
<1>5. pc \in {"done", "pma_alloc", "lock_split"} /\ pc \in Steps /\ (pc \in {"done", "split"} <=> o[2] # NoChunk)
  BY DEF Steps
<1> HIDE DEF pc
<1>6. becomes(t, x)
  BY <1>2 DEF pc
<1> HIDE DEF y
<1>7. x \in Local /\ Kept(x, y) /\ x.pc = pc /\ x.c = o[2]
      /\ x.r = y.r /\ x.ret = y.ret /\ x.batch = y.batch /\ x.i = y.i
  BY <1>1, <1>4, <1>5 DEF Local, Kept, y
<1> HIDE DEF x
<1>8. FlowOf(t, x)
  BY <1>0, <1>1, <1>3, <1>7, <1>4, <1>5, Threads DEF FlowOf, Course, Frees, Locals, Kept, AllocSteps, RangeSteps, PageSteps,
     EvictSteps, RootSteps, ChunkSteps, idle, y
<1>9. p' \in PmmType /\ ListsInjective(p)'
  BY <1>2, <1>4 DEF ListsInjective
<1>10. RestTyped'
  BY <1>3, StateTyped, RestUnchanged DEF RestTyped
<1>11. TypeInv' /\ Moved(t) /\ th'[t] = x
  BY <1>0, <1>6, <1>7, <1>8, <1>9, <1>10, StepTyped
<1> QED BY <1>3, <1>7, <1>11, <1>2 DEF y, pc

LEMMA ClaimAgainStep ==
  ASSUME TypeInv, NEW t \in Thread, ClaimAgain(t)
  PROVE  /\ TypeInv' /\ Moved(t)
         /\ Kept(th'[t], th[t])
         /\ th'[t].r = th[t].r /\ th'[t].ret = th[t].ret /\ th'[t].batch = th[t].batch
         /\ \E o \in claims(mem_type(t), "sub") :
              /\ p' = o[1] /\ th'[t].c = o[2]
              /\ IF o[2] # NoChunk THEN release(t) ELSE UNCHANGED lock
              /\ th'[t].pc = IF o[2] # NoChunk THEN "done" ELSE "claim_bigger"
<1>0. t \in Thread
  BY Threads
<1>1. th[t] \in Local /\ FlowOf(t, th[t])
  BY <1>0, ThreadTyped
<1>2. PICK o \in claims(mem_type(t), "sub") :
        /\ p' = o[1]
        /\ becomes(t, [th[t] EXCEPT !.c = o[2], !.pc = IF o[2] # NoChunk THEN "done" ELSE "claim_bigger"])
        /\ IF o[2] # NoChunk THEN release(t) ELSE UNCHANGED lock
  BY DEF ClaimAgain
<1> DEFINE y == th[t]
           pc == IF o[2] # NoChunk THEN "done" ELSE "claim_bigger"
           x == [y EXCEPT !.c = o[2], !.pc = pc]
<1>3. y.pc = "claim_again" /\ UNCHANGED <<pma_vars, clients>>
  BY DEF ClaimAgain, at
<1>4. /\ o[1] \in PmmType /\ ListsInjective(o[1]) /\ o[2] \in Chunk \cup {NoChunk}
      /\ o[2] # NoChunk => o[2] \in Chunk /\ (o[2][2] = 0 <=> "sub" = "root")
  BY ClaimTyped, StateTyped
<1>5. pc \in {"done", "claim_bigger"} /\ pc \in Steps /\ (pc \in {"done", "split"} <=> o[2] # NoChunk)
  BY DEF Steps
<1> HIDE DEF pc
<1>6. becomes(t, x)
  BY <1>2 DEF pc
<1> HIDE DEF y
<1>7. x \in Local /\ Kept(x, y) /\ x.pc = pc /\ x.c = o[2]
      /\ x.r = y.r /\ x.ret = y.ret /\ x.batch = y.batch /\ x.i = y.i
  BY <1>1, <1>4, <1>5 DEF Local, Kept, y
<1> HIDE DEF x
<1>8. FlowOf(t, x)
  BY <1>0, <1>1, <1>3, <1>7, <1>4, <1>5, Threads DEF FlowOf, Course, Frees, Locals, Kept, AllocSteps, RangeSteps, PageSteps,
     EvictSteps, RootSteps, ChunkSteps, idle, y
<1>9. p' \in PmmType /\ ListsInjective(p)'
  BY <1>2, <1>4 DEF ListsInjective
<1>10. RestTyped'
  <2>1. lock' \in Thread \cup {NoThread}
    BY <1>2, StateTyped DEF release, RestTyped
  <2> QED BY <1>3, <2>1, RestUnchanged
<1>11. TypeInv' /\ Moved(t) /\ th'[t] = x
  BY <1>0, <1>6, <1>7, <1>8, <1>9, <1>10, StepTyped
<1> QED BY <1>3, <1>7, <1>11, <1>2 DEF y, pc

LEMMA ClaimBiggerStep ==
  ASSUME TypeInv, NEW t \in Thread, ClaimBigger(t)
  PROVE  /\ TypeInv' /\ Moved(t)
         /\ Kept(th'[t], th[t])
         /\ th'[t].r = th[t].r /\ th'[t].ret = th[t].ret /\ th'[t].batch = th[t].batch
         /\ \E o \in claims(mem_type(t), "root") :
              /\ p' = o[1] /\ th'[t].c = o[2]
              /\ th'[t].pc = IF o[2] # NoChunk THEN "split" ELSE "pma_alloc"
<1>0. t \in Thread
  BY Threads
<1>1. th[t] \in Local /\ FlowOf(t, th[t])
  BY <1>0, ThreadTyped
<1>2. PICK o \in claims(mem_type(t), "root") :
        /\ p' = o[1]
        /\ becomes(t, [th[t] EXCEPT !.c = o[2], !.pc = IF o[2] # NoChunk THEN "split" ELSE "pma_alloc"])
  BY DEF ClaimBigger
<1> DEFINE y == th[t]
           pc == IF o[2] # NoChunk THEN "split" ELSE "pma_alloc"
           x == [y EXCEPT !.c = o[2], !.pc = pc]
<1>3. y.pc = "claim_bigger" /\ UNCHANGED <<pma_vars, clients>> /\ lock' = lock
  BY DEF ClaimBigger, at
<1>4. /\ o[1] \in PmmType /\ ListsInjective(o[1]) /\ o[2] \in Chunk \cup {NoChunk}
      /\ o[2] # NoChunk => o[2] \in Chunk /\ (o[2][2] = 0 <=> "root" = "root")
  BY ClaimTyped, StateTyped
<1>5. pc \in {"split", "pma_alloc"} /\ pc \in Steps /\ (pc \in {"done", "split"} <=> o[2] # NoChunk)
  BY DEF Steps
<1> HIDE DEF pc
<1>6. becomes(t, x)
  BY <1>2 DEF pc
<1> HIDE DEF y
<1>7. x \in Local /\ Kept(x, y) /\ x.pc = pc /\ x.c = o[2]
      /\ x.r = y.r /\ x.ret = y.ret /\ x.batch = y.batch /\ x.i = y.i
  BY <1>1, <1>4, <1>5 DEF Local, Kept, y
<1> HIDE DEF x
<1>8. FlowOf(t, x)
  BY <1>0, <1>1, <1>3, <1>7, <1>4, <1>5, Threads DEF FlowOf, Course, Frees, Locals, Kept, AllocSteps, RangeSteps, PageSteps,
     EvictSteps, RootSteps, ChunkSteps, idle, y
<1>9. p' \in PmmType /\ ListsInjective(p)'
  BY <1>2, <1>4 DEF ListsInjective
<1>10. RestTyped'
  BY <1>3, StateTyped, RestUnchanged DEF RestTyped
<1>11. TypeInv' /\ Moved(t) /\ th'[t] = x
  BY <1>0, <1>6, <1>7, <1>8, <1>9, <1>10, StepTyped
<1> QED BY <1>3, <1>7, <1>11, <1>2 DEF y, pc

LEMMA PmaAllocStep ==
  ASSUME TypeInv, NEW t \in Thread, PmaAlloc(t)
  PROVE  /\ TypeInv' /\ Moved(t)
         /\ Kept(th'[t], th[t]) /\ th'[t].c = th[t].c /\ th'[t].r = th[t].r /\ th'[t].ret = th[t].ret /\ th'[t].pc = "init"
         /\ th'[t].batch \in pma_batches(mem_type(t)) /\ th'[t].batch \subseteq pma_available
         /\ th'[t].batch # {}
         /\ pma' = [r \in Root |-> IF r \notin th'[t].batch THEN pma[r]
                                  ELSE IF t \in Block THEN "unpinned" ELSE "pinned"]
<1>0. t \in Thread
  BY Threads
<1>1. th[t] \in Local /\ FlowOf(t, th[t])
  BY <1>0, ThreadTyped
<1>2. PICK s \in pma_batches(mem_type(t)) :
        /\ pma' = [r \in Root |-> IF r \notin s THEN pma[r]
                                 ELSE IF t \in Block THEN "unpinned" ELSE "pinned"]
        /\ becomes(t, [th[t] EXCEPT !.batch = s, !.pc = "init"])
  BY DEF PmaAlloc
<1> DEFINE y == th[t]
           x == [y EXCEPT !.batch = s, !.pc = "init"]
<1>3. y.pc = "pma_alloc" /\ readers' = readers \cup {t} /\ UNCHANGED <<p, lock, evicting, clients>>
  BY DEF PmaAlloc, at
<1>4. s \subseteq pma_available /\ s # {} /\ pma_available \subseteq Root
  BY DEF pma_batches, kSubset, pma_available
<1>5. s \in SUBSET Root /\ "init" \in Steps
  BY <1>4 DEF Steps
<1>6. becomes(t, x)
  BY <1>2
<1> HIDE DEF y
<1>7. x \in Local /\ Kept(x, y) /\ x.pc = "init" /\ x.c = y.c /\ x.r = y.r /\ x.ret = y.ret /\ x.batch = s
  BY <1>1, <1>5 DEF Local, Kept, y
<1> HIDE DEF x
<1>8. FlowOf(t, x)
  BY <1>0, <1>1, <1>3, <1>7, <1>4, Threads DEF FlowOf, Course, Frees, Locals, Kept, AllocSteps, RangeSteps, PageSteps,
     EvictSteps, RootSteps, ChunkSteps, idle, y
<1>9. p' \in PmmType /\ ListsInjective(p)'
  BY <1>3, StateTyped DEF ListsInjective
<1>10. RestTyped'
  <2>1. \A r \in Root : pma[r] \in {"free", "unpinned", "pinned", "rm"}
    BY StateTyped DEF RestTyped
  <2>2. pma' \in [Root -> {"free", "unpinned", "pinned", "rm"}]
    BY <1>2, <2>1
  <2> QED BY <1>3, <2>2, StateTyped DEF RestTyped, clients
<1>11. TypeInv' /\ Moved(t) /\ th'[t] = x
  BY <1>0, <1>6, <1>7, <1>8, <1>9, <1>10, StepTyped
<1> QED BY <1>3, <1>7, <1>11, <1>2, <1>4 DEF y

LEMMA InitRootStep ==
  ASSUME TypeInv, NEW t \in Thread, InitRoot(t)
  PROVE  /\ TypeInv' /\ Moved(t)
         /\ Kept(th'[t], th[t]) /\ th'[t].r = th[t].r /\ th'[t].ret = th[t].ret
         /\ \E r \in th[t].batch :
              /\ p' = init_root_chunk(p, r, mem_type(t),
                         IF th[t].c = NoChunk THEN "TEMP_PINNED" ELSE "FREE", no_decision)
              /\ readers' = IF th[t].batch = {r} THEN readers \ {t} ELSE readers
              /\ th'[t].batch = th[t].batch \ {r}
              /\ th'[t].c = IF th[t].c = NoChunk THEN root_chunk(r) ELSE th[t].c
              /\ th'[t].pc = IF th[t].batch # {r} THEN "init"
                             ELSE IF th[t].size = "root" THEN "done" ELSE "split"
<1>0. t \in Thread
  BY Threads
<1>1. th[t] \in Local /\ FlowOf(t, th[t])
  BY <1>0, ThreadTyped
<1>2. PICK r \in th[t].batch :
        /\ p' = init_root_chunk(p, r, mem_type(t),
                       IF th[t].c = NoChunk THEN "TEMP_PINNED" ELSE "FREE", no_decision)
        /\ readers' = IF th[t].batch = {r} THEN readers \ {t} ELSE readers
        /\ becomes(t, [th[t] EXCEPT !.batch = th[t].batch \ {r},
                                    !.c = IF th[t].c = NoChunk THEN root_chunk(r) ELSE th[t].c,
                                    !.pc = IF th[t].batch # {r} THEN "init"
                                           ELSE IF th[t].size = "root" THEN "done" ELSE "split"])
  BY DEF InitRoot
<1> DEFINE y == th[t]
           b == y.batch \ {r}
           c == IF y.c = NoChunk THEN root_chunk(r) ELSE y.c
           pc == IF y.batch # {r} THEN "init" ELSE IF y.size = "root" THEN "done" ELSE "split"
           x == [y EXCEPT !.batch = b, !.c = c, !.pc = pc]
<1>3. y.pc = "init" /\ UNCHANGED <<lock, pma, evicting, clients>>
  BY DEF InitRoot, at
<1>4. r \in Root /\ b \in SUBSET Root /\ y.c \in Chunk \cup {NoChunk}
  BY <1>1 DEF Local
<1>5. /\ pc \in {"init", "done", "split"} /\ pc \in Steps /\ c \in Chunk /\ c[2] = 0
      /\ pc = "init" => b # {}
  <2>1. y.c # NoChunk => y.c[2] = 0
    BY <1>1, <1>3 DEF FlowOf, Locals
  <2>2. root_chunk(r) \in Chunk /\ root_chunk(r)[2] = 0
    BY <1>4, ChunkFacts
  <2> QED BY <1>4, <2>1, <2>2 DEF Steps
<1> HIDE DEF b, c, pc
<1>6. becomes(t, x)
  BY <1>2 DEF b, c, pc
<1> HIDE DEF y
<1>7. x \in Local /\ Kept(x, y) /\ x.pc = pc /\ x.c = c /\ x.r = y.r /\ x.ret = y.ret /\ x.batch = b
  BY <1>1, <1>4, <1>5 DEF Local, Kept, y
<1> HIDE DEF x
<1>8. FlowOf(t, x)
  BY <1>0, <1>1, <1>3, <1>7, <1>4, <1>5, Threads DEF FlowOf, Course, Frees, Locals, Kept, AllocSteps, RangeSteps, PageSteps,
     EvictSteps, RootSteps, ChunkSteps, idle, y
<1>9. p' \in PmmType /\ ListsInjective(p)'
  <2>1. mem_type(t) \in MemoryTypes
    BY DEF mem_type, MemoryTypes
  <2>2. PICK w \in ChunkStates : w = IF th[t].c = NoChunk THEN "TEMP_PINNED" ELSE "FREE"
    BY DEF ChunkStates
  <2>3. PICK m \in MemoryTypes : m = mem_type(t)
    BY <2>1
  <2>4. p' = init_root_chunk(p, r, m, w, no_decision)
    BY <1>2, <2>2, <2>3
  <2>5. Frame(p, p', r)
    BY <1>4, <2>4, StateTyped, RootInitialized
  <2> QED BY <2>5 DEF Frame, ListsInjective
<1>10. RestTyped'
  BY <1>2, <1>3, StateTyped DEF RestTyped, clients
<1>11. TypeInv' /\ Moved(t) /\ th'[t] = x
  BY <1>0, <1>6, <1>7, <1>8, <1>9, <1>10, StepTyped
<1> QED BY <1>3, <1>7, <1>11, <1>2 DEF y, b, c, pc

LEMMA SplitStep ==
  ASSUME TypeInv, NEW t \in Thread, Split(t)
  PROVE  /\ TypeInv' /\ Moved(t)
         /\ Kept(th'[t], th[t]) /\ th'[t].r = th[t].r /\ th'[t].ret = th[t].ret /\ th'[t].batch = th[t].batch
         /\ th'[t].c = <<th[t].c[1], 1>> /\ th'[t].pc = "done"
<1>0. t \in Thread
  BY Threads
<1>1. th[t] \in Local /\ FlowOf(t, th[t])
  BY <1>0, ThreadTyped
<1> DEFINE y == th[t]
           c == <<y.c[1], 1>>
           x == [y EXCEPT !.c = c, !.pc = "done"]
<1>3. y.pc = "split" /\ UNCHANGED <<pma_vars, clients>> /\ release(t)
  BY DEF Split, at
<1>4. y.c \in Chunk /\ y.c[1] \in Root
  <2>1. y.c \in Chunk
    BY <1>1, <1>3 DEF FlowOf, Locals, ChunkSteps
  <2> QED BY <2>1, ChunkFacts
<1>5. c \in Chunk /\ "done" \in Steps
  BY <1>4, ChunkFacts DEF Steps
<1> HIDE DEF c
<1>6. becomes(t, x)
  BY DEF Split, goto, c
<1> HIDE DEF y
<1>7. x \in Local /\ Kept(x, y) /\ x.pc = "done" /\ x.c = c /\ x.r = y.r /\ x.ret = y.ret /\ x.batch = y.batch
  BY <1>1, <1>5 DEF Local, Kept, y
<1> HIDE DEF x
<1>8. FlowOf(t, x)
  BY <1>0, <1>1, <1>3, <1>7, <1>5, Threads DEF FlowOf, Course, Frees, Locals, Kept, AllocSteps, RangeSteps, PageSteps,
     EvictSteps, RootSteps, ChunkSteps, idle, y
<1>9. p' \in PmmType /\ ListsInjective(p)'
  <2>1. PICK r \in Root : r = th[t].c[1]
    BY <1>4 DEF y
  <2>2. PICK q : q = split_gpu_chunk(p, r)
    OBVIOUS
  <2>3. p' = free_all_but_first(q, r)
    BY <2>1, <2>2 DEF Split
  <2>4. SameLists(p, q)
    BY <2>2, StateTyped, ChunkSplit
  <2>5. q \in PmmType /\ ListsInjective(q)
    BY <2>4 DEF SameLists
  <2>6. Frame(q, p', r)
    BY <2>3, <2>5, AllButFirstFreed
  <2> QED BY <2>6 DEF Frame, ListsInjective
<1>10. RestTyped'
  <2>1. lock' \in Thread \cup {NoThread}
    BY StateTyped DEF Split, release, RestTyped
  <2> QED BY <1>3, <2>1, RestUnchanged
<1>11. TypeInv' /\ Moved(t) /\ th'[t] = x
  BY <1>0, <1>6, <1>7, <1>8, <1>9, <1>10, StepTyped
<1> QED BY <1>3, <1>7, <1>11 DEF y, c

LEMMA SplitFailsStep ==
  ASSUME TypeInv, NEW t \in Thread, SplitFails(t)
  PROVE  /\ TypeInv' /\ Moved(t)
         /\ Kept(th'[t], th[t]) /\ th'[t].c = th[t].c /\ th'[t].r = th[t].r /\ th'[t].batch = th[t].batch
         /\ th'[t].ret = "alloc_error" /\ th'[t].pc = "free_locked"
<1>0. t \in Thread
  BY Threads
<1>1. th[t] \in Local /\ FlowOf(t, th[t])
  BY <1>0, ThreadTyped
<1> DEFINE y == th[t]
           x == [y EXCEPT !.pc = "free_locked", !.ret = "alloc_error"]
<1>3. y.pc = "split" /\ UNCHANGED <<p, lock, pma_vars, clients>>
  BY DEF SplitFails, at
<1>5. "free_locked" \in Steps /\ "alloc_error" \in Steps
  BY DEF Steps
<1>6. becomes(t, x)
  BY DEF SplitFails, goto
<1> HIDE DEF y
<1>7. x \in Local /\ Kept(x, y) /\ x.pc = "free_locked" /\ x.c = y.c /\ x.r = y.r /\ x.ret = "alloc_error" /\ x.batch = y.batch
  BY <1>1, <1>5 DEF Local, Kept, y
<1> HIDE DEF x
<1>8. FlowOf(t, x)
  BY <1>0, <1>1, <1>3, <1>7, Threads DEF FlowOf, Course, Frees, Locals, Kept, AllocSteps, RangeSteps, PageSteps,
     EvictSteps, RootSteps, ChunkSteps, idle, y
<1>9. p' \in PmmType /\ ListsInjective(p)'
  BY <1>3, StateTyped DEF ListsInjective
<1>10. RestTyped'
  BY <1>3, StateTyped, RestUnchanged DEF RestTyped
<1>11. TypeInv' /\ Moved(t) /\ th'[t] = x
  BY <1>0, <1>6, <1>7, <1>8, <1>9, <1>10, StepTyped
<1> QED BY <1>3, <1>7, <1>11 DEF y

LEMMA AllocErrorStep ==
  ASSUME TypeInv, NEW t \in Thread, AllocError(t)
  PROVE  /\ TypeInv' /\ Moved(t)
         /\ Kept(th'[t], th[t]) /\ th'[t].c = th[t].c /\ th'[t].r = th[t].r /\ th'[t].batch = th[t].batch
         /\ th'[t].ret = "evict_again" /\ th'[t].pc = IF th[t].size = "sub" THEN "next" ELSE "evict_again"
<1>0. t \in Thread
  BY Threads
<1>1. th[t] \in Local /\ FlowOf(t, th[t])
  BY <1>0, ThreadTyped
<1> DEFINE y == th[t]
           pc == IF y.size = "sub" THEN "next" ELSE "evict_again"
           x == [y EXCEPT !.pc = pc, !.ret = "evict_again"]
<1>3. y.pc = "alloc_error" /\ p' = p /\ UNCHANGED <<pma_vars, clients>> /\ release(t)
  BY DEF AllocError, at
<1>5. pc \in {"next", "evict_again"} /\ pc \in Steps /\ "evict_again" \in Steps
  BY DEF Steps
<1> HIDE DEF pc
<1>6. becomes(t, x)
  BY DEF AllocError, goto, pc
<1> HIDE DEF y
<1>7. x \in Local /\ Kept(x, y) /\ x.pc = pc /\ x.c = y.c /\ x.r = y.r /\ x.ret = "evict_again" /\ x.batch = y.batch
  BY <1>1, <1>5 DEF Local, Kept, y
<1> HIDE DEF x
<1>8. FlowOf(t, x)
  BY <1>0, <1>1, <1>3, <1>7, <1>5, Threads DEF FlowOf, Course, Frees, Locals, Kept, AllocSteps, RangeSteps, PageSteps,
     EvictSteps, RootSteps, ChunkSteps, idle, y
<1>9. p' \in PmmType /\ ListsInjective(p)'
  BY <1>3, StateTyped DEF ListsInjective
<1>10. RestTyped'
  <2>1. lock' \in Thread \cup {NoThread}
    BY StateTyped DEF AllocError, release, RestTyped
  <2> QED BY <1>3, <2>1, RestUnchanged
<1>11. TypeInv' /\ Moved(t) /\ th'[t] = x
  BY <1>0, <1>6, <1>7, <1>8, <1>9, <1>10, StepTyped
<1> QED BY <1>3, <1>7, <1>11 DEF y, pc

(* An operation starts from the idle record.                               *)
LEMMA IdleTyped ==
  /\ idle \in Local /\ idle.pc = "idle" /\ idle.op = "none" /\ idle.c = NoChunk /\ idle.r = NoRoot
  /\ idle.ret = "idle" /\ idle.batch = {} /\ idle.lo = 0 /\ idle.hi = 0 /\ idle.va = NoBlock
  /\ \A t \in Thread : FlowOf(t, idle)
<1>1. idle \in Local
  <2>1. NSub \in Nat
    BY NSubAssumption
  <2> QED BY <2>1 DEF idle, Local, Steps, Ops, Sizes
<1>2. /\ idle.pc = "idle" /\ idle.op = "none" /\ idle.c = NoChunk /\ idle.r = NoRoot
      /\ idle.ret = "idle" /\ idle.batch = {} /\ idle.lo = 0 /\ idle.hi = 0 /\ idle.va = NoBlock
  BY DEF idle
<1>3. \A t \in Thread : FlowOf(t, idle)
  <2>1. Course(idle)
    BY <1>2 DEF Course, Frees, AllocSteps, RangeSteps, PageSteps, EvictSteps
  <2>2. Locals(idle)
    BY <1>2 DEF Locals, ChunkSteps, RootSteps
  <2> QED BY <1>2, <2>1, <2>2 DEF FlowOf
<1> QED BY <1>1, <1>2, <1>3

(* Thread t returns from its operation.                                    *)
LEMMA ReturnStep ==
  ASSUME TypeInv, NEW t \in Thread, becomes(t, idle), p' \in PmmType, ListsInjective(p)', RestTyped'
  PROVE  TypeInv' /\ Moved(t) /\ th'[t] = idle
BY IdleTyped, StepTyped


LEMMA EvictAgainStep ==
  ASSUME TypeInv, NEW t \in Thread, EvictAgain(t)
  PROVE  /\ TypeInv' /\ Moved(t)
         /\ \/ th'[t] = idle
            \/ /\ th'[t].pc = "claim" /\ th'[t].op = "alloc" /\ th'[t].c = NoChunk /\ th'[t].r = NoRoot
               /\ th'[t].ret = "idle" /\ th'[t].batch = {}
<1>0. t \in Thread
  BY Threads
<1>1. th[t] \in Local /\ FlowOf(t, th[t])
  BY <1>0, ThreadTyped
<1> DEFINE y == th[t]
           x == IF t \in Block /\ ~y.evict
                THEN [idle EXCEPT !.pc = "claim", !.op = "alloc", !.size = y.size, !.evict = TRUE]
                ELSE idle
<1>3. y.pc = "evict_again" /\ UNCHANGED <<p, lock, pma_vars, clients>>
  BY DEF EvictAgain, at
<1>5. "claim" \in Steps /\ "alloc" \in Ops
  BY DEF Steps, Ops
<1>6. becomes(t, x)
  BY DEF EvictAgain, goto
<1> HIDE DEF y
<1>7. x \in Local /\ (x = idle \/ (x.pc = "claim" /\ x.op = "alloc" /\ x.c = NoChunk /\ x.r = NoRoot /\ x.ret = "idle" /\ x.batch = {}))
  BY <1>1, <1>5, IdleTyped DEF Local, Kept, y
<1> HIDE DEF x
<1>8. FlowOf(t, x)
  BY <1>0, <1>1, <1>3, <1>7, IdleTyped, Threads DEF FlowOf, Course, Frees, Locals, Kept, AllocSteps, RangeSteps, PageSteps,
     EvictSteps, RootSteps, ChunkSteps, idle, y
<1>9. p' \in PmmType /\ ListsInjective(p)'
  BY <1>3, StateTyped DEF ListsInjective
<1>10. RestTyped'
  BY <1>3, StateTyped, RestUnchanged DEF RestTyped
<1>11. TypeInv' /\ Moved(t) /\ th'[t] = x
  BY <1>0, <1>6, <1>7, <1>8, <1>9, <1>10, StepTyped
<1> QED BY <1>3, <1>7, <1>11 DEF y

LEMMA DoneStep ==
  ASSUME TypeInv, NEW t \in Thread, Done(t)
  PROVE  TypeInv' /\ Moved(t) /\ th'[t] = idle
<1>1. th[t] \in Local /\ FlowOf(t, th[t]) /\ p \in PmmType /\ ListsInjective(p) /\ RestTyped
  BY ThreadTyped, StateTyped
<1>2. th[t].pc = "done" /\ t \in Block /\ becomes(t, idle) /\ UNCHANGED <<p, lock, pma_vars, kchunks>>
  BY DEF Done, at
<1>3. th[t].c \in Chunk
  BY <1>1, <1>2 DEF FlowOf, Locals, ChunkSteps
<1>4. RestTyped'
  <2>1. CASE th[t].evict
    <3>1. free_chunks' = [free_chunks EXCEPT ![t] = free_chunks[t] \cup {th[t].c}]
          /\ UNCHANGED <<chunks, used_chunks>>
      BY <2>1 DEF Done
    <3> QED BY <1>1, <1>2, <1>3, <3>1 DEF RestTyped, pma_vars
  <2>2. CASE ~th[t].evict
    <3>1. /\ chunks' = [chunks EXCEPT ![t] = chunks[t] \cup {th[t].c}]
          /\ used_chunks' = [used_chunks EXCEPT ![t] = used_chunks[t] \cup {th[t].c}]
          /\ UNCHANGED free_chunks
      BY <2>2 DEF Done
    <3> QED BY <1>1, <1>2, <1>3, <3>1 DEF RestTyped, pma_vars
  <2> QED BY <2>1, <2>2
<1>5. p' \in PmmType /\ ListsInjective(p)'
  BY <1>1, <1>2 DEF ListsInjective
<1> QED BY <1>2, <1>4, <1>5, ReturnStep

LEMMA KernelDoneStep ==
  ASSUME TypeInv, NEW t \in Thread, KernelDone(t)
  PROVE  TypeInv' /\ Moved(t) /\ th'[t] = idle
<1>1. th[t] \in Local /\ FlowOf(t, th[t]) /\ p \in PmmType /\ ListsInjective(p) /\ RestTyped
  BY ThreadTyped, StateTyped
<1>2. /\ th[t].pc = "done" /\ becomes(t, idle) /\ kchunks' = kchunks \cup {th[t].c}
      /\ p' = chunk_unpin(p, th[t].c, "ALLOCATED")
      /\ UNCHANGED <<lock, pma_vars, chunks, used_chunks, free_chunks>>
  BY DEF KernelDone, at
<1>3. th[t].c \in Chunk
  BY <1>1, <1>2 DEF FlowOf, Locals, ChunkSteps
<1>4. RestTyped'
  BY <1>1, <1>2, <1>3 DEF RestTyped, pma_vars
<1>5. p' \in PmmType /\ ListsInjective(p)'
  <2>1. "ALLOCATED" \in ChunkStates
    BY DEF ChunkStates
  <2>2. SameLists(p, p')
    BY <1>1, <1>2, <1>3, <2>1, ChunkUnpinned
  <2> QED BY <2>2 DEF SameLists, ListsInjective
<1> QED BY <1>2, <1>4, <1>5, ReturnStep

LEMMA TrackerErrorStep ==
  ASSUME TypeInv, NEW t \in Thread, TrackerError(t)
  PROVE  /\ TypeInv' /\ Moved(t)
         /\ th'[t].c = th[t].c /\ th'[t].r = th[t].r /\ th'[t].ret = "evict_again" /\ th'[t].batch = th[t].batch /\ th'[t].lo = th[t].lo /\ th'[t].hi = th[t].hi /\ th'[t].pc = "free"
         /\ th'[t].op \in {"free", "release"}
<1>0. t \in Thread
  BY Threads
<1>1. th[t] \in Local /\ FlowOf(t, th[t])
  BY <1>0, ThreadTyped
<1> DEFINE y == th[t]
           op == IF y.evict THEN "release" ELSE "free"
           x == [y EXCEPT !.pc = "free", !.op = op, !.ret = "evict_again"]
<1>3. y.pc = "done" /\ UNCHANGED <<p, lock, pma_vars, clients>>
  BY DEF TrackerError, at
<1>5. op \in {"free", "release"} /\ op \in Ops /\ "free" \in Steps /\ "evict_again" \in Steps
  BY DEF Ops, Steps
<1> HIDE DEF op
<1>6. becomes(t, x)
  BY DEF TrackerError, goto, op
<1> HIDE DEF y
<1>7. x \in Local /\ x.pc = "free" /\ x.c = y.c /\ x.r = y.r /\ x.ret = "evict_again" /\ x.batch = y.batch /\ x.op = op /\ x.lo = y.lo /\ x.hi = y.hi
  BY <1>1, <1>5 DEF Local, Kept, y
<1> HIDE DEF x
<1>8. FlowOf(t, x)
  BY <1>0, <1>1, <1>3, <1>7, <1>5, Threads DEF FlowOf, Course, Frees, Locals, Kept, AllocSteps, RangeSteps, PageSteps,
     EvictSteps, RootSteps, ChunkSteps, idle, y
<1>9. p' \in PmmType /\ ListsInjective(p)'
  BY <1>3, StateTyped DEF ListsInjective
<1>10. RestTyped'
  BY <1>3, StateTyped, RestUnchanged DEF RestTyped
<1>11. TypeInv' /\ Moved(t) /\ th'[t] = x
  BY <1>0, <1>6, <1>7, <1>8, <1>9, <1>10, StepTyped
<1> QED BY <1>3, <1>7, <1>11, <1>5 DEF y

-----------------------------------------------------------------------------
(* Eviction.                                                               *)

LEMMA Candidates ==
  ASSUME p \in PmmType, NEW r \in pick_candidates(p)
  PROVE  /\ r \in Root
         /\ \/ root_chunk(r) \in p.free /\ p.type[r] = "USER"
            \/ r \in ToSet(p.unused) \/ r \in ToSet(p.used)
<1>1. p.used \in Seq(Root) /\ p.unused \in Seq(Root)
  BY Fields
<1>2. \A s \in Seq(Root) : s # <<>> => Head(s) \in Root /\ Head(s) \in ToSet(s)
  <2> TAKE s \in Seq(Root)
  <2> HAVE s # <<>>
  <2>1. Len(s) \in Nat /\ Len(s) > 0 /\ DOMAIN s = 1 .. Len(s) /\ Head(s) = s[1]
    OBVIOUS
  <2>2. 1 \in DOMAIN s
    BY <2>1
  <2> QED BY <2>1, <2>2 DEF ToSet
<1> QED BY <1>1, <1>2 DEF pick_candidates


LEMMA PickStep ==
  ASSUME TypeInv, NEW t \in Thread, Pick(t)
  PROVE  /\ TypeInv' /\ Moved(t)
         /\ Kept(th'[t], th[t]) /\ th'[t].c = th[t].c /\ th'[t].ret = th[t].ret /\ th'[t].batch = th[t].batch /\ th'[t].pc = "pin_free"
         /\ th'[t].r \in pick_candidates(p) /\ th'[t].r \in Root
         /\ p' = chunk_start_eviction(p, th'[t].r)
<1>0. t \in Thread
  BY Threads
<1>1. th[t] \in Local /\ FlowOf(t, th[t])
  BY <1>0, ThreadTyped
<1>2. PICK r \in pick_candidates(p) :
        p' = chunk_start_eviction(p, r) /\ becomes(t, [th[t] EXCEPT !.r = r, !.pc = "pin_free"])
  BY DEF Pick
<1> DEFINE y == th[t]
           x == [y EXCEPT !.r = r, !.pc = "pin_free"]
<1>3. y.pc = "pick" /\ UNCHANGED <<pma_vars, clients>> /\ lock' = lock
  BY DEF Pick, at
<1>4. r \in Root
  BY Candidates, StateTyped
<1>5. "pin_free" \in Steps
  BY DEF Steps
<1>6. becomes(t, x)
  BY <1>2
<1> HIDE DEF y
<1>7. x \in Local /\ Kept(x, y) /\ x.c = y.c /\ x.ret = y.ret /\ x.batch = y.batch /\ x.r = r /\ x.pc = "pin_free"
  BY <1>1, <1>4, <1>5 DEF Local, Kept, y
<1> HIDE DEF x
<1>8. FlowOf(t, x)
  BY <1>0, <1>1, <1>3, <1>7, <1>4, Threads DEF FlowOf, Course, Frees, Locals, Kept, AllocSteps, RangeSteps, PageSteps,
     EvictSteps, RootSteps, ChunkSteps, idle, y
<1>9. p' \in PmmType /\ ListsInjective(p)'
  <2>1. Frame(p, p', r)
    BY <1>2, <1>4, StateTyped, EvictionStarted
  <2> QED BY <2>1 DEF Frame, ListsInjective
<1>10. RestTyped'
  BY <1>3, StateTyped, RestUnchanged DEF RestTyped
<1>11. TypeInv' /\ Moved(t) /\ th'[t] = x
  BY <1>0, <1>6, <1>7, <1>8, <1>9, <1>10, StepTyped
<1> QED BY <1>3, <1>7, <1>11, <1>2, <1>4 DEF y

LEMMA PinFreeStep ==
  ASSUME TypeInv, NEW t \in Thread, PinFree(t)
  PROVE  /\ TypeInv' /\ Moved(t)
         /\ Kept(th'[t], th[t]) /\ th'[t].c = th[t].c /\ th'[t].r = th[t].r /\ th'[t].ret = th[t].ret /\ th'[t].batch = th[t].batch /\ th'[t].pc = "find" /\ th[t].r \in Root
<1>0. t \in Thread
  BY Threads
<1>1. th[t] \in Local /\ FlowOf(t, th[t])
  BY <1>0, ThreadTyped
<1> DEFINE y == th[t]
           x == [y EXCEPT !.pc = "find"]
<1>3. y.pc = "pin_free" /\ UNCHANGED <<pma_vars, clients>> /\ lock' = lock /\ p' = pin_free_chunks(p, y.r)
  BY DEF PinFree, at
<1>4. y.r \in Root
  BY <1>1, <1>3 DEF FlowOf, Locals, RootSteps
<1>5. "find" \in Steps
  BY DEF Steps
<1>6. becomes(t, x)
  BY DEF PinFree, goto
<1> HIDE DEF y
<1>7. x \in Local /\ Kept(x, y) /\ x.c = y.c /\ x.r = y.r /\ x.ret = y.ret /\ x.batch = y.batch /\ x.pc = "find"
  BY <1>1, <1>5 DEF Local, Kept, y
<1> HIDE DEF x
<1>8. FlowOf(t, x)
  BY <1>0, <1>1, <1>3, <1>7, <1>4, Threads DEF FlowOf, Course, Frees, Locals, Kept, AllocSteps, RangeSteps, PageSteps,
     EvictSteps, RootSteps, ChunkSteps, idle, y
<1>9. p' \in PmmType /\ ListsInjective(p)'
  <2>1. Frame(p, p', y.r)
    BY <1>3, <1>4, StateTyped, FreePinned
  <2> QED BY <2>1 DEF Frame, ListsInjective
<1>10. RestTyped'
  BY <1>3, StateTyped, RestUnchanged DEF RestTyped
<1>11. TypeInv' /\ Moved(t) /\ th'[t] = x
  BY <1>0, <1>6, <1>7, <1>8, <1>9, <1>10, StepTyped
<1> QED BY <1>3, <1>7, <1>11, <1>4 DEF y

LEMMA FindStep ==
  ASSUME TypeInv, NEW t \in Thread, Find(t)
  PROVE  /\ TypeInv' /\ Moved(t)
         /\ Kept(th'[t], th[t]) /\ th'[t].c = th[t].c /\ th'[t].r = th[t].r /\ th'[t].ret = th[t].ret /\ th'[t].batch = th[t].batch /\ th'[t].pc = "va_block" /\ th[t].r \in Root
         /\ \E i \in 0 .. NSub : /\ p.state[<<th[t].r, i>>] = "ALLOCATED"
                                /\ th'[t].va = p.va_block[<<th[t].r, i>>]
<1>0. t \in Thread
  BY Threads
<1>1. th[t] \in Local /\ FlowOf(t, th[t])
  BY <1>0, ThreadTyped
<1>2. PICK i \in 0 .. NSub :
        /\ p.state[<<th[t].r, i>>] = "ALLOCATED"
        /\ becomes(t, [th[t] EXCEPT !.va = p.va_block[<<th[t].r, i>>], !.pc = "va_block"])
  BY DEF Find
<1> DEFINE y == th[t]
           v == p.va_block[<<y.r, i>>]
           x == [y EXCEPT !.va = v, !.pc = "va_block"]
<1>3. y.pc = "find" /\ UNCHANGED <<pma_vars, clients>> /\ lock' = NoThread /\ p' = p
  BY DEF Find, at
<1>4. y.r \in Root
  BY <1>1, <1>3 DEF FlowOf, Locals, RootSteps
<1>5. "va_block" \in Steps /\ v \in Block \cup {NoBlock}
  BY <1>4, StateTyped, Fields, ChunkFacts DEF Steps
<1> HIDE DEF v
<1>6. becomes(t, x)
  BY <1>2 DEF v
<1> HIDE DEF y
<1>7. x \in Local /\ Kept(x, y) /\ x.c = y.c /\ x.r = y.r /\ x.ret = y.ret /\ x.batch = y.batch /\ x.pc = "va_block" /\ x.va = v
  BY <1>1, <1>5 DEF Local, Kept, y
<1> HIDE DEF x
<1>8. FlowOf(t, x)
  BY <1>0, <1>1, <1>3, <1>7, <1>4, Threads DEF FlowOf, Course, Frees, Locals, Kept, AllocSteps, RangeSteps, PageSteps,
     EvictSteps, RootSteps, ChunkSteps, idle, y
<1>9. p' \in PmmType /\ ListsInjective(p)'
  BY <1>3, StateTyped DEF ListsInjective
<1>10. RestTyped'
  BY <1>3, StateTyped, RestUnchanged DEF RestTyped
<1>11. TypeInv' /\ Moved(t) /\ th'[t] = x
  BY <1>0, <1>6, <1>7, <1>8, <1>9, <1>10, StepTyped
<1> QED BY <1>3, <1>7, <1>11, <1>2, <1>4 DEF y, v

LEMMA EvictChunksTyped ==
  ASSUME TypeInv, NEW t \in Thread, evict_chunks(t), th[t].r \in Root
  PROVE  p' \in PmmType /\ ListsInjective(p)' /\ chunks' \in [Block -> SUBSET Chunk]
<1> DEFINE b == th[t].va
           cs == {c \in chunks[b] : c[1] = th[t].r}
<1>1. p' = mark_chunks_evicted(p, th[t].r, cs) /\ chunks' = [chunks EXCEPT ![b] = chunks[b] \ cs]
  BY DEF evict_chunks
<1>2. chunks \in [Block -> SUBSET Chunk]
  BY StateTyped DEF RestTyped
<1> HIDE DEF cs, b
<1>3. chunks' \in [Block -> SUBSET Chunk]
  BY <1>1, <1>2
<1>4. PICK r \in Root : r = th[t].r
  OBVIOUS
<1>5. p' = mark_chunks_evicted(p, r, cs)
  BY <1>1, <1>4
<1>6. SameLists(p, p')
  BY <1>5, StateTyped, MarkedEvicted
<1> QED BY <1>3, <1>6 DEF SameLists, ListsInjective

LEMMA EvictBlockStep ==
  ASSUME TypeInv, NEW t \in Thread, EvictBlock(t)
  PROVE  /\ TypeInv' /\ Moved(t)
         /\ Kept(th'[t], th[t]) /\ th'[t].c = th[t].c /\ th'[t].r = th[t].r /\ th'[t].ret = th[t].ret /\ th'[t].batch = th[t].batch /\ th'[t].pc = "relock" /\ th[t].r \in Root
<1>0. t \in Thread
  BY Threads
<1>1. th[t] \in Local /\ FlowOf(t, th[t])
  BY <1>0, ThreadTyped
<1> DEFINE y == th[t]
           x == [y EXCEPT !.pc = "relock", !.va = NoBlock]
<1>3. y.pc = "va_block" /\ UNCHANGED <<lock, pma_vars, used_chunks, free_chunks, kchunks>>
  BY DEF EvictBlock, at
<1>4. y.r \in Root
  BY <1>1, <1>3 DEF FlowOf, Locals, RootSteps
<1>5. "relock" \in Steps
  BY DEF Steps
<1>12. evict_chunks(t) \/ UNCHANGED <<p, chunks>>
  BY DEF EvictBlock
<1>6. becomes(t, x)
  BY DEF EvictBlock, goto
<1> HIDE DEF y
<1>7. x \in Local /\ Kept(x, y) /\ x.c = y.c /\ x.r = y.r /\ x.ret = y.ret /\ x.batch = y.batch /\ x.pc = "relock"
  BY <1>1, <1>5 DEF Local, Kept, y
<1> HIDE DEF x
<1>8. FlowOf(t, x)
  BY <1>0, <1>1, <1>3, <1>7, <1>4, Threads DEF FlowOf, Course, Frees, Locals, Kept, AllocSteps, RangeSteps, PageSteps,
     EvictSteps, RootSteps, ChunkSteps, idle, y
<1>9. p' \in PmmType /\ ListsInjective(p)'
  BY <1>4, <1>12, StateTyped, EvictChunksTyped DEF ListsInjective, y
<1>10. RestTyped'
  <2>1. chunks' \in [Block -> SUBSET Chunk]
    BY <1>4, <1>12, StateTyped, EvictChunksTyped DEF RestTyped, y
  <2> QED BY <1>3, <2>1, StateTyped DEF RestTyped, pma_vars
<1>11. TypeInv' /\ Moved(t) /\ th'[t] = x
  BY <1>0, <1>6, <1>7, <1>8, <1>9, <1>10, StepTyped
<1> QED BY <1>3, <1>7, <1>11, <1>4 DEF y

LEMMA EvictBlockFailsStep ==
  ASSUME TypeInv, NEW t \in Thread, EvictBlockFails(t)
  PROVE  /\ TypeInv' /\ Moved(t)
         /\ Kept(th'[t], th[t]) /\ th'[t].c = th[t].c /\ th'[t].r = th[t].r /\ th'[t].ret = th[t].ret /\ th'[t].batch = th[t].batch /\ th'[t].pc = "relock_error" /\ th[t].r \in Root
<1>0. t \in Thread
  BY Threads
<1>1. th[t] \in Local /\ FlowOf(t, th[t])
  BY <1>0, ThreadTyped
<1> DEFINE y == th[t]
           x == [y EXCEPT !.pc = "relock_error", !.va = NoBlock]
<1>3. y.pc = "va_block" /\ UNCHANGED <<lock, pma_vars, used_chunks, free_chunks, kchunks>>
  BY DEF EvictBlockFails, at
<1>4. y.r \in Root
  BY <1>1, <1>3 DEF FlowOf, Locals, RootSteps
<1>5. "relock_error" \in Steps
  BY DEF Steps
<1>12. evict_chunks(t) \/ UNCHANGED <<p, chunks>>
  BY DEF EvictBlockFails
<1>6. becomes(t, x)
  BY DEF EvictBlockFails, goto
<1> HIDE DEF y
<1>7. x \in Local /\ Kept(x, y) /\ x.c = y.c /\ x.r = y.r /\ x.ret = y.ret /\ x.batch = y.batch /\ x.pc = "relock_error"
  BY <1>1, <1>5 DEF Local, Kept, y
<1> HIDE DEF x
<1>8. FlowOf(t, x)
  BY <1>0, <1>1, <1>3, <1>7, <1>4, Threads DEF FlowOf, Course, Frees, Locals, Kept, AllocSteps, RangeSteps, PageSteps,
     EvictSteps, RootSteps, ChunkSteps, idle, y
<1>9. p' \in PmmType /\ ListsInjective(p)'
  BY <1>4, <1>12, StateTyped, EvictChunksTyped DEF ListsInjective, y
<1>10. RestTyped'
  <2>1. chunks' \in [Block -> SUBSET Chunk]
    BY <1>4, <1>12, StateTyped, EvictChunksTyped DEF RestTyped, y
  <2> QED BY <1>3, <2>1, StateTyped DEF RestTyped, pma_vars
<1>11. TypeInv' /\ Moved(t) /\ th'[t] = x
  BY <1>0, <1>6, <1>7, <1>8, <1>9, <1>10, StepTyped
<1> QED BY <1>3, <1>7, <1>11, <1>4 DEF y

(* What becomes of a thread that has evicted a root chunk.                 *)
Evicted(x, y) ==
  /\ x.op = y.op /\ x.size = y.size /\ x.evict = y.evict /\ x.hi = y.hi /\ x.n = y.n
  /\ x.batch = y.batch
  /\ \/ /\ y.op = "range" /\ x.pc = "free_root" /\ x.ret = "spin" /\ x.lo = y.lo + 1
        /\ x.r = y.r /\ x.c = y.c
     \/ /\ y.op = "pages" /\ x.pc = "pages_check" /\ x.ret = y.ret /\ x.lo = y.lo
        /\ x.r = y.r /\ x.c = y.c
     \/ /\ y.op \notin {"range", "pages"} /\ x.pc = (IF y.size = "root" THEN "done" ELSE "split")
        /\ x.ret = y.ret /\ x.lo = y.lo /\ x.r = NoRoot /\ x.c = root_chunk(y.r)

LEMMA EvictedTyped ==
  ASSUME NEW y \in Local, y.r \in Root, NEW x,
         \/ y.op = "range" /\ x = [y EXCEPT !.pc = "free_root", !.ret = "spin", !.lo = y.lo + 1]
         \/ y.op = "pages" /\ x = [y EXCEPT !.pc = "pages_check"]
         \/ /\ y.op \notin {"range", "pages"}
            /\ x = [y EXCEPT !.pc = IF y.size = "root" THEN "done" ELSE "split",
                             !.c = root_chunk(y.r), !.r = NoRoot]
  PROVE  x \in Local /\ Evicted(x, y)
<1>1. {"free_root", "spin", "pages_check", "done", "split"} \subseteq Steps
  BY DEF Steps
<1>2. root_chunk(y.r) \in Chunk
  BY ChunkFacts
<1>3. y.lo + 1 \in Nat
  BY DEF Local
<1>4. CASE y.op = "range" /\ x = [y EXCEPT !.pc = "free_root", !.ret = "spin", !.lo = y.lo + 1]
  BY <1>1, <1>3, <1>4 DEF Local, Evicted
<1>5. CASE y.op = "pages" /\ x = [y EXCEPT !.pc = "pages_check"]
  BY <1>1, <1>5 DEF Local, Evicted
<1>6. CASE /\ y.op \notin {"range", "pages"}
           /\ x = [y EXCEPT !.pc = IF y.size = "root" THEN "done" ELSE "split",
                            !.c = root_chunk(y.r), !.r = NoRoot]
  <2> DEFINE pc == IF y.size = "root" THEN "done" ELSE "split"
             c == root_chunk(y.r)
  <2>1. pc \in Steps /\ c \in Chunk /\ x = [y EXCEPT !.pc = pc, !.c = c, !.r = NoRoot]
    BY <1>1, <1>2, <1>6
  <2>2. y.op \notin {"range", "pages"} /\ pc = (IF y.size = "root" THEN "done" ELSE "split") /\ c = root_chunk(y.r)
    BY <1>6
  <2> HIDE DEF pc, c
  <2> QED BY <2>1, <2>2 DEF Local, Evicted
<1> QED BY <1>4, <1>5, <1>6

LEMMA EvictedStep ==
  ASSUME TypeInv, NEW t \in Thread, evicted(t), th[t].pc \in {"merge", "set_type"},
         p' \in PmmType, ListsInjective(p)', lock' \in Thread \cup {NoThread} => RestTyped'
  PROVE  TypeInv' /\ Moved(t) /\ Evicted(th'[t], th[t]) /\ th[t].r \in Root
<1>1. th[t] \in Local /\ FlowOf(t, th[t])
  BY ThreadTyped
<1> DEFINE y == th[t]
<1>2. PICK x : /\ becomes(t, x)
               /\ \/ y.op = "range" /\ x = [y EXCEPT !.pc = "free_root", !.ret = "spin", !.lo = y.lo + 1]
                  \/ y.op = "pages" /\ x = [y EXCEPT !.pc = "pages_check"]
                  \/ /\ y.op \notin {"range", "pages"}
                     /\ x = [y EXCEPT !.pc = IF y.size = "root" THEN "done" ELSE "split",
                                      !.c = root_chunk(y.r), !.r = NoRoot]
  BY DEF evicted
<1>3. y.pc \in {"merge", "set_type"}
  OBVIOUS
<1> HIDE DEF y
<1>4. y.r \in Root
  BY <1>1, <1>3 DEF FlowOf, Locals, RootSteps, y
<1>5. x \in Local /\ Evicted(x, y)
  BY <1>1, <1>2, <1>4, EvictedTyped DEF y
<1>6. y.op \in {"alloc", "range", "pages"} /\ y.ret = "idle"
  BY <1>1, <1>3 DEF FlowOf, Course, Frees, y, AllocSteps, RangeSteps, PageSteps, EvictSteps
<1>7. FlowOf(t, x)
  <2>1. Course(x)
    BY <1>5, <1>6 DEF Evicted, Course, Frees, AllocSteps, RangeSteps, PageSteps, EvictSteps
  <2>2. root_chunk(y.r) \in Chunk /\ root_chunk(y.r)[2] = 0
    BY <1>4, ChunkFacts
  <2>3. x.op = "range" => x.lo .. x.hi \subseteq Root
    <3>1. y.op = "range" => y.lo .. y.hi \subseteq Root
      BY <1>1 DEF FlowOf, Locals, y
    <3>2. y.lo \in Nat /\ y.hi \in Nat
      BY <1>1 DEF Local, y
    <3>3. (y.lo + 1) .. y.hi \subseteq y.lo .. y.hi
      BY <3>2
    <3> QED BY <1>5, <3>1, <3>3 DEF Evicted
  <2>6. y.op = "pages" => y.n # 0
    BY <1>1 DEF FlowOf, Locals, y
  <2>4. Locals(x)
    BY <1>4, <1>5, <1>6, <2>2, <2>3, <2>6 DEF Locals, Evicted, RootSteps, ChunkSteps
  <2>5. (y.op \in {"range", "pages"} <=> t = PThread) /\ x.op = y.op /\ x.pc \notin {"idle", "pma_pin", "set_type"}
    BY <1>1, <1>3, <1>5 DEF FlowOf, y, Evicted
  <2> QED BY <1>6, <2>1, <2>4, <2>5 DEF FlowOf
<1>8. RestTyped'
  BY StateTyped DEF evicted, RestTyped
<1> QED BY <1>2, <1>4, <1>5, <1>7, <1>8, StepTyped DEF y

LEMMA EvictMergeStep ==
  ASSUME TypeInv, NEW t \in Thread, EvictMerge(t)
  PROVE  /\ TypeInv' /\ Moved(t) /\ th[t].r \in Root
         /\ \/ (th[t].op = "range" \/ t \in Block) /\ Evicted(th'[t], th[t])
            \/ /\ ~(th[t].op = "range" \/ t \in Block)
               /\ th'[t].pc = "pma_pin" /\ SameLocals(th'[t], th[t])
<1>1. th[t] \in Local /\ FlowOf(t, th[t]) /\ p \in PmmType /\ ListsInjective(p) /\ RestTyped
  BY ThreadTyped, StateTyped
<1>2. th[t].pc = "merge" /\ p' = evict_merge(p, th[t].r) /\ UNCHANGED <<pma_vars, clients>>
  BY DEF EvictMerge, at
<1>3. PICK r \in Root : r = th[t].r
  BY <1>1, <1>2 DEF FlowOf, Locals, RootSteps
<1>4. p' \in PmmType /\ ListsInjective(p)'
  <2>1. p' = evict_merge(p, r)
    BY <1>2, <1>3
  <2>2. SameLists(p, p')
    BY <1>1, <2>1, EvictMerged
  <2> QED BY <2>2 DEF SameLists, ListsInjective
<1>5. lock' \in Thread \cup {NoThread} => RestTyped'
  BY <1>2, RestUnchanged
<1>6. CASE th[t].op = "range" \/ t \in Block
  <2>1. evicted(t)
    BY <1>6 DEF EvictMerge
  <2> QED BY <1>2, <1>4, <1>5, <1>6, <2>1, EvictedStep
<1>7. CASE ~(th[t].op = "range" \/ t \in Block)
  <2> DEFINE y == th[t]
             x == [y EXCEPT !.pc = "pma_pin"]
  <2>1. becomes(t, x) /\ lock' = lock
    BY <1>7 DEF EvictMerge, goto
  <2>2. y.pc = "merge" /\ y.op # "range" /\ t \notin Block /\ y.r = r
    BY <1>2, <1>3, <1>7
  <2> HIDE DEF y
  <2>3. x \in Local /\ x.pc = "pma_pin" /\ SameLocals(x, y)
    BY <1>1, GotoTyped DEF Steps, y
  <2> HIDE DEF x
  <2>4. FlowOf(t, x)
    BY <1>1, <2>2, <2>3 DEF FlowOf, Course, Frees, Locals, SameLocals, AllocSteps, RangeSteps, PageSteps,
       EvictSteps, RootSteps, ChunkSteps, idle, y
  <2>5. RestTyped'
    BY <1>1, <1>5, <2>1 DEF RestTyped
  <2> QED BY <1>3, <1>4, <1>7, <2>1, <2>3, <2>4, <2>5, StepTyped DEF y
<1> QED BY <1>6, <1>7


LEMMA EvictElevatedStep ==
  ASSUME TypeInv, NEW t \in Thread, EvictElevated(t)
  PROVE  /\ TypeInv' /\ Moved(t)
         /\ Kept(th'[t], th[t]) /\ th'[t].c = th[t].c /\ th'[t].r = th[t].r /\ th'[t].batch = th[t].batch /\ th'[t].pc = "free_root" /\ th[t].r \in Root
         /\ th'[t].ret = IF th[t].op = "range" THEN "range_error" ELSE "pick"
<1>0. t \in Thread
  BY Threads
<1>1. th[t] \in Local /\ FlowOf(t, th[t])
  BY <1>0, ThreadTyped
<1> DEFINE y == th[t]
           ret == IF y.op = "range" THEN "range_error" ELSE "pick"
           x == [y EXCEPT !.pc = "free_root", !.ret = ret]
<1>3. y.pc = "merge" /\ UNCHANGED <<pma_vars, clients>> /\ lock' = lock /\ p' = evict_merge(p, y.r)
  BY DEF EvictElevated, at
<1>4. y.r \in Root
  BY <1>1, <1>3 DEF FlowOf, Locals, RootSteps
<1>5. "free_root" \in Steps /\ ret \in Steps /\ (y.op = "range" => ret = "range_error") /\ (y.op # "range" => ret = "pick")
  BY DEF Steps
<1> HIDE DEF ret
<1>6. becomes(t, x)
  BY DEF EvictElevated, goto, ret
<1> HIDE DEF y
<1>7. x \in Local /\ Kept(x, y) /\ x.c = y.c /\ x.r = y.r /\ x.batch = y.batch /\ x.pc = "free_root" /\ x.ret = ret
  BY <1>1, <1>5 DEF Local, Kept, y
<1> HIDE DEF x
<1>8. FlowOf(t, x)
  BY <1>0, <1>1, <1>3, <1>7, <1>4, <1>5, Threads DEF FlowOf, Course, Frees, Locals, Kept, AllocSteps, RangeSteps, PageSteps,
     EvictSteps, RootSteps, ChunkSteps, idle, y
<1>9. p' \in PmmType /\ ListsInjective(p)'
  <2>1. SameLists(p, p')
    BY <1>3, <1>4, StateTyped, EvictMerged
  <2> QED BY <2>1 DEF SameLists, ListsInjective
<1>10. RestTyped'
  BY <1>3, StateTyped, RestUnchanged DEF RestTyped
<1>11. TypeInv' /\ Moved(t) /\ th'[t] = x
  BY <1>0, <1>6, <1>7, <1>8, <1>9, <1>10, StepTyped
<1> QED BY <1>3, <1>7, <1>11, <1>4 DEF y, ret

LEMMA PmaPinStep ==
  ASSUME TypeInv, NEW t \in Thread, PmaPin(t)
  PROVE  /\ TypeInv' /\ Moved(t) /\ th'[t].pc = "set_type" /\ SameLocals(th'[t], th[t])
         /\ th[t].r \in Root /\ th[t].r \notin evicting
<1>1. th[t] \in Local /\ FlowOf(t, th[t]) /\ p \in PmmType /\ ListsInjective(p) /\ RestTyped
  BY ThreadTyped, StateTyped
<1>2. /\ th[t].pc = "pma_pin" /\ UNCHANGED <<p, lock, readers, evicting, clients>>
      /\ pma' = [pma EXCEPT ![th[t].r] = "pinned"] /\ th[t].r \notin evicting
  BY DEF PmaPin, at
<1>3. PICK r \in Root : r = th[t].r
  BY <1>1, <1>2 DEF FlowOf, Locals, RootSteps
<1>4. p' \in PmmType /\ ListsInjective(p)'
  BY <1>1, <1>2 DEF ListsInjective
<1>5. RestTyped'
  <2>1. pma' = [pma EXCEPT ![r] = "pinned"]
    BY <1>2, <1>3
  <2>2. pma' \in [Root -> {"free", "unpinned", "pinned", "rm"}]
    BY <1>1, <2>1 DEF RestTyped
  <2> QED BY <1>1, <1>2, <2>2 DEF RestTyped, clients
<1> DEFINE y == th[t]
           x == [y EXCEPT !.pc = "set_type"]
<1>6. becomes(t, x)
  BY DEF PmaPin, goto
<1> HIDE DEF y
<1>7. x \in Local /\ x.pc = "set_type" /\ SameLocals(x, y)
  BY <1>1, GotoTyped DEF Steps, y
<1> HIDE DEF x
<1>8. FlowOf(t, x)
  BY <1>1, <1>2, <1>7 DEF FlowOf, Course, Frees, Locals, SameLocals, AllocSteps, RangeSteps, PageSteps,
     EvictSteps, RootSteps, ChunkSteps, idle, y
<1> QED BY <1>2, <1>3, <1>4, <1>5, <1>6, <1>7, <1>8, StepTyped DEF y

LEMMA SetTypeStep ==
  ASSUME TypeInv, NEW t \in Thread, SetType(t)
  PROVE  TypeInv' /\ Moved(t) /\ Evicted(th'[t], th[t]) /\ th[t].r \in Root
<1>1. th[t] \in Local /\ FlowOf(t, th[t]) /\ p \in PmmType /\ ListsInjective(p) /\ RestTyped
  BY ThreadTyped, StateTyped
<1>2. th[t].pc = "set_type" /\ evicted(t) /\ UNCHANGED <<pma_vars, clients>>
  BY DEF SetType, at
<1>3. PICK r \in Root : r = th[t].r
  BY <1>1, <1>2 DEF FlowOf, Locals, RootSteps
<1>4. p' \in PmmType /\ ListsInjective(p)'
  <2>1. p' = [p EXCEPT !.type[r] = "KERNEL"]
    BY <1>3 DEF SetType
  <2>2. "KERNEL" \in MemoryTypes
    BY DEF MemoryTypes
  <2>3. SameLists(p, p')
    BY <1>1, <2>1, <2>2, TypeSet
  <2> QED BY <2>3 DEF SameLists, ListsInjective
<1>5. lock' \in Thread \cup {NoThread} => RestTyped'
  BY <1>2, RestUnchanged
<1> QED BY <1>2, <1>4, <1>5, EvictedStep

LEMMA PmaPinInUseStep ==
  ASSUME TypeInv, NEW t \in Thread, PmaPinInUse(t)
  PROVE  /\ TypeInv' /\ Moved(t)
         /\ Kept(th'[t], th[t]) /\ th'[t].c = th[t].c /\ th'[t].r = th[t].r /\ th'[t].batch = th[t].batch /\ th'[t].pc = "free_root" /\ th[t].r \in Root
         /\ th'[t].ret = "pick"
<1>0. t \in Thread
  BY Threads
<1>1. th[t] \in Local /\ FlowOf(t, th[t])
  BY <1>0, ThreadTyped
<1> DEFINE y == th[t]
           x == [y EXCEPT !.pc = "free_root", !.ret = "pick"]
<1>3. y.pc = "pma_pin" /\ UNCHANGED <<pma_vars, clients>> /\ lock' = lock /\ p' = p
  BY DEF PmaPinInUse, at
<1>4. y.r \in Root
  BY <1>1, <1>3 DEF FlowOf, Locals, RootSteps
<1>5. "free_root" \in Steps /\ "pick" \in Steps
  BY DEF Steps
<1>6. becomes(t, x)
  BY DEF PmaPinInUse, goto
<1> HIDE DEF y
<1>7. x \in Local /\ Kept(x, y) /\ x.c = y.c /\ x.r = y.r /\ x.batch = y.batch /\ x.pc = "free_root" /\ x.ret = "pick"
  BY <1>1, <1>5 DEF Local, Kept, y
<1> HIDE DEF x
<1>8. FlowOf(t, x)
  BY <1>0, <1>1, <1>3, <1>7, <1>4, <1>5, Threads DEF FlowOf, Course, Frees, Locals, Kept, AllocSteps, RangeSteps, PageSteps,
     EvictSteps, RootSteps, ChunkSteps, idle, y
<1>9. p' \in PmmType /\ ListsInjective(p)'
  BY <1>3, StateTyped DEF ListsInjective
<1>10. RestTyped'
  BY <1>3, StateTyped, RestUnchanged DEF RestTyped
<1>11. TypeInv' /\ Moved(t) /\ th'[t] = x
  BY <1>0, <1>6, <1>7, <1>8, <1>9, <1>10, StepTyped
<1> QED BY <1>3, <1>7, <1>11, <1>4 DEF y

LEMMA AbortStep ==
  ASSUME TypeInv, NEW t \in Thread, Abort(t)
  PROVE  /\ TypeInv' /\ Moved(t)
         /\ Kept(th'[t], th[t]) /\ th'[t].c = th[t].c /\ th'[t].r = th[t].r /\ th'[t].ret = th[t].ret /\ th'[t].batch = th[t].batch /\ th'[t].pc = "abort_walk" /\ th[t].r \in Root
<1>0. t \in Thread
  BY Threads
<1>1. th[t] \in Local /\ FlowOf(t, th[t])
  BY <1>0, ThreadTyped
<1> DEFINE y == th[t]
           x == [y EXCEPT !.pc = "abort_walk", !.i = 0]
<1>3. y.pc = "abort" /\ UNCHANGED <<pma_vars, clients>> /\ lock' = lock
  BY DEF Abort, at
<1>4. y.r \in Root
  BY <1>1, <1>3 DEF FlowOf, Locals, RootSteps
<1>5. "abort_walk" \in Steps /\ 0 \in 0 .. NSub + 1
  BY NSubAssumption DEF Steps
<1>6. becomes(t, x)
  BY DEF Abort, goto
<1> HIDE DEF y
<1>7. x \in Local /\ Kept(x, y) /\ x.c = y.c /\ x.r = y.r /\ x.ret = y.ret /\ x.batch = y.batch /\ x.pc = "abort_walk"
  BY <1>1, <1>5 DEF Local, Kept, y
<1> HIDE DEF x
<1>8. FlowOf(t, x)
  BY <1>0, <1>1, <1>3, <1>7, <1>4, Threads DEF FlowOf, Course, Frees, Locals, Kept, AllocSteps, RangeSteps, PageSteps,
     EvictSteps, RootSteps, ChunkSteps, idle, y
<1>9. p' \in PmmType /\ ListsInjective(p)'
  <2>1. PICK d : p' = evict_abort(p, y.r, d)
    BY DEF Abort, y
  <2>2. Frame(p, p', y.r)
    BY <1>4, <2>1, StateTyped, EvictionAborted
  <2> QED BY <2>2 DEF Frame, ListsInjective
<1>10. RestTyped'
  BY <1>3, StateTyped, RestUnchanged DEF RestTyped
<1>11. TypeInv' /\ Moved(t) /\ th'[t] = x
  BY <1>0, <1>6, <1>7, <1>8, <1>9, <1>10, StepTyped
<1> QED BY <1>3, <1>7, <1>11, <1>4 DEF y

(* One turn of the walk that frees the pinned chunks of an aborted         *)
(* eviction.                                                               *)
LEMMA AbortWalkTyped ==
  ASSUME NEW y \in Local, y.r \in Root, NEW e \in Steps, NEW x,
         \/ x = [y EXCEPT !.pc = "abort_next", !.i = 0, !.c = NoChunk, !.ret = e]
         \/ /\ y.i <= NSub
            /\ \/ x = [y EXCEPT !.pc = "free_locked", !.c = <<y.r, y.i>>, !.i = 0, !.ret = "abort_walk"]
               \/ x = [y EXCEPT !.i = y.i + 1]
  PROVE  /\ x \in Local /\ Kept(x, y) /\ x.r = y.r /\ x.batch = y.batch
         /\ \/ x.pc = "abort_next" /\ x.ret = e
            \/ x.pc = "free_locked" /\ x.c = <<y.r, y.i>> /\ x.c \in Chunk /\ x.ret = "abort_walk"
            \/ x.pc = y.pc /\ x.c = y.c /\ x.ret = y.ret
<1>1. {"abort_next", "free_locked", "abort_walk"} \subseteq Steps /\ 0 \in 0 .. NSub + 1 /\ y.i \in 0 .. NSub + 1
  BY NSubAssumption DEF Steps, Local
<1>2. CASE x = [y EXCEPT !.pc = "abort_next", !.i = 0, !.c = NoChunk, !.ret = e]
  BY <1>1, <1>2 DEF Local, Kept
<1>3. CASE /\ y.i <= NSub
           /\ \/ x = [y EXCEPT !.pc = "free_locked", !.c = <<y.r, y.i>>, !.i = 0, !.ret = "abort_walk"]
              \/ x = [y EXCEPT !.i = y.i + 1]
  <2>1. y.i \in 0 .. NSub /\ y.i + 1 \in 0 .. NSub + 1
    BY <1>1, <1>3, NSubAssumption
  <2>2. <<y.r, y.i>> \in Chunk
    BY <2>1, ChunkFacts
  <2>3. CASE x = [y EXCEPT !.pc = "free_locked", !.c = <<y.r, y.i>>, !.i = 0, !.ret = "abort_walk"]
    <3>1. PICK c \in Chunk : c = <<y.r, y.i>>
      BY <2>2
    <3>2. x = [y EXCEPT !.pc = "free_locked", !.c = c, !.i = 0, !.ret = "abort_walk"]
      BY <1>3, <2>3, <3>1
    <3> QED BY <1>1, <3>1, <3>2 DEF Local, Kept
  <2>4. CASE x = [y EXCEPT !.i = y.i + 1]
    <3>1. PICK i \in 0 .. NSub + 1 : i = y.i + 1
      BY <2>1
    <3>2. x = [y EXCEPT !.i = i]
      BY <1>3, <2>4, <3>1
    <3> QED BY <3>2 DEF Local, Kept
  <2> QED BY <1>3, <2>3, <2>4
<1> QED BY <1>2, <1>3

LEMMA AbortWalkStep ==
  ASSUME TypeInv, NEW t \in Thread, AbortWalk(t)
  PROVE  /\ TypeInv' /\ Moved(t) /\ th[t].r \in Root
         /\ Kept(th'[t], th[t]) /\ th'[t].r = th[t].r /\ th'[t].batch = th[t].batch
<1>1. th[t] \in Local /\ FlowOf(t, th[t])
  BY ThreadTyped
<1> DEFINE y == th[t]
           w == y.i > NSub \/ (y.i > 0 /\ p.state[root_chunk(y.r)] # "IS_SPLIT")
           e == failed_step(t)
           x == IF w THEN [y EXCEPT !.pc = "abort_next", !.i = 0, !.c = NoChunk, !.ret = e]
                ELSE IF p.state[<<y.r, y.i>>] = "TEMP_PINNED"
                  THEN [y EXCEPT !.pc = "free_locked", !.c = <<y.r, y.i>>, !.i = 0, !.ret = "abort_walk"]
                ELSE [y EXCEPT !.i = y.i + 1]
<1>2. becomes(t, x) /\ y.pc = "abort_walk" /\ UNCHANGED <<p, lock, pma_vars, clients>>
  BY DEF AbortWalk, at
<1>3. y.r \in Root
  BY <1>1, <1>2 DEF FlowOf, Locals, RootSteps
<1>4. y.i \in 0 .. NSub + 1
  BY <1>1 DEF Local
<1>5. y.op \in {"alloc", "range", "pages"} /\ y.ret = "idle"
  BY <1>1, <1>2 DEF FlowOf, Course, Frees, AllocSteps, RangeSteps, PageSteps, EvictSteps
<1>6. /\ e \in Steps
      /\ y.op = "alloc" => e = "alloc_error"
      /\ y.op = "range" => e = "range_error"
      /\ y.op = "pages" => e = "pages_error"
  BY <1>5 DEF failed_step, Steps
<1>7. ~w => y.i <= NSub
  BY <1>4, NSubAssumption
<1> HIDE DEF y, w, e
<1>8. /\ x \in Local /\ Kept(x, y) /\ x.r = y.r /\ x.batch = y.batch
      /\ \/ x.pc = "abort_next" /\ x.ret = e
         \/ x.pc = "free_locked" /\ x.c = <<y.r, y.i>> /\ x.c \in Chunk /\ x.ret = "abort_walk"
         \/ x.pc = y.pc /\ x.c = y.c /\ x.ret = y.ret
  <2> HIDE DEF x
  <2>1. \/ x = [y EXCEPT !.pc = "abort_next", !.i = 0, !.c = NoChunk, !.ret = e]
        \/ /\ y.i <= NSub
           /\ \/ x = [y EXCEPT !.pc = "free_locked", !.c = <<y.r, y.i>>, !.i = 0, !.ret = "abort_walk"]
              \/ x = [y EXCEPT !.i = y.i + 1]
    BY <1>7 DEF x
  <2>2. y \in Local
    BY <1>1 DEF y
  <2> QED BY <1>3, <1>6, <2>1, <2>2, AbortWalkTyped
<1> HIDE DEF x
<1>9. FlowOf(t, x)
  <2>1. CASE x.pc = "abort_next" /\ x.ret = e
    BY <1>1, <1>2, <1>3, <1>5, <1>6, <1>8, <2>1 DEF FlowOf, Course, Frees, Locals, Kept, AllocSteps, RangeSteps,
       PageSteps, EvictSteps, RootSteps, ChunkSteps, idle, y
  <2>2. CASE x.pc = "free_locked" /\ x.c = <<y.r, y.i>> /\ x.c \in Chunk /\ x.ret = "abort_walk"
    BY <1>1, <1>2, <1>3, <1>5, <1>6, <1>8, <2>2 DEF FlowOf, Course, Frees, Locals, Kept, AllocSteps, RangeSteps,
       PageSteps, EvictSteps, RootSteps, ChunkSteps, idle, y
  <2>3. CASE x.pc = y.pc /\ x.c = y.c /\ x.ret = y.ret
    BY <1>1, <1>2, <1>3, <1>5, <1>6, <1>8, <2>3 DEF FlowOf, Course, Frees, Locals, Kept, AllocSteps, RangeSteps,
       PageSteps, EvictSteps, RootSteps, ChunkSteps, idle, y
  <2> QED BY <1>8, <2>1, <2>2, <2>3
<1>10. p' \in PmmType /\ ListsInjective(p)' /\ RestTyped'
  BY <1>2, StateTyped, RestUnchanged DEF ListsInjective, RestTyped
<1> QED BY <1>2, <1>3, <1>8, <1>9, <1>10, StepTyped DEF y

-----------------------------------------------------------------------------
(* Freeing.                                                                *)

LEMMA FreeTyped ==
  ASSUME NEW q \in PmmType, ListsInjective(q), NEW c \in Chunk, NEW d
  PROVE  LET u == chunk_free_locked(q, c, d)
         IN  u \in PmmType /\ ListsInjective(u) /\ Frame(q, u, c[1])
<1>1. c[1] \in Root /\ q.in_eviction[c[1]] \in BOOLEAN
  BY ChunkFacts, Fields
<1>2. Frame(q, chunk_free_locked(q, c, d), c[1])
  BY Freed, FreedInEviction
<1> QED BY <1>2 DEF Frame

LEMMA FreedOrPrepared ==
  ASSUME NEW q \in PmmType, ListsInjective(q), NEW c \in Chunk, NEW d
  PROVE  LET u == free_or_prepare_for_merge(q, c, d)
         IN  u \in PmmType /\ ListsInjective(u)
<1>1. PICK u : u = chunk_free_locked(q, c, d)
  OBVIOUS
<1>2. u \in PmmType /\ ListsInjective(u)
  BY <1>1, FreeTyped
<1>3. PICK r \in Root : r = c[1]
  BY ChunkFacts
<1>4. SameLists(u, prepare_for_merge(u, r))
  BY <1>2, MergePrepared
<1>5. prepare_for_merge(u, r) \in PmmType /\ ListsInjective(prepare_for_merge(u, r))
  BY <1>4 DEF SameLists
<1>6. \/ free_or_prepare_for_merge(q, c, d) = u
      \/ free_or_prepare_for_merge(q, c, d) = prepare_for_merge(u, r)
  BY <1>1, <1>3 DEF free_or_prepare_for_merge
<1> QED BY <1>2, <1>5, <1>6

(* Thread t returns from a subroutine.                                     *)
Resumed(x, y) ==
  \/ y.ret = "idle" /\ x = idle
  \/ /\ y.ret # "idle" /\ x.pc = y.ret /\ x.ret = "idle"
     /\ Kept(x, y) /\ x.c = y.c /\ x.r = y.r /\ x.batch = y.batch

LEMMA ResumeTyped ==
  ASSUME NEW t, th[t] \in Local
  PROVE  resumed(t) \in Local /\ Resumed(resumed(t), th[t])
<1> DEFINE y == th[t]
           x == [y EXCEPT !.pc = y.ret, !.ret = "idle"]
<1>1. y \in Local /\ resumed(t) = IF y.ret = "idle" THEN idle ELSE x
  BY DEF resumed
<1> HIDE DEF y
<1>2. x \in Local /\ x.pc = y.ret /\ x.ret = "idle" /\ Kept(x, y) /\ x.c = y.c /\ x.r = y.r /\ x.batch = y.batch
  <2>1. "idle" \in Steps
    BY DEF Steps
  <2> QED BY <1>1, <2>1 DEF Local, Kept
<1> HIDE DEF x
<1>3. CASE y.ret = "idle"
  BY <1>1, <1>3, IdleTyped DEF Resumed, y
<1>4. CASE y.ret # "idle"
  <2>1. resumed(t) = x
    BY <1>1, <1>4
  <2>2. Resumed(x, y)
    BY <1>2, <1>4 DEF Resumed
  <2> QED BY <1>2, <2>1, <2>2 DEF y
<1> QED BY <1>3, <1>4

LEMMA TryFreeStep ==
  ASSUME TypeInv, NEW t \in Thread, TryFree(t)
  PROVE  /\ TypeInv' /\ Moved(t) /\ th[t].c \in Chunk
         /\ IF chunk_is_root_chunk(th[t].c)
            THEN th'[t].pc = "next" /\ SameLocals(th'[t], th[t])
            ELSE Resumed(th'[t], th[t])
<1>1. th[t] \in Local /\ FlowOf(t, th[t]) /\ p \in PmmType /\ ListsInjective(p) /\ RestTyped
  BY ThreadTyped, StateTyped
<1>2. th[t].pc = "free" /\ UNCHANGED <<lock, pma_vars, clients>>
  BY DEF TryFree, at
<1>3. th[t].c \in Chunk
  BY <1>1, <1>2 DEF FlowOf, Locals, ChunkSteps
<1>4. p' \in PmmType /\ ListsInjective(p)'
  <2>1. PICK d : p' = chunk_free_locked(p, th[t].c, d)
    BY DEF TryFree
  <2>2. PICK c \in Chunk : c = th[t].c
    BY <1>3
  <2>3. p' = chunk_free_locked(p, c, d)
    BY <2>1, <2>2
  <2>4. Frame(p, p', c[1])
    BY <1>1, <2>3, FreeTyped
  <2> QED BY <2>4 DEF Frame, ListsInjective
<1>5. RestTyped'
  BY <1>1, <1>2, RestUnchanged DEF RestTyped
<1>6. CASE chunk_is_root_chunk(th[t].c)
  <2> DEFINE y == th[t]
             x == [y EXCEPT !.pc = "next"]
  <2>1. becomes(t, x)
    BY <1>6 DEF TryFree, goto
  <2> HIDE DEF y
  <2>2. x \in Local /\ x.pc = "next" /\ SameLocals(x, y)
    BY <1>1, GotoTyped DEF Steps, y
  <2> HIDE DEF x
  <2>3. FlowOf(t, x)
    BY <1>1, <1>2, <2>2 DEF FlowOf, Course, Frees, Locals, SameLocals, AllocSteps, RangeSteps, PageSteps,
       EvictSteps, RootSteps, ChunkSteps, idle, y
  <2> QED BY <1>3, <1>4, <1>5, <1>6, <2>1, <2>2, <2>3, StepTyped DEF y
<1>7. CASE ~chunk_is_root_chunk(th[t].c)
  <2> DEFINE y == th[t]
  <2>1. PICK x : x = resumed(t)
    OBVIOUS
  <2>2. becomes(t, x)
    BY <1>7, <2>1 DEF TryFree, resume
  <2> HIDE DEF y
  <2>3. x \in Local /\ Resumed(x, y)
    BY <1>1, <2>1, ResumeTyped DEF y
  <2>4. FlowOf(t, x)
    BY <1>1, <1>2, <2>3, IdleTyped DEF FlowOf, Course, Frees, Locals, Resumed, Kept, AllocSteps, RangeSteps,
       PageSteps, EvictSteps, RootSteps, ChunkSteps, y
  <2> QED BY <1>3, <1>4, <1>5, <1>7, <2>2, <2>3, <2>4, StepTyped DEF y
<1> QED BY <1>6, <1>7

LEMMA FreeLockedStep ==
  ASSUME TypeInv, NEW t \in Thread, FreeLocked(t)
  PROVE  /\ TypeInv' /\ Moved(t) /\ th[t].c \in Chunk
         /\ IF chunk_is_last_allocated_child(p, th[t].c)
              THEN th'[t].pc = "merge_locked" /\ SameLocals(th'[t], th[t])
            ELSE IF th[t].op \in {"free", "release"}
              THEN th'[t].pc = "next" /\ SameLocals(th'[t], th[t])
            ELSE Resumed(th'[t], th[t])
<1>1. th[t] \in Local /\ FlowOf(t, th[t]) /\ p \in PmmType /\ ListsInjective(p) /\ RestTyped
  BY ThreadTyped, StateTyped
<1>2. th[t].pc = "free_locked" /\ UNCHANGED <<pma_vars, clients>>
  BY DEF FreeLocked, at
<1>3. th[t].c \in Chunk
  BY <1>1, <1>2 DEF FlowOf, Locals, ChunkSteps
<1>4. p' \in PmmType /\ ListsInjective(p)'
  <2>1. PICK d : p' = free_or_prepare_for_merge(p, th[t].c, d)
    BY DEF FreeLocked
  <2>2. PICK c \in Chunk : c = th[t].c
    BY <1>3
  <2>3. p' = free_or_prepare_for_merge(p, c, d)
    BY <2>1, <2>2
  <2> QED BY <1>1, <2>3, FreedOrPrepared DEF ListsInjective
<1>5. RestTyped'
  <2>1. lock' \in Thread \cup {NoThread}
    BY <1>1 DEF FreeLocked, release, RestTyped
  <2> QED BY <1>2, <2>1, RestUnchanged
<1> DEFINE y == th[t]
<1>6. \/ Frees(y)
      \/ y.op = "alloc" /\ y.ret = "alloc_error" /\ y.c[2] = 0
      \/ y.op \in {"alloc", "range", "pages"} /\ y.ret = "abort_walk" /\ y.r \in Root
  BY <1>1, <1>2 DEF FlowOf, Course, Frees, Locals, AllocSteps, RangeSteps, PageSteps, EvictSteps
<1>7. CASE chunk_is_last_allocated_child(p, th[t].c)
  <2> DEFINE x == [y EXCEPT !.pc = "merge_locked"]
  <2>1. becomes(t, x)
    BY <1>7 DEF FreeLocked, goto
  <2>2. y.c[2] # 0 /\ y.c \in Chunk
    BY <1>3, <1>7, ChunkFacts DEF chunk_is_last_allocated_child, chunk_is_root_chunk
  <2> HIDE DEF y
  <2>3. x \in Local /\ x.pc = "merge_locked" /\ SameLocals(x, y)
    BY <1>1, GotoTyped DEF Steps, y
  <2> HIDE DEF x
  <2>4. FlowOf(t, x)
    BY <1>1, <1>2, <1>6, <2>2, <2>3 DEF FlowOf, Course, Frees, Locals, SameLocals, AllocSteps, RangeSteps, PageSteps,
       EvictSteps, RootSteps, ChunkSteps, y
  <2> QED BY <1>3, <1>4, <1>5, <1>7, <2>1, <2>3, <2>4, StepTyped DEF y
<1>8. CASE ~chunk_is_last_allocated_child(p, th[t].c) /\ y.op \in {"free", "release"}
  <2> DEFINE x == [y EXCEPT !.pc = "next"]
  <2>1. becomes(t, x)
    BY <1>8 DEF FreeLocked, goto
  <2> HIDE DEF y
  <2>3. x \in Local /\ x.pc = "next" /\ SameLocals(x, y)
    BY <1>1, GotoTyped DEF Steps, y
  <2> HIDE DEF x
  <2>4. FlowOf(t, x)
    BY <1>1, <1>2, <1>6, <1>8, <2>3 DEF FlowOf, Course, Frees, Locals, SameLocals, AllocSteps, RangeSteps, PageSteps,
       EvictSteps, RootSteps, ChunkSteps, y
  <2> QED BY <1>3, <1>4, <1>5, <1>8, <2>1, <2>3, <2>4, StepTyped DEF y
<1>9. CASE ~chunk_is_last_allocated_child(p, th[t].c) /\ y.op \notin {"free", "release"}
  <2>1. PICK x : x = resumed(t)
    OBVIOUS
  <2>2. becomes(t, x)
    BY <1>9, <2>1 DEF FreeLocked, resume
  <2> HIDE DEF y
  <2>3. x \in Local /\ Resumed(x, y)
    BY <1>1, <2>1, ResumeTyped DEF y
  <2>4. FlowOf(t, x)
    BY <1>1, <1>2, <1>6, <1>9, <2>3 DEF FlowOf, Course, Frees, Locals, Resumed, Kept, AllocSteps, RangeSteps, PageSteps,
       EvictSteps, RootSteps, ChunkSteps, y
  <2> QED BY <1>3, <1>4, <1>5, <1>9, <2>2, <2>3, <2>4, StepTyped DEF y
<1> QED BY <1>7, <1>8, <1>9


LEMMA MergeLockedStep ==
  ASSUME TypeInv, NEW t \in Thread, MergeLocked(t)
  PROVE  /\ TypeInv' /\ Moved(t)
         /\ Kept(th'[t], th[t]) /\ th'[t].r = th[t].r /\ th'[t].ret = th[t].ret /\ th'[t].batch = th[t].batch /\ th[t].c \in Chunk
         /\ th'[t].c = root_chunk(th[t].c[1]) /\ th'[t].pc = "free_locked"
<1>0. t \in Thread
  BY Threads
<1>1. th[t] \in Local /\ FlowOf(t, th[t])
  BY <1>0, ThreadTyped
<1> DEFINE y == th[t]
           c == root_chunk(y.c[1])
           x == [y EXCEPT !.c = c, !.pc = "free_locked"]
<1>3. y.pc = "merge_locked" /\ UNCHANGED <<pma_vars, clients>> /\ lock' = lock /\ p' = merge_gpu_chunk(p, y.c[1])
  BY DEF MergeLocked, at
<1>4. y.c \in Chunk /\ y.c[1] \in Root
  <2>1. y.c \in Chunk
    BY <1>1, <1>3 DEF FlowOf, Locals, ChunkSteps
  <2> QED BY <2>1, ChunkFacts
<1>5. c \in Chunk /\ "free_locked" \in Steps
  BY <1>4, ChunkFacts DEF Steps
<1> HIDE DEF c
<1>6. becomes(t, x)
  BY DEF MergeLocked, goto, c
<1> HIDE DEF y
<1>7. x \in Local /\ Kept(x, y) /\ x.pc = "free_locked" /\ x.c = c /\ x.r = y.r /\ x.ret = y.ret /\ x.batch = y.batch
  BY <1>1, <1>5 DEF Local, Kept, y
<1> HIDE DEF x
<1>8. FlowOf(t, x)
  BY <1>0, <1>1, <1>3, <1>7, <1>5, Threads DEF FlowOf, Course, Frees, Locals, Kept, AllocSteps, RangeSteps, PageSteps,
     EvictSteps, RootSteps, ChunkSteps, idle, y
<1>9. p' \in PmmType /\ ListsInjective(p)'
  <2>1. PICK r \in Root : r = y.c[1]
    BY <1>4
  <2>2. p' = merge_gpu_chunk(p, r)
    BY <1>3, <2>1
  <2>3. SameLists(p, p')
    BY <2>2, StateTyped, ChunkMerged
  <2> QED BY <2>3 DEF SameLists, ListsInjective
<1>10. RestTyped'
  BY <1>3, StateTyped, RestUnchanged DEF RestTyped
<1>11. TypeInv' /\ Moved(t) /\ th'[t] = x
  BY <1>0, <1>6, <1>7, <1>8, <1>9, <1>10, StepTyped
<1> QED BY <1>3, <1>7, <1>11, <1>4 DEF y, c

LEMMA FreeNextStep ==
  ASSUME TypeInv, NEW t \in Thread, FreeNext(t)
  PROVE  /\ TypeInv' /\ Moved(t)
         /\ Kept(th'[t], th[t]) /\ th'[t].c = th[t].c /\ th'[t].ret = th[t].ret /\ th'[t].batch = th[t].batch /\ th'[t].pc = "free_root"
         /\ th'[t].r \in Root /\ root_chunk(th'[t].r) \in free_list(next_type(t), "root")
         /\ LET c == root_chunk(th'[t].r)
            IN  p' = chunk_pin(root_list_update_locked(p, c, "none", "NONE", "DEL_INIT"), c)
<1>0. t \in Thread
  BY Threads
<1>1. th[t] \in Local /\ FlowOf(t, th[t])
  BY <1>0, ThreadTyped
<1>2. PICK c \in free_list(next_type(t), "root") :
        /\ p' = chunk_pin(root_list_update_locked(p, c, "none", "NONE", "DEL_INIT"), c)
        /\ becomes(t, [th[t] EXCEPT !.r = c[1], !.pc = "free_root"])
  BY DEF FreeNext
<1> DEFINE y == th[t]
           r == c[1]
           x == [y EXCEPT !.r = r, !.pc = "free_root"]
<1>3. y.pc \in {"next", "abort_next"} /\ UNCHANGED <<pma_vars, clients>> /\ lock' = lock
  BY DEF FreeNext, at
<1>4. c \in Chunk /\ c = root_chunk(c[1])
  BY StateTyped, FreeListed
<1>5. r \in Root /\ c = root_chunk(r) /\ "free_root" \in Steps
  BY <1>4, ChunkFacts DEF Steps
<1> HIDE DEF r
<1>6. becomes(t, x)
  BY <1>2 DEF r
<1> HIDE DEF y
<1>7. x \in Local /\ Kept(x, y) /\ x.c = y.c /\ x.ret = y.ret /\ x.batch = y.batch /\ x.r = r /\ x.pc = "free_root"
  BY <1>1, <1>5 DEF Local, Kept, y
<1> HIDE DEF x
<1>8. FlowOf(t, x)
  BY <1>0, <1>1, <1>3, <1>7, <1>5, Threads DEF FlowOf, Course, Frees, Locals, Kept, AllocSteps, RangeSteps, PageSteps,
     EvictSteps, RootSteps, ChunkSteps, idle, y
<1>9. p' \in PmmType /\ ListsInjective(p)'
  <2>1. p' = chunk_pin(root_list_update_locked(p, root_chunk(r), "none", "NONE", "DEL_INIT"), root_chunk(r))
    BY <1>2, <1>5
  <2>2. Frame(p, p', r)
    BY <1>5, <2>1, StateTyped, RootTaken
  <2> QED BY <2>2 DEF Frame, ListsInjective
<1>10. RestTyped'
  BY <1>3, StateTyped, RestUnchanged DEF RestTyped
<1>11. TypeInv' /\ Moved(t) /\ th'[t] = x
  BY <1>0, <1>6, <1>7, <1>8, <1>9, <1>10, StepTyped
<1> QED BY <1>3, <1>7, <1>11, <1>2, <1>5 DEF y

LEMMA FreeNextNoneStep ==
  ASSUME TypeInv, NEW t \in Thread, FreeNextNone(t)
  PROVE  /\ TypeInv' /\ Moved(t)
         /\ Resumed(th'[t], th[t])
<1>0. t \in Thread
  BY Threads
<1>1. th[t] \in Local /\ FlowOf(t, th[t])
  BY <1>0, ThreadTyped
<1> DEFINE y == th[t]
           x == resumed(t)
<1>3. y.pc \in {"next", "abort_next"} /\ UNCHANGED <<pma_vars, clients>> /\ lock' = lock /\ p' = p
  BY DEF FreeNextNone, at
<1>6. becomes(t, x)
  BY DEF FreeNextNone, goto, resume
<1> HIDE DEF y
<1>7. x \in Local /\ Resumed(x, y)
  BY <1>1, ResumeTyped DEF Local, Kept, y
<1> HIDE DEF x
<1>8. FlowOf(t, x)
  BY <1>0, <1>1, <1>3, <1>7, IdleTyped, Threads DEF FlowOf, Course, Frees, Locals, Kept, AllocSteps, RangeSteps, PageSteps,
     EvictSteps, RootSteps, ChunkSteps, idle, y, Resumed
<1>9. p' \in PmmType /\ ListsInjective(p)'
  BY <1>3, StateTyped DEF ListsInjective
<1>10. RestTyped'
  BY <1>3, StateTyped, RestUnchanged DEF RestTyped
<1>11. TypeInv' /\ Moved(t) /\ th'[t] = x
  BY <1>0, <1>6, <1>7, <1>8, <1>9, <1>10, StepTyped
<1> QED BY <1>3, <1>7, <1>11 DEF y

LEMMA FreeRootStep ==
  ASSUME TypeInv, NEW t \in Thread, FreeRoot(t)
  PROVE  /\ TypeInv' /\ Moved(t)
         /\ Kept(th'[t], th[t]) /\ th'[t].c = th[t].c /\ th'[t].r = th[t].r /\ th'[t].ret = th[t].ret /\ th'[t].batch = th[t].batch /\ th'[t].pc = "pma_free" /\ th[t].r \in Root
<1>0. t \in Thread
  BY Threads
<1>1. th[t] \in Local /\ FlowOf(t, th[t])
  BY <1>0, ThreadTyped
<1> DEFINE y == th[t]
           x == [y EXCEPT !.pc = "pma_free"]
<1>3. y.pc = "free_root" /\ readers' = readers \cup {t} /\ UNCHANGED <<lock, pma, evicting, clients>> /\ p' = chunk_unpin(p, root_chunk(y.r), "PMA_OWNED")
  BY DEF FreeRoot, at
<1>4. y.r \in Root
  BY <1>1, <1>3 DEF FlowOf, Locals, RootSteps
<1>5. "pma_free" \in Steps
  BY DEF Steps
<1>6. becomes(t, x)
  BY DEF FreeRoot, goto
<1> HIDE DEF y
<1>7. x \in Local /\ Kept(x, y) /\ x.c = y.c /\ x.r = y.r /\ x.ret = y.ret /\ x.batch = y.batch /\ x.pc = "pma_free"
  BY <1>1, <1>5 DEF Local, Kept, y
<1> HIDE DEF x
<1>8. FlowOf(t, x)
  BY <1>0, <1>1, <1>3, <1>7, <1>4, Threads DEF FlowOf, Course, Frees, Locals, Kept, AllocSteps, RangeSteps, PageSteps,
     EvictSteps, RootSteps, ChunkSteps, idle, y
<1>9. p' \in PmmType /\ ListsInjective(p)'
  <2>1. "PMA_OWNED" \in ChunkStates /\ root_chunk(y.r) \in Chunk
    BY <1>4, ChunkFacts DEF ChunkStates
  <2>2. PICK c \in Chunk : c = root_chunk(y.r)
    BY <2>1
  <2>3. p' = chunk_unpin(p, c, "PMA_OWNED")
    BY <1>3, <2>2
  <2>4. SameLists(p, p')
    BY <2>1, <2>3, StateTyped, ChunkUnpinned
  <2> QED BY <2>4 DEF SameLists, ListsInjective
<1>10. RestTyped'
  BY <1>0, <1>3, StateTyped DEF RestTyped, clients
<1>11. TypeInv' /\ Moved(t) /\ th'[t] = x
  BY <1>0, <1>6, <1>7, <1>8, <1>9, <1>10, StepTyped
<1> QED BY <1>3, <1>7, <1>11, <1>4 DEF y

LEMMA PmaFreeStep ==
  ASSUME TypeInv, NEW t \in Thread, PmaFree(t)
  PROVE  /\ TypeInv' /\ Moved(t) /\ th[t].r \in Root
         /\ th'[t].pc = th[t].ret /\ th'[t].batch = (IF th[t].ret = "idle" THEN {} ELSE th[t].batch)
         /\ IF th[t].ret = "pages_next" THEN Resumed(th'[t], th[t])
            ELSE th'[t].r = NoRoot /\ (th[t].ret = "idle" => th'[t] = idle)
         /\ th[t].ret # "idle" => Kept(th'[t], th[t]) /\ th'[t].c = th[t].c /\ th'[t].ret = "idle"
<1>1. th[t] \in Local /\ FlowOf(t, th[t]) /\ p \in PmmType /\ ListsInjective(p) /\ RestTyped
  BY ThreadTyped, StateTyped
<1> DEFINE y == th[t]
           z == resumed(t)
           x == IF y.ret = "pages_next" THEN z ELSE [z EXCEPT !.r = NoRoot]
<1>2. /\ y.pc = "pma_free" /\ UNCHANGED <<p, lock, evicting, clients>> /\ readers' = readers \ {t}
      /\ becomes(t, x) /\ pma' = [pma EXCEPT ![y.r] = IF y.ret = "pages_next" THEN "rm" ELSE "free"]
  BY DEF PmaFree, at
<1>3. y.r \in Root
  BY <1>1, <1>2 DEF FlowOf, Locals, RootSteps
<1>4. z \in Local /\ Resumed(z, y)
  BY <1>1, ResumeTyped
<1> HIDE DEF y, z
<1>5. /\ x \in Local /\ x.pc = z.pc /\ Kept(x, z) /\ x.c = z.c /\ x.ret = z.ret /\ x.batch = z.batch
      /\ IF y.ret = "pages_next" THEN x = z ELSE x.r = NoRoot
      /\ z = idle => x = idle
  <2>1. CASE y.ret = "pages_next"
    BY <1>4, <2>1 DEF Kept
  <2>2. CASE y.ret # "pages_next"
    <3>1. x = [z EXCEPT !.r = NoRoot]
      BY <2>2
    <3> HIDE DEF x
    <3>2. x \in Local /\ x.pc = z.pc /\ Kept(x, z) /\ x.c = z.c /\ x.ret = z.ret /\ x.batch = z.batch /\ x.r = NoRoot
      BY <1>4, <3>1 DEF Local, Kept
    <3>3. z = idle => x = idle
      <4>1. [idle EXCEPT !.r = NoRoot] = idle
        BY IdleTyped DEF Local
      <4> QED BY <3>1, <4>1
    <3> QED BY <2>2, <3>2, <3>3
  <2> QED BY <2>1, <2>2
<1> HIDE DEF x
<1>6. \/ Frees(y)
      \/ y.op = "alloc" /\ y.ret \in {"evict_again", "pick", "alloc_error"}
      \/ y.op = "range" /\ y.ret \in {"spin", "range_error"}
      \/ y.op = "pages" /\ y.ret \in {"pick", "pages_next", "pages_error"}
  BY <1>1, <1>2 DEF FlowOf, Course, Frees, AllocSteps, RangeSteps, PageSteps, EvictSteps, y
<1>7. FlowOf(t, x)
  <2>1. CASE y.ret = "idle"
    BY <1>4, <1>5, <2>1, IdleTyped DEF Resumed
  <2>2. CASE y.ret # "idle"
    <3>1. /\ x.pc = y.ret /\ x.ret = "idle" /\ Kept(x, y)
          /\ y.ret = "pages_next" => x.r = y.r
      BY <1>4, <1>5, <2>2 DEF Resumed, Kept
    <3>2. /\ y.op \in {"range", "pages"} <=> t = PThread
          /\ y.op = "pages" => y.n # 0
          /\ y.op = "range" => y.lo .. y.hi \subseteq Root
      BY <1>1, <1>2 DEF FlowOf, Locals, y
    <3>3. Course(x)
      BY <1>6, <2>2, <3>1 DEF Course, Frees, Kept, AllocSteps, RangeSteps, PageSteps, EvictSteps
    <3>4. Locals(x)
      BY <1>3, <1>6, <2>2, <3>1, <3>2 DEF Locals, Kept, Frees, RootSteps, ChunkSteps
    <3> QED BY <1>6, <2>2, <3>1, <3>2, <3>3, <3>4 DEF FlowOf, Kept, Frees
  <2> QED BY <2>1, <2>2
<1>8. RestTyped'
  <2>1. pma' \in [Root -> {"free", "unpinned", "pinned", "rm"}]
    BY <1>1, <1>2 DEF RestTyped
  <2> QED BY <1>1, <1>2, <2>1 DEF RestTyped, clients
<1>9. p' \in PmmType /\ ListsInjective(p)'
  BY <1>1, <1>2 DEF ListsInjective
<1>10. TypeInv' /\ Moved(t) /\ th'[t] = x
  BY <1>2, <1>5, <1>7, <1>8, <1>9, StepTyped
<1>11. /\ x.pc = y.ret /\ x.batch = (IF y.ret = "idle" THEN {} ELSE y.batch)
       /\ IF y.ret = "pages_next" THEN Resumed(x, y) ELSE x.r = NoRoot /\ (y.ret = "idle" => x = idle)
       /\ y.ret # "idle" => Kept(x, y) /\ x.c = y.c /\ x.ret = "idle"
  <2>1. CASE y.ret = "idle"
    BY <1>4, <1>5, <2>1, IdleTyped DEF Resumed
  <2>2. CASE y.ret # "idle"
    BY <1>4, <1>5, <2>2 DEF Resumed, Kept
  <2> QED BY <2>1, <2>2
<1> QED BY <1>3, <1>10, <1>11 DEF y

LEMMA InPlaceSplitStep ==
  ASSUME TypeInv, NEW t \in Thread, InPlaceSplit(t)
  PROVE  TypeInv' /\ Moved(t) /\ th'[t] = idle /\ t \in Block
<1>1. th[t] \in Local /\ FlowOf(t, th[t]) /\ p \in PmmType /\ ListsInjective(p) /\ RestTyped
  BY ThreadTyped, StateTyped
<1>2. /\ th[t].pc = "in_place_split" /\ becomes(t, idle)
      /\ UNCHANGED <<lock, pma_vars, used_chunks, free_chunks, kchunks>>
  BY DEF InPlaceSplit, at
<1>3. t \in Block
  BY <1>1, <1>2 DEF FlowOf, Course, Frees, AllocSteps, RangeSteps, PageSteps, EvictSteps
<1>4. PICK r \in Root : p' = split_gpu_chunk(p, r) /\ chunks' = [chunks EXCEPT ![t] = subchunks(r)]
  BY DEF InPlaceSplit
<1>5. p' \in PmmType /\ ListsInjective(p)'
  <2>1. SameLists(p, p')
    BY <1>1, <1>4, ChunkSplit
  <2> QED BY <2>1 DEF SameLists, ListsInjective
<1>6. RestTyped'
  <2>1. subchunks(r) \subseteq Chunk
    BY ChunkFacts
  <2>2. chunks' \in [Block -> SUBSET Chunk]
    BY <1>1, <1>4, <2>1 DEF RestTyped
  <2> QED BY <1>1, <1>2, <2>2 DEF RestTyped, pma_vars
<1> QED BY <1>2, <1>3, <1>5, <1>6, ReturnStep

-----------------------------------------------------------------------------
(* Clients.                                                                *)

LEMMA StillStep ==
  ASSUME TypeInv, UNCHANGED th, p' \in PmmType, ListsInjective(p)', RestTyped'
  PROVE  TypeInv'
BY DEF TypeInv, TypeOK, Flow, RestTyped

(* An idle thread starts operation op at step pc.                          *)
Started(x, pc, op) ==
  /\ x.pc = pc /\ x.op = op /\ x.r = NoRoot /\ x.ret = "idle" /\ x.batch = {} /\ x.va = NoBlock

LEMMA StartStep ==
  ASSUME TypeInv, NEW t \in Thread, NEW x \in Local, becomes(t, x), RestTyped', p' = p,
         \/ t # PThread /\ Started(x, "claim", "alloc")
         \/ t # PThread /\ (Started(x, "free", "free") \/ Started(x, "free", "release")) /\ x.c \in Chunk
         \/ t \in Block /\ Started(x, "in_place_split", "split")
         \/ t = PThread /\ Started(x, "flush", "range") /\ x.lo .. x.hi \subseteq Root
         \/ t = PThread /\ Started(x, "lock_pages", "pages") /\ x.n # 0
  PROVE  TypeInv' /\ Moved(t) /\ th'[t] = x
<1>1. x.pc \notin {"idle", "pma_pin", "set_type"} /\ (x.op \in {"range", "pages"} <=> t = PThread)
  BY Threads DEF Started
<1>2. Course(x)
  BY DEF Started, Course, Frees, AllocSteps, RangeSteps, PageSteps, EvictSteps
<1>3. Locals(x)
  BY DEF Started, Locals, ChunkSteps, RootSteps
<1>4. x.op = "split" => t \in Block
  BY DEF Started
<1>5. FlowOf(t, x)
  BY <1>1, <1>2, <1>3, <1>4 DEF FlowOf
<1> QED BY <1>5, StateTyped, StepTyped DEF ListsInjective

LEMMA StartAllocStep ==
  ASSUME TypeInv, NEW b \in Block, StartAlloc(b)
  PROVE  TypeInv' /\ Moved(b) /\ Started(th'[b], "claim", "alloc") /\ th'[b].c = NoChunk /\ th[b].pc = "idle"
<1>1. UNCHANGED <<p, lock, pma_vars, clients>> /\ th[b].pc = "idle"
  BY DEF StartAlloc, at
<1>2. PICK size \in BlockSizes : becomes(b, [idle EXCEPT !.pc = "claim", !.op = "alloc", !.size = size])
  BY DEF StartAlloc
<1>3. size \in Sizes /\ "claim" \in Steps /\ "alloc" \in Ops
  BY BoundAssumption DEF Steps, Ops
<1> DEFINE x == [idle EXCEPT !.pc = "claim", !.op = "alloc", !.size = size]
<1>4. x \in Local /\ Started(x, "claim", "alloc") /\ x.c = NoChunk
  BY <1>3, IdleTyped DEF Local, Started
<1> HIDE DEF x
<1>5. becomes(b, x)
  BY <1>2 DEF x
<1>6. RestTyped'
  BY <1>1, StateTyped, RestUnchanged DEF RestTyped
<1> QED BY <1>1, <1>4, <1>5, <1>6, StartStep, Threads

LEMMA StartKernelAllocStep ==
  ASSUME TypeInv, StartKernelAlloc
  PROVE  /\ TypeInv' /\ Moved(KThread) /\ Started(th'[KThread], "claim", "alloc")
         /\ th'[KThread].c = NoChunk /\ th[KThread].pc = "idle"
<1>1. UNCHANGED <<p, lock, pma_vars, clients>> /\ th[KThread].pc = "idle"
  BY DEF StartKernelAlloc, at
<1>2. PICK size \in KernelSizes, evict \in BOOLEAN :
        becomes(KThread, [idle EXCEPT !.pc = "claim", !.op = "alloc", !.size = size, !.evict = evict])
  BY DEF StartKernelAlloc
<1>3. size \in Sizes /\ "claim" \in Steps /\ "alloc" \in Ops
  BY BoundAssumption DEF Steps, Ops
<1> DEFINE x == [idle EXCEPT !.pc = "claim", !.op = "alloc", !.size = size, !.evict = evict]
<1>4. x \in Local /\ Started(x, "claim", "alloc") /\ x.c = NoChunk
  BY <1>3, IdleTyped DEF Local, Started
<1> HIDE DEF x
<1>5. becomes(KThread, x)
  BY <1>2 DEF x
<1>6. RestTyped'
  BY <1>1, StateTyped, RestUnchanged DEF RestTyped
<1> QED BY <1>1, <1>4, <1>5, <1>6, StartStep, Threads

LEMMA StartReleaseStep ==
  ASSUME TypeInv, NEW b \in Block, StartRelease(b)
  PROVE  /\ TypeInv' /\ Moved(b) /\ Started(th'[b], "free", "release") /\ th[b].pc = "idle"
         /\ th'[b].c \in free_chunks[b]
         /\ free_chunks' = [free_chunks EXCEPT ![b] = free_chunks[b] \ {th'[b].c}]
<1>1. th[b].pc = "idle" /\ UNCHANGED <<p, lock, pma_vars, chunks, used_chunks, kchunks>>
  BY DEF StartRelease, at
<1>2. PICK c \in free_chunks[b] :
        /\ free_chunks' = [free_chunks EXCEPT ![b] = free_chunks[b] \ {c}]
        /\ becomes(b, [idle EXCEPT !.pc = "free", !.op = "release", !.c = c])
  BY DEF StartRelease
<1>3. c \in Chunk /\ "free" \in Steps /\ "release" \in Ops
  BY StateTyped DEF RestTyped, Steps, Ops
<1> DEFINE x == [idle EXCEPT !.pc = "free", !.op = "release", !.c = c]
<1>4. x \in Local /\ Started(x, "free", "release") /\ x.c = c
  BY <1>3, IdleTyped DEF Local, Started
<1> HIDE DEF x
<1>5. becomes(b, x)
  BY <1>2 DEF x
<1>6. RestTyped'
  BY <1>1, <1>2, StateTyped DEF RestTyped, pma_vars
<1>7. TypeInv' /\ Moved(b) /\ th'[b] = x
  BY <1>1, <1>3, <1>4, <1>5, <1>6, StartStep, Threads
<1> QED BY <1>1, <1>2, <1>4, <1>7

LEMMA StartFreeStep ==
  ASSUME TypeInv, NEW b \in Block, StartFree(b)
  PROVE  /\ TypeInv' /\ Moved(b) /\ Started(th'[b], "free", "free") /\ th[b].pc = "idle"
         /\ th'[b].c \in chunks[b] \ used_chunks[b]
         /\ chunks' = [chunks EXCEPT ![b] = chunks[b] \ {th'[b].c}]
<1>1. th[b].pc = "idle" /\ UNCHANGED <<p, lock, pma_vars, used_chunks, free_chunks, kchunks>>
  BY DEF StartFree, at
<1>2. PICK c \in chunks[b] \ used_chunks[b] :
        /\ chunks' = [chunks EXCEPT ![b] = chunks[b] \ {c}]
        /\ becomes(b, [idle EXCEPT !.pc = "free", !.op = "free", !.c = c])
  BY DEF StartFree
<1>3. c \in Chunk /\ "free" \in Steps /\ "free" \in Ops
  BY StateTyped DEF RestTyped, Steps, Ops
<1> DEFINE x == [idle EXCEPT !.pc = "free", !.op = "free", !.c = c]
<1>4. x \in Local /\ Started(x, "free", "free") /\ x.c = c
  BY <1>3, IdleTyped DEF Local, Started
<1> HIDE DEF x
<1>5. becomes(b, x)
  BY <1>2 DEF x
<1>6. RestTyped'
  BY <1>1, <1>2, StateTyped DEF RestTyped, pma_vars
<1>7. TypeInv' /\ Moved(b) /\ th'[b] = x
  BY <1>1, <1>3, <1>4, <1>5, <1>6, StartStep, Threads
<1> QED BY <1>1, <1>2, <1>4, <1>7

LEMMA StartKernelFreeStep ==
  ASSUME TypeInv, StartKernelFree
  PROVE  /\ TypeInv' /\ Moved(KThread) /\ Started(th'[KThread], "free", "free") /\ th[KThread].pc = "idle"
         /\ th'[KThread].c \in kchunks
         /\ kchunks' = kchunks \ {th'[KThread].c}
<1>1. th[KThread].pc = "idle" /\ UNCHANGED <<p, lock, pma_vars, chunks, used_chunks, free_chunks>>
  BY DEF StartKernelFree, at
<1>2. PICK c \in kchunks :
        /\ kchunks' = kchunks \ {c}
        /\ becomes(KThread, [idle EXCEPT !.pc = "free", !.op = "free", !.c = c])
  BY DEF StartKernelFree
<1>3. c \in Chunk /\ "free" \in Steps /\ "free" \in Ops
  BY StateTyped DEF RestTyped, Steps, Ops
<1> DEFINE x == [idle EXCEPT !.pc = "free", !.op = "free", !.c = c]
<1>4. x \in Local /\ Started(x, "free", "free") /\ x.c = c
  BY <1>3, IdleTyped DEF Local, Started
<1> HIDE DEF x
<1>5. becomes(KThread, x)
  BY <1>2 DEF x
<1>6. RestTyped'
  BY <1>1, <1>2, StateTyped DEF RestTyped, pma_vars
<1>7. TypeInv' /\ Moved(KThread) /\ th'[KThread] = x
  BY <1>1, <1>3, <1>4, <1>5, <1>6, StartStep, Threads
<1> QED BY <1>1, <1>2, <1>4, <1>7

LEMMA StartSplitStep ==
  ASSUME TypeInv, NEW b \in Block, StartSplit(b)
  PROVE  TypeInv' /\ Moved(b) /\ Started(th'[b], "in_place_split", "split") /\ th[b].pc = "idle"
<1> DEFINE x == [idle EXCEPT !.pc = "in_place_split", !.op = "split"]
<1>1. UNCHANGED <<p, lock, pma_vars, clients>> /\ th[b].pc = "idle" /\ becomes(b, x)
  BY DEF StartSplit, at
<1>2. "in_place_split" \in Steps /\ "split" \in Ops
  BY DEF Steps, Ops
<1>3. x \in Local /\ Started(x, "in_place_split", "split")
  BY <1>2, IdleTyped DEF Local, Started
<1> HIDE DEF x
<1>4. RestTyped'
  BY <1>1, StateTyped, RestUnchanged DEF RestTyped
<1> QED BY <1>1, <1>3, <1>4, StartStep, Threads

LEMMA PopulateStep ==
  ASSUME TypeInv, NEW b \in Block, Populate(b)
  PROVE  TypeInv' /\ UNCHANGED th
<1>1. UNCHANGED <<p, lock, pma_vars, th, kchunks>>
  BY DEF Populate
<1>2. PICK c \in free_chunks[b] :
        /\ free_chunks' = [free_chunks EXCEPT ![b] = free_chunks[b] \ {c}]
        /\ used_chunks' = [used_chunks EXCEPT ![b] = used_chunks[b] \cup {c}]
        /\ chunks' = [chunks EXCEPT ![b] = chunks[b] \cup {c}]
  BY DEF Populate
<1>3. c \in Chunk
  BY StateTyped DEF RestTyped
<1>4. RestTyped'
  BY <1>1, <1>2, <1>3, StateTyped DEF RestTyped, pma_vars
<1> QED BY <1>1, <1>4, StateTyped, StillStep DEF ListsInjective

LEMMA UnpinStep ==
  ASSUME TypeInv, NEW b \in Block, Unpin(b)
  PROVE  TypeInv' /\ UNCHANGED th
<1>1. UNCHANGED <<lock, pma_vars, th, chunks, free_chunks, kchunks>>
  BY DEF Unpin
<1>2. PICK c \in used_chunks[b], d \in Decisions :
        /\ p' = gpu_unpin_temp(p, c, b, d)
        /\ used_chunks' = [used_chunks EXCEPT ![b] = used_chunks[b] \ {c}]
  BY DEF Unpin
<1>3. c \in Chunk
  BY StateTyped DEF RestTyped
<1>4. RestTyped'
  BY <1>1, <1>2, <1>3, StateTyped DEF RestTyped, pma_vars
<1>5. Frame(p, p', c[1])
  BY <1>2, <1>3, StateTyped, TempUnpinned
<1>6. p' \in PmmType /\ ListsInjective(p)'
  BY <1>5 DEF Frame, ListsInjective
<1> QED BY <1>1, <1>4, <1>6, StillStep

LEMMA MarkStep ==
  ASSUME TypeInv, NEW b \in Block, Mark(b)
  PROVE  TypeInv' /\ UNCHANGED th
<1>1. UNCHANGED <<lock, pma_vars, th, clients>>
  BY DEF Mark
<1>2. PICK r \in Root, used \in BOOLEAN, d \in Decisions :
        p' = root_chunk_update_eviction_list(p, r, used, d)
  BY DEF Mark
<1>3. Relisted(p, p', r)
  BY <1>2, StateTyped, MarkedUsed
<1>4. p' \in PmmType /\ ListsInjective(p)'
  BY <1>3 DEF Relisted, ListsInjective
<1>5. RestTyped'
  BY <1>1, StateTyped, RestUnchanged DEF RestTyped
<1> QED BY <1>1, <1>4, <1>5, StillStep

-----------------------------------------------------------------------------
(* PMA's callbacks.                                                        *)

LEMMA StartRangeStep ==
  ASSUME TypeInv, StartRange
  PROVE  TypeInv' /\ Moved(PThread) /\ Started(th'[PThread], "flush", "range") /\ th[PThread].pc = "idle"
<1>1. UNCHANGED <<p, lock, readers, pma, clients>> /\ th[PThread].pc = "idle"
  BY DEF StartRange, at
<1>2. PICK bounds \in EvictRanges :
        /\ evicting' = {r \in Root : bounds[1] <= r /\ r <= bounds[2]}
        /\ becomes(PThread, [idle EXCEPT !.pc = "flush", !.op = "range", !.lo = bounds[1], !.hi = bounds[2]])
  BY DEF StartRange
<1>3. PICK lo, hi : lo = bounds[1] /\ hi = bounds[2]
  OBVIOUS
<1>4. lo \in Root /\ hi \in Root /\ lo .. hi \subseteq Root
  BY <1>3, BoundAssumption
<1>5. lo \in Nat /\ hi \in Nat /\ "flush" \in Steps /\ "range" \in Ops
  BY <1>4, RootAssumption DEF Steps, Ops
<1> DEFINE x == [idle EXCEPT !.pc = "flush", !.op = "range", !.lo = lo, !.hi = hi]
<1>6. x \in Local /\ Started(x, "flush", "range") /\ x.lo = lo /\ x.hi = hi
  BY <1>5, IdleTyped DEF Local, Started
<1>7. becomes(PThread, x)
  BY <1>2, <1>3
<1> HIDE DEF x
<1>8. RestTyped'
  <2>1. evicting' \subseteq Root
    BY <1>2
  <2> QED BY <1>1, <2>1, StateTyped DEF RestTyped, clients
<1> QED BY <1>1, <1>4, <1>6, <1>7, <1>8, StartStep, Threads

LEMMA StartPagesStep ==
  ASSUME TypeInv, StartPages
  PROVE  TypeInv' /\ Moved(PThread) /\ Started(th'[PThread], "lock_pages", "pages") /\ th[PThread].pc = "idle"
<1>1. UNCHANGED <<p, lock, pma_vars, clients>> /\ th[PThread].pc = "idle"
  BY DEF StartPages, at
<1>2. PICK bounds \in PageRanges, n \in 1 .. MaxPages :
        becomes(PThread, [idle EXCEPT !.pc = "lock_pages", !.op = "pages",
                                      !.lo = bounds[1], !.hi = bounds[2], !.n = n])
  BY DEF StartPages
<1>3. PICK lo, hi : lo = bounds[1] /\ hi = bounds[2]
  OBVIOUS
<1>4. lo \in Root /\ hi \in Root /\ n \in Nat /\ n # 0
  BY <1>3, BoundAssumption
<1>5. lo \in Nat /\ hi \in Nat /\ "lock_pages" \in Steps /\ "pages" \in Ops
  BY <1>4, RootAssumption DEF Steps, Ops
<1> DEFINE x == [idle EXCEPT !.pc = "lock_pages", !.op = "pages", !.lo = lo, !.hi = hi, !.n = n]
<1>6. x \in Local /\ Started(x, "lock_pages", "pages") /\ x.n = n
  BY <1>4, <1>5, IdleTyped DEF Local, Started
<1>7. becomes(PThread, x)
  BY <1>2, <1>3
<1> HIDE DEF x
<1>8. RestTyped'
  BY <1>1, StateTyped, RestUnchanged DEF RestTyped
<1> QED BY <1>1, <1>4, <1>6, <1>7, <1>8, StartStep, Threads


LEMMA SpinPmaOwnedStep ==
  ASSUME TypeInv, SpinPmaOwned
  PROVE  /\ TypeInv' /\ Moved(PThread)
         /\ th'[PThread].op = th[PThread].op /\ th'[PThread].pc = th[PThread].pc /\ th'[PThread].c = th[PThread].c /\ th'[PThread].r = th[PThread].r /\ th'[PThread].ret = th[PThread].ret /\ th'[PThread].batch = th[PThread].batch /\ th'[PThread].hi = th[PThread].hi /\ th'[PThread].n = th[PThread].n /\ th'[PThread].lo = th[PThread].lo + 1
<1>0. PThread \in Thread
  BY Threads
<1>1. th[PThread] \in Local /\ FlowOf(PThread, th[PThread])
  BY <1>0, ThreadTyped
<1> DEFINE y == th[PThread]
           lo == y.lo + 1
           x == [y EXCEPT !.lo = lo]
<1>3. y.pc = "spin" /\ UNCHANGED <<p, lock, pma_vars, clients>>
  BY DEF SpinPmaOwned, at
<1>4. /\ y.op = "range" /\ y.ret = "idle" /\ y.lo \in Nat /\ y.hi \in Nat /\ y.lo .. y.hi \subseteq Root
  BY <1>1, <1>3 DEF FlowOf, Course, Frees, Locals, Local, AllocSteps, RangeSteps, PageSteps, EvictSteps
<1>5. lo \in Nat /\ lo .. y.hi \subseteq Root
  BY <1>4
<1> HIDE DEF lo
<1>6. becomes(PThread, x)
  BY DEF SpinPmaOwned, goto, lo
<1> HIDE DEF y
<1>7. x \in Local /\ x.op = y.op /\ x.pc = y.pc /\ x.c = y.c /\ x.r = y.r /\ x.ret = y.ret /\ x.batch = y.batch /\ x.hi = y.hi /\ x.n = y.n /\ x.lo = lo
  BY <1>1, <1>5 DEF Local, Kept, y
<1> HIDE DEF x
<1>8. FlowOf(PThread, x)
  BY <1>0, <1>1, <1>3, <1>7, <1>4, <1>5, Threads DEF FlowOf, Course, Frees, Locals, Kept, AllocSteps, RangeSteps, PageSteps,
     EvictSteps, RootSteps, ChunkSteps, idle, y
<1>9. p' \in PmmType /\ ListsInjective(p)'
  BY <1>3, StateTyped DEF ListsInjective
<1>10. RestTyped'
  BY <1>3, StateTyped, RestUnchanged DEF RestTyped
<1>11. TypeInv' /\ Moved(PThread) /\ th'[PThread] = x
  BY <1>0, <1>6, <1>7, <1>8, <1>9, <1>10, StepTyped
<1> QED BY <1>3, <1>7, <1>11 DEF y, lo

LEMMA SpinStartStep ==
  ASSUME TypeInv, SpinStart
  PROVE  /\ TypeInv' /\ Moved(PThread)
         /\ th'[PThread].op = th[PThread].op /\ th'[PThread].c = th[PThread].c /\ th'[PThread].ret = th[PThread].ret /\ th'[PThread].batch = th[PThread].batch /\ th'[PThread].lo = th[PThread].lo /\ th'[PThread].hi = th[PThread].hi /\ th'[PThread].n = th[PThread].n /\ th'[PThread].pc = "lock_range"
         /\ th'[PThread].r = th[PThread].lo /\ th[PThread].lo \in Root
         /\ p' = chunk_start_eviction(p, th[PThread].lo) /\ chunk_is_evictable(p, th[PThread].lo)
<1>0. PThread \in Thread
  BY Threads
<1>1. th[PThread] \in Local /\ FlowOf(PThread, th[PThread])
  BY <1>0, ThreadTyped
<1> DEFINE y == th[PThread]
           x == [y EXCEPT !.r = y.lo, !.pc = "lock_range"]
<1>3. y.pc = "spin" /\ UNCHANGED <<lock, pma_vars, clients>> /\ y.lo <= y.hi
  BY DEF SpinStart, at, address
<1>4. /\ y.op = "range" /\ y.ret = "idle" /\ y.lo \in Nat /\ y.hi \in Nat /\ y.lo .. y.hi \subseteq Root
  BY <1>1, <1>3 DEF FlowOf, Course, Frees, Locals, Local, AllocSteps, RangeSteps, PageSteps, EvictSteps
<1>5. y.lo \in Root /\ "lock_range" \in Steps
  BY <1>3, <1>4 DEF Steps
<1>6. becomes(PThread, x)
  BY DEF SpinStart, goto, address
<1> HIDE DEF y
<1>7. x \in Local /\ x.op = y.op /\ x.c = y.c /\ x.ret = y.ret /\ x.batch = y.batch /\ x.lo = y.lo /\ x.hi = y.hi /\ x.n = y.n /\ x.r = y.lo /\ x.pc = "lock_range"
  BY <1>1, <1>5 DEF Local, Kept, y
<1> HIDE DEF x
<1>8. FlowOf(PThread, x)
  BY <1>0, <1>1, <1>3, <1>7, <1>4, <1>5, Threads DEF FlowOf, Course, Frees, Locals, Kept, AllocSteps, RangeSteps, PageSteps,
     EvictSteps, RootSteps, ChunkSteps, idle, y
<1>9. p' \in PmmType /\ ListsInjective(p)'
  <2>1. p' = chunk_start_eviction(p, y.lo)
    BY DEF SpinStart, y, address
  <2>2. Frame(p, p', y.lo)
    BY <1>5, <2>1, StateTyped, EvictionStarted
  <2> QED BY <2>2 DEF Frame, ListsInjective
<1>10. RestTyped'
  BY <1>3, StateTyped, RestUnchanged DEF RestTyped
<1>11. TypeInv' /\ Moved(PThread) /\ th'[PThread] = x
  BY <1>0, <1>6, <1>7, <1>8, <1>9, <1>10, StepTyped
<1> QED BY <1>3, <1>7, <1>11, <1>5 DEF y, SpinStart, address

LEMMA RangeReturns ==
  ASSUME TypeInv, range_returns, p' \in PmmType, ListsInjective(p)',
         lock' \in Thread \cup {NoThread}, UNCHANGED <<readers, clients>>,
         pma' \in [Root -> {"free", "unpinned", "pinned", "rm"}]
  PROVE  TypeInv' /\ Moved(PThread) /\ th'[PThread] = idle
<1>1. becomes(PThread, idle) /\ evicting' = {}
  BY DEF range_returns
<1>2. RestTyped'
  BY <1>1, StateTyped DEF RestTyped, clients
<1> QED BY <1>1, <1>2, ReturnStep, Threads

LEMMA SpinTimeoutStep ==
  ASSUME TypeInv, SpinTimeout
  PROVE  TypeInv' /\ Moved(PThread) /\ th'[PThread] = idle
<1>1. th[PThread] \in Local /\ FlowOf(PThread, th[PThread]) /\ p \in PmmType /\ ListsInjective(p) /\ RestTyped
  BY Threads, ThreadTyped, StateTyped
<1>2. /\ th[PThread].pc = "spin" /\ UNCHANGED <<lock, readers, pma, clients>> /\ range_returns
      /\ th[PThread].lo <= th[PThread].hi
  BY DEF SpinTimeout, at, address
<1>3. th[PThread].lo \in Root
  <2>1. th[PThread].lo \in Nat /\ th[PThread].hi \in Nat
    BY <1>1 DEF Local
  <2>2. th[PThread].lo .. th[PThread].hi \subseteq Root
    BY <1>1, <1>2 DEF FlowOf, Course, Frees, Locals, AllocSteps, RangeSteps, PageSteps, EvictSteps
  <2> QED BY <1>2, <2>1, <2>2
<1>4. PICK r \in Root : r = th[PThread].lo
  BY <1>3
<1>5. p' = p \/ p' = chunk_start_eviction(p, r)
  BY <1>4 DEF SpinTimeout, address
<1>6. Frame(p, chunk_start_eviction(p, r), r)
  BY <1>1, EvictionStarted
<1>7. p' \in PmmType /\ ListsInjective(p)'
  BY <1>1, <1>5, <1>6 DEF Frame, ListsInjective
<1> QED BY <1>1, <1>2, <1>7, RangeReturns DEF RestTyped

LEMMA RangeErrorStep ==
  ASSUME TypeInv, RangeError
  PROVE  TypeInv' /\ Moved(PThread) /\ th'[PThread] = idle
<1>1. range_returns /\ UNCHANGED <<p, readers, pma, clients>>
  BY DEF RangeError
<1>2. lock' \in Thread \cup {NoThread}
  BY StateTyped DEF RangeError, release, RestTyped
<1> QED BY <1>1, <1>2, StateTyped, RangeReturns DEF RestTyped, ListsInjective

LEMMA RangeOkStep ==
  ASSUME TypeInv, RangeOk
  PROVE  TypeInv' /\ Moved(PThread) /\ th'[PThread] = idle
<1>1. /\ range_returns /\ UNCHANGED <<p, lock, readers, clients>>
      /\ pma' = [r \in Root |-> IF r \in evicting THEN "rm" ELSE pma[r]]
  BY DEF RangeOk
<1>2. pma' \in [Root -> {"free", "unpinned", "pinned", "rm"}]
  BY <1>1, StateTyped DEF RestTyped
<1> QED BY <1>1, <1>2, StateTyped, RangeReturns DEF RestTyped, ListsInjective


LEMMA PagesCheckStep ==
  ASSUME TypeInv, PagesCheck
  PROVE  /\ TypeInv' /\ Moved(PThread)
         /\ Kept(th'[PThread], th[PThread]) /\ th'[PThread].c = th[PThread].c /\ th'[PThread].r = th[PThread].r /\ th'[PThread].batch = th[PThread].batch /\ th'[PThread].pc = "free_root"
         /\ th'[PThread].ret \in {"pages_next", "pages_error"}
<1>0. PThread \in Thread
  BY Threads
<1>1. th[PThread] \in Local /\ FlowOf(PThread, th[PThread])
  BY <1>0, ThreadTyped
<1> DEFINE y == th[PThread]
           ret == IF y.r \in y.lo .. y.hi THEN "pages_next" ELSE "pages_error"
           x == [y EXCEPT !.pc = "free_root", !.ret = ret]
<1>3. y.pc = "pages_check" /\ UNCHANGED <<p, lock, pma_vars, clients>>
  BY DEF PagesCheck, at
<1>4. y.r \in Root
  BY <1>1, <1>3 DEF FlowOf, Locals, RootSteps
<1>5. ret \in {"pages_next", "pages_error"} /\ ret \in Steps /\ "free_root" \in Steps
  BY DEF Steps
<1> HIDE DEF ret
<1>6. becomes(PThread, x)
  BY DEF PagesCheck, goto, ret
<1> HIDE DEF y
<1>7. x \in Local /\ Kept(x, y) /\ x.c = y.c /\ x.r = y.r /\ x.batch = y.batch /\ x.pc = "free_root" /\ x.ret = ret
  BY <1>1, <1>5 DEF Local, Kept, y
<1> HIDE DEF x
<1>8. FlowOf(PThread, x)
  BY <1>0, <1>1, <1>3, <1>7, <1>4, <1>5, Threads DEF FlowOf, Course, Frees, Locals, Kept, AllocSteps, RangeSteps, PageSteps,
     EvictSteps, RootSteps, ChunkSteps, idle, y
<1>9. p' \in PmmType /\ ListsInjective(p)'
  BY <1>3, StateTyped DEF ListsInjective
<1>10. RestTyped'
  BY <1>3, StateTyped, RestUnchanged DEF RestTyped
<1>11. TypeInv' /\ Moved(PThread) /\ th'[PThread] = x
  BY <1>0, <1>6, <1>7, <1>8, <1>9, <1>10, StepTyped
<1> QED BY <1>3, <1>7, <1>11, <1>5 DEF y

LEMMA PagesNextStep ==
  ASSUME TypeInv, PagesNext
  PROVE  /\ TypeInv' /\ Moved(PThread) /\ th[PThread].r \in Root /\ th[PThread].ret = "idle"
         /\ \/ th'[PThread] = idle /\ th[PThread].n = 1
            \/ /\ th'[PThread].pc = "lock_pages" /\ th'[PThread].op = "pages" /\ th'[PThread].r = NoRoot
               /\ th'[PThread].batch = th[PThread].batch \cup {th[PThread].r}
               /\ th'[PThread].ret = "idle" /\ th'[PThread].c = th[PThread].c
<1>1. th[PThread] \in Local /\ FlowOf(PThread, th[PThread])
  BY Threads, ThreadTyped
<1>2. th[PThread].pc = "pages_next" /\ UNCHANGED <<p, lock, pma_vars, clients>>
  BY DEF PagesNext, at
<1>3. /\ th[PThread].r \in Root /\ th[PThread].op = "pages" /\ th[PThread].ret = "idle" /\ th[PThread].n # 0
      /\ th[PThread].n \in Nat /\ th[PThread].batch \subseteq Root
  BY <1>1, <1>2 DEF FlowOf, Course, Frees, Locals, Local, AllocSteps, RangeSteps, PageSteps, EvictSteps, RootSteps
<1>4. p' \in PmmType /\ ListsInjective(p)' /\ RestTyped'
  BY <1>2, StateTyped, RestUnchanged DEF RestTyped, ListsInjective
<1>5. CASE th[PThread].n = 1
  <2>1. becomes(PThread, idle)
    BY <1>5 DEF PagesNext
  <2> QED BY <1>3, <1>4, <1>5, <2>1, ReturnStep, Threads
<1>6. CASE th[PThread].n # 1
  <2> DEFINE y == th[PThread]
             n == y.n - 1
             b == y.batch \cup {y.r}
             x == [y EXCEPT !.pc = "lock_pages", !.n = n, !.batch = b, !.r = NoRoot]
  <2>1. becomes(PThread, x)
    BY <1>6 DEF PagesNext
  <2>2. n \in Nat /\ n # 0 /\ b \subseteq Root /\ "lock_pages" \in Steps
    BY <1>3, <1>6 DEF Steps
  <2> HIDE DEF y, n, b
  <2>3. /\ x \in Local /\ x.pc = "lock_pages" /\ x.n = n /\ x.batch = b /\ x.r = NoRoot
        /\ x.op = y.op /\ x.ret = y.ret /\ x.c = y.c
    BY <1>1, <2>2 DEF Local, y
  <2> HIDE DEF x
  <2>4. FlowOf(PThread, x)
    BY <1>3, <2>2, <2>3, Threads DEF FlowOf, Course, Frees, Locals, AllocSteps, RangeSteps, PageSteps, EvictSteps,
       ChunkSteps, RootSteps, y
  <2>5. TypeInv' /\ Moved(PThread) /\ th'[PThread] = x
    BY <1>4, <2>1, <2>3, <2>4, StepTyped, Threads
  <2> QED BY <1>3, <2>3, <2>5 DEF y, b
<1> QED BY <1>5, <1>6

LEMMA PagesErrorStep ==
  ASSUME TypeInv, PagesError
  PROVE  TypeInv' /\ Moved(PThread) /\ th'[PThread] = idle
<1>1. /\ becomes(PThread, idle) /\ UNCHANGED <<p, readers, evicting, clients>>
      /\ pma' = [r \in Root |-> IF r \in th[PThread].batch THEN "free" ELSE pma[r]]
  BY DEF PagesError
<1>2. lock' \in Thread \cup {NoThread}
  BY StateTyped, Threads DEF PagesError, release, RestTyped
<1>3. pma' \in [Root -> {"free", "unpinned", "pinned", "rm"}]
  BY <1>1, StateTyped DEF RestTyped
<1>4. RestTyped'
  BY <1>1, <1>2, <1>3, StateTyped DEF RestTyped, clients
<1> QED BY <1>1, <1>4, StateTyped, ReturnStep, Threads DEF ListsInjective

LEMMA RmFreeStep ==
  ASSUME TypeInv, RmFree
  PROVE  TypeInv' /\ UNCHANGED th
<1>1. UNCHANGED <<p, lock, readers, evicting, th, clients>>
  BY DEF RmFree
<1>2. PICK r \in Root : pma' = [pma EXCEPT ![r] = "free"]
  BY DEF RmFree
<1>3. pma' \in [Root -> {"free", "unpinned", "pinned", "rm"}]
  BY <1>2, StateTyped DEF RestTyped
<1>4. RestTyped'
  BY <1>1, <1>3, StateTyped DEF RestTyped, clients
<1> QED BY <1>1, <1>4, StateTyped, StillStep DEF ListsInjective

-----------------------------------------------------------------------------
(* Types.                                                                  *)

LEMMA InitTyped ==
  ASSUME Init
  PROVE  TypeInv
<1>1. p \in PmmType /\ p.used = <<>> /\ p.unused = <<>>
  <2>1. p = pmm_init
    BY DEF Init
  <2>2. /\ "NO_CHUNK" \in ChunkStates /\ "PMA_OWNED" \in ChunkStates /\ "USER" \in MemoryTypes
        /\ "NONE" \in ListStates
    BY DEF ChunkStates, MemoryTypes, ListStates
  <2> QED BY <2>1, <2>2 DEF pmm_init, PmmType
<1>2. ListsInjective(p)
  BY <1>1 DEF ListsInjective, IsInjective
<1>3. th \in [Thread -> Local] /\ \A t \in Thread : th[t] = idle
  BY IdleTyped DEF Init
<1>4. \A t \in Thread : Flow(t)
  BY <1>3, IdleTyped DEF Flow
<1>5. TypeOK
  BY <1>1, <1>3 DEF Init, TypeOK
<1> QED BY <1>2, <1>4, <1>5 DEF TypeInv

LEMMA StepKeepsType ==
  ASSUME TypeInv, NEW t \in Thread, Step(t) \/ Lock(t)
  PROVE  TypeInv'
<1>1. CASE Claim(t) \/ ClaimAgain(t) \/ ClaimBigger(t) \/ PmaAlloc(t) \/ PmaAllocFails(t) \/ InitRoot(t)
  BY <1>1, ClaimStep, ClaimAgainStep, ClaimBiggerStep, PmaAllocStep, PmaAllocFailsStep, InitRootStep
<1>2. CASE Split(t) \/ SplitFails(t) \/ AllocError(t) \/ EvictAgain(t) \/ Done(t) \/ KernelDone(t) \/ TrackerError(t)
  BY <1>2, SplitStep, SplitFailsStep, AllocErrorStep, EvictAgainStep, DoneStep, KernelDoneStep, TrackerErrorStep
<1>3. CASE Pick(t) \/ PickNone(t) \/ PinFree(t) \/ Find(t) \/ FindNone(t) \/ EvictBlock(t) \/ EvictBlockFails(t)
  BY <1>3, PickStep, PickNoneStep, PinFreeStep, FindStep, FindNoneStep, EvictBlockStep, EvictBlockFailsStep
<1>4. CASE EvictMerge(t) \/ EvictElevated(t) \/ PmaPin(t) \/ SetType(t) \/ PmaPinInUse(t)
           \/ Abort(t) \/ AbortWalk(t)
  BY <1>4, EvictMergeStep, EvictElevatedStep, PmaPinStep, SetTypeStep, PmaPinInUseStep, AbortStep, AbortWalkStep
<1>5. CASE TryFree(t) \/ TryFreeFails(t) \/ FreeLocked(t) \/ MergeLocked(t) \/ FreeNext(t) \/ FreeNextNone(t)
  BY <1>5, TryFreeStep, TryFreeFailsStep, FreeLockedStep, MergeLockedStep, FreeNextStep, FreeNextNoneStep
<1>6. CASE FreeRoot(t) \/ PmaFree(t) \/ InPlaceSplit(t)
  BY <1>6, FreeRootStep, PmaFreeStep, InPlaceSplitStep
<1>7. CASE LockSplit(t) \/ LockEvict(t) \/ Relock(t) \/ LockFree(t)
  BY <1>7, LockSplitStep, LockEvictStep, RelockStep, LockFreeStep
<1> QED BY <1>1, <1>2, <1>3, <1>4, <1>5, <1>6, <1>7 DEF Step, Lock

LEMMA NextKeepsType ==
  ASSUME TypeInv, [Next]_vars
  PROVE  TypeInv'
<1>1. ASSUME NEW t \in Thread, Run(t) PROVE TypeInv'
  <2>1. CASE Step(t) \/ Lock(t)
    BY <2>1, StepKeepsType
  <2>2. CASE PmaCallback
    <3>1. CASE Flush \/ SpinPmaOwned \/ SpinStart \/ SpinTimeout \/ LockRange \/ RangeError
      BY <3>1, FlushStep, SpinPmaOwnedStep, SpinStartStep, SpinTimeoutStep, LockRangeStep, RangeErrorStep
    <3>2. CASE FlushAgain \/ RangeOk \/ PagesCheck \/ PagesNext \/ PagesError
      BY <3>2, FlushAgainStep, RangeOkStep, PagesCheckStep, PagesNextStep, PagesErrorStep
    <3> QED BY <2>2, <3>1, <3>2 DEF PmaCallback
  <2> QED BY <1>1, <2>1, <2>2 DEF Run
<1>2. ASSUME NEW b \in Block, Start(b) \/ Retry(b) PROVE TypeInv'
  BY <1>2, StartAllocStep, StartFreeStep, MarkStep, StartSplitStep, PopulateStep, StartReleaseStep, UnpinStep
     DEF Start, Retry
<1>3. CASE StartKernelAlloc \/ StartKernelFree
  BY <1>3, StartKernelAllocStep, StartKernelFreeStep
<1>4. CASE StartRange \/ StartPages \/ RmFree
  BY <1>4, StartRangeStep, StartPagesStep, RmFreeStep
<1>5. CASE UNCHANGED vars
  BY <1>5 DEF vars, TypeInv, TypeOK, Flow, ListsInjective
<1> QED BY <1>1, <1>2, <1>3, <1>4, <1>5 DEF Next

(* Every value that the allocator, eviction and the PMA callbacks compute, *)
(* for any number of root chunks, subchunks and VA blocks, stays what the  *)
(* C declarations allow: the chunk states, list states and counters of     *)
(* PmmType, the index of an aborted eviction's tree walk within one past   *)
(* the last subchunk, addresses within the callback's range and the page   *)
(* count of evict_pages above zero when it is decremented - on the error   *)
(* paths too.  The two eviction lists never hold a root chunk twice, and a *)
(* thread is only at a step that its operation has and returns from a      *)
(* subroutine to a step of that operation.                                 *)
THEOREM PmmTyped == Spec => []TypeInv
<1>1. Init => TypeInv
  BY InitTyped
<1>2. TypeInv /\ [Next]_vars => TypeInv'
  BY NextKeepsType
<1> QED BY <1>1, <1>2, PTL DEF Spec

(* The type invariant of the threads that allocate, free and evict.        *)
THEOREM PmmTypeCorrect == Spec => []TypeOK
<1>1. TypeInv => TypeOK
  BY DEF TypeInv
<1> QED BY <1>1, PmmTyped, PTL
=============================================================================
