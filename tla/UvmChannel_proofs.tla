-------------------------- MODULE UvmChannel_proofs --------------------------
(***************************************************************************)
(* Proofs about UvmChannel, for any number of threads, channels, pools and *)
(* entries, any payload width that can tell the pending pushes apart, and  *)
(* any channel errors.  The lemmas about Pushbuffer come first, for any    *)
(* number and size of chunks: what update_chunk, uvm_pushbuffer_end_push   *)
(* and uvm_pushbuffer_mark_completed do to the places of the pushes of a   *)
(* chunk.                                                                  *)
(***************************************************************************)
EXTENDS UvmChannel, DataLemmas, TLAPS

-----------------------------------------------------------------------------
(* The pushes of a chunk: push i occupies the bytes from lo[i] up to, not  *)
(* including, hi[i]; the chunk starts at b.                                *)

(* Going from x to z around the chunk one passes y.                        *)
Between(x, y, z) == IF x <= z THEN x <= y /\ y <= z ELSE x <= y \/ y <= z

(* The pushes lie inside the chunk and apart, in the order in which they   *)
(* were ended, with at most one wrap around.  That is said of any three of *)
(* them, so that it still holds after some have gone.                      *)
Areas(lo, hi, m, b) ==
  /\ lo \in [1 .. m -> Int] /\ hi \in [1 .. m -> Int]
  /\ \A i \in 1 .. m : b <= lo[i] /\ lo[i] < hi[i] /\ hi[i] <= b + ChunkSize
  /\ \A i, j \in 1 .. m : i # j => hi[i] <= lo[j] \/ hi[j] <= lo[i]
  /\ \A i, l, j \in 1 .. m : i <= l /\ l <= j => Between(lo[i], lo[l], lo[j])

(* A push of the largest size can be built at n, behind all the others.    *)
Fits(lo, hi, m, b, n) ==
  /\ b <= n /\ n + MaxPushSize <= b + ChunkSize
  /\ \A l \in 1 .. m : hi[l] <= n \/ n + MaxPushSize <= lo[l]
  /\ \A i, l \in 1 .. m : i <= l => Between(lo[i], lo[l], n)

(* The push built at n ends.                                               *)
LEMMA AreasAppend ==
  ASSUME NEW m \in Nat, NEW b \in Int, NEW lo, NEW hi, Areas(lo, hi, m, b),
         NEW n \in Int, Fits(lo, hi, m, b, n), NEW size \in 1 .. MaxPushSize,
         NEW lo2 \in [1 .. m + 1 -> Int], NEW hi2 \in [1 .. m + 1 -> Int],
         \A i \in 1 .. m : lo2[i] = lo[i] /\ hi2[i] = hi[i],
         lo2[m + 1] = n, hi2[m + 1] = n + size
  PROVE  Areas(lo2, hi2, m + 1, b)
<1>0. MaxPushSize \in Nat /\ ChunkSize \in Nat /\ size \in Int /\ 1 <= size /\ size <= MaxPushSize
  BY PushbufferAssumption
<1>1. \A i \in 1 .. m + 1 : i \in 1 .. m \/ i = m + 1
  OBVIOUS
<1>2. \A i \in 1 .. m : lo[i] \in Int /\ hi[i] \in Int
  BY DEF Areas
<1>3. ASSUME NEW i \in 1 .. m + 1
      PROVE  b <= lo2[i] /\ lo2[i] < hi2[i] /\ hi2[i] <= b + ChunkSize
  <2>1. CASE i \in 1 .. m
    BY <2>1 DEF Areas
  <2>2. CASE i = m + 1
    <3>1. b <= n /\ n < n + size /\ n + size <= b + ChunkSize
      BY <1>0 DEF Fits
    <3> QED BY <2>2, <3>1
  <2> QED BY <1>1, <2>1, <2>2
<1>4. ASSUME NEW i \in 1 .. m + 1, NEW j \in 1 .. m + 1, i # j
      PROVE  hi2[i] <= lo2[j] \/ hi2[j] <= lo2[i]
  <2>1. CASE i \in 1 .. m /\ j \in 1 .. m
    BY <1>4, <2>1 DEF Areas
  <2>2. CASE i \in 1 .. m /\ j = m + 1
    <3>1. hi[i] <= n \/ n + MaxPushSize <= lo[i]
      BY <2>2 DEF Fits
    <3> QED BY <1>0, <1>2, <2>2, <3>1
  <2>3. CASE i = m + 1 /\ j \in 1 .. m
    <3>1. hi[j] <= n \/ n + MaxPushSize <= lo[j]
      BY <2>3 DEF Fits
    <3> QED BY <1>0, <1>2, <2>3, <3>1
  <2> QED BY <1>1, <1>4, <2>1, <2>2, <2>3
<1>5. ASSUME NEW i \in 1 .. m + 1, NEW l \in 1 .. m + 1, NEW j \in 1 .. m + 1, i <= l, l <= j
      PROVE  Between(lo2[i], lo2[l], lo2[j])
  <2>1. CASE j \in 1 .. m
    <3>1. i \in 1 .. m /\ l \in 1 .. m
      BY <1>5, <2>1
    <3> QED BY <1>5, <2>1, <3>1 DEF Areas
  <2>2. CASE j = m + 1 /\ l \in 1 .. m
    <3>1. i \in 1 .. m
      BY <1>5, <2>2
    <3> QED BY <1>5, <2>2, <3>1 DEF Fits
  <2>3. CASE j = m + 1 /\ l = m + 1
    <3>1. lo2[i] \in Int
      OBVIOUS
    <3> QED BY <2>3, <3>1 DEF Between
  <2> QED BY <1>1, <2>1, <2>2, <2>3
<1> QED BY <1>3, <1>4, <1>5 DEF Areas

(* Push r is completed.                                                    *)
LEMMA AreasRemove ==
  ASSUME NEW m \in Nat, NEW b \in Int, NEW lo, NEW hi, Areas(lo, hi, m, b), NEW r \in 1 .. m,
         NEW lo2 \in [1 .. m - 1 -> Int], NEW hi2 \in [1 .. m - 1 -> Int],
         \A i \in 1 .. m - 1 : LET j == IF i < r THEN i ELSE i + 1
                               IN  lo2[i] = lo[j] /\ hi2[i] = hi[j]
  PROVE  /\ Areas(lo2, hi2, m - 1, b)
         /\ \A n \in Int : Fits(lo, hi, m, b, n) => Fits(lo2, hi2, m - 1, b, n)
<1> DEFINE was(i) == IF i < r THEN i ELSE i + 1
<1>1. /\ \A i \in 1 .. m - 1 : was(i) \in 1 .. m
      /\ \A i, j \in 1 .. m - 1 : (i # j => was(i) # was(j)) /\ (i <= j => was(i) <= was(j))
  OBVIOUS
<1>2. \A i \in 1 .. m - 1 : lo2[i] = lo[was(i)] /\ hi2[i] = hi[was(i)]
  OBVIOUS
<1> HIDE DEF was
<1>3. \A i \in 1 .. m - 1 : b <= lo2[i] /\ lo2[i] < hi2[i] /\ hi2[i] <= b + ChunkSize
  BY <1>1, <1>2 DEF Areas
<1>4. \A i, j \in 1 .. m - 1 : i # j => hi2[i] <= lo2[j] \/ hi2[j] <= lo2[i]
  BY <1>1, <1>2 DEF Areas
<1>5. \A i, l, j \in 1 .. m - 1 : i <= l /\ l <= j => Between(lo2[i], lo2[l], lo2[j])
  BY <1>1, <1>2, ZenonT(30) DEF Areas
<1>6. ASSUME NEW n \in Int, Fits(lo, hi, m, b, n)
      PROVE  Fits(lo2, hi2, m - 1, b, n)
  <2>1. \A l \in 1 .. m - 1 : hi2[l] <= n \/ n + MaxPushSize <= lo2[l]
    BY <1>1, <1>2, <1>6 DEF Fits
  <2>2. \A i, l \in 1 .. m - 1 : i <= l => Between(lo2[i], lo2[l], n)
    BY <1>1, <1>2, <1>6 DEF Fits
  <2> QED BY <1>6, <2>1, <2>2 DEF Fits
<1> QED BY <1>3, <1>4, <1>5, <1>6 DEF Areas

(* Where update_chunk finds room: between the last push and the first,     *)
LEMMA FitsBetween ==
  ASSUME NEW m \in Nat \ {0}, NEW b \in Int, NEW lo, NEW hi, Areas(lo, hi, m, b),
         hi[m] + MaxPushSize <= lo[1]
  PROVE  Fits(lo, hi, m, b, hi[m])
<1>0. MaxPushSize \in Nat \ {0} /\ ChunkSize \in Nat
  BY PushbufferAssumption
<1>1. /\ 1 \in 1 .. m /\ m \in 1 .. m
      /\ \A i \in 1 .. m : 1 <= i /\ i <= m /\ lo[i] \in Int /\ hi[i] \in Int
  BY DEF Areas
<1>2. b <= lo[m] /\ lo[m] < hi[m] /\ hi[1] <= b + ChunkSize /\ lo[1] < hi[1]
  BY <1>1 DEF Areas
<1>3. ASSUME NEW l \in 1 .. m
      PROVE  lo[1] <= lo[l] \/ (lo[l] <= lo[m] /\ hi[l] <= hi[m])
  <2>1. Between(lo[1], lo[l], lo[m])
    BY <1>1 DEF Areas
  <2>2. lo[1] <= lo[l] \/ lo[l] <= lo[m]
    BY <1>0, <1>1, <1>2, <2>1 DEF Between
  <2>3. lo[l] <= lo[m] => hi[l] <= hi[m]
    <3>1. CASE l = m
      BY <1>1, <3>1
    <3>2. CASE l # m
      <4>1. hi[l] <= lo[m] \/ hi[m] <= lo[l]
        BY <1>1, <3>2 DEF Areas
      <4> QED BY <1>1, <1>2, <4>1
    <3> QED BY <3>1, <3>2
  <2> QED BY <2>2, <2>3
<1>4. ASSUME NEW i \in 1 .. m, NEW l \in 1 .. m, i <= l
      PROVE  Between(lo[i], lo[l], hi[m])
  <2>1. Between(lo[i], lo[l], lo[m])
    BY <1>1, <1>4 DEF Areas
  <2>2. lo[1] <= lo[i] \/ lo[i] <= lo[m]
    BY <1>3
  <2> QED BY <1>0, <1>1, <1>2, <2>1, <2>2 DEF Between
<1>5. \A l \in 1 .. m : hi[l] <= hi[m] \/ hi[m] + MaxPushSize <= lo[l]
  BY <1>0, <1>1, <1>3
<1> QED BY <1>0, <1>1, <1>2, <1>4, <1>5 DEF Fits

(* behind the last push,                                                   *)
LEMMA Ascending ==
  ASSUME NEW m \in Nat \ {0}, NEW b \in Int, NEW lo, NEW hi, Areas(lo, hi, m, b), lo[1] < hi[m]
  PROVE  \A l \in 1 .. m : lo[1] <= lo[l] /\ lo[l] <= lo[m] /\ hi[l] <= hi[m]
<1>1. /\ 1 \in 1 .. m /\ m \in 1 .. m
      /\ \A i \in 1 .. m : 1 <= i /\ i <= m /\ lo[i] \in Int /\ hi[i] \in Int /\ lo[i] < hi[i]
  BY DEF Areas
<1>2. lo[1] <= lo[m]
  <2>1. CASE m = 1
    BY <1>1, <2>1
  <2>2. CASE m # 1
    <3>1. hi[1] <= lo[m] \/ hi[m] <= lo[1]
      BY <1>1, <2>2 DEF Areas
    <3> QED BY <1>1, <3>1
  <2> QED BY <2>1, <2>2
<1>3. ASSUME NEW l \in 1 .. m
      PROVE  lo[1] <= lo[l] /\ lo[l] <= lo[m] /\ hi[l] <= hi[m]
  <2>1. Between(lo[1], lo[l], lo[m])
    BY <1>1 DEF Areas
  <2>2. lo[1] <= lo[l] /\ lo[l] <= lo[m]
    BY <1>2, <2>1 DEF Between
  <2>3. CASE l = m
    BY <1>1, <2>2, <2>3
  <2>4. CASE l # m
    <3>1. hi[l] <= lo[m] \/ hi[m] <= lo[l]
      BY <1>1, <2>4 DEF Areas
    <3> QED BY <1>1, <2>2, <3>1
  <2> QED BY <2>3, <2>4
<1> QED BY <1>3

LEMMA FitsBehind ==
  ASSUME NEW m \in Nat \ {0}, NEW b \in Int, NEW lo, NEW hi, Areas(lo, hi, m, b),
         lo[1] < hi[m], hi[m] + MaxPushSize <= b + ChunkSize
  PROVE  Fits(lo, hi, m, b, hi[m])
<1>0. MaxPushSize \in Nat \ {0} /\ ChunkSize \in Nat
  BY PushbufferAssumption
<1>1. /\ m \in 1 .. m /\ \A i \in 1 .. m : i <= m /\ lo[i] \in Int /\ hi[i] \in Int /\ lo[i] < hi[i]
      /\ b <= lo[m]
  BY DEF Areas
<1>2. \A l \in 1 .. m : lo[1] <= lo[l] /\ lo[l] <= lo[m] /\ hi[l] <= hi[m]
  BY Ascending
<1>3. ASSUME NEW i \in 1 .. m, NEW l \in 1 .. m, i <= l
      PROVE  Between(lo[i], lo[l], hi[m])
  <2>1. Between(lo[i], lo[l], lo[m])
    BY <1>1, <1>3 DEF Areas
  <2> QED BY <1>1, <1>2, <2>1 DEF Between
<1> QED BY <1>0, <1>1, <1>2, <1>3 DEF Fits

(* or before the first push.                                               *)
LEMMA FitsBefore ==
  ASSUME NEW m \in Nat \ {0}, NEW b \in Int, NEW lo, NEW hi, Areas(lo, hi, m, b),
         lo[1] < hi[m], b + MaxPushSize <= lo[1]
  PROVE  Fits(lo, hi, m, b, b)
<1>0. MaxPushSize \in Nat \ {0} /\ ChunkSize \in Nat /\ MaxPushSize <= ChunkSize
  BY PushbufferAssumption
<1>1. m \in 1 .. m /\ \A i \in 1 .. m : i <= m /\ lo[i] \in Int /\ hi[i] \in Int /\ 1 \in 1 .. m
  BY DEF Areas
<1>2. \A l \in 1 .. m : lo[1] <= lo[l] /\ lo[l] <= lo[m] /\ hi[l] <= hi[m]
  BY Ascending
<1>3. ASSUME NEW i \in 1 .. m, NEW l \in 1 .. m, i <= l
      PROVE  Between(lo[i], lo[l], b)
  <2>1. Between(lo[i], lo[l], lo[m])
    BY <1>1, <1>3 DEF Areas
  <2>2. lo[i] <= lo[l] /\ b < lo[i]
    BY <1>0, <1>1, <1>2, <2>1 DEF Between
  <2> QED BY <1>1, <2>2 DEF Between
<1>4. \A l \in 1 .. m : b + MaxPushSize <= lo[l]
  BY <1>0, <1>1, <1>2
<1> QED BY <1>0, <1>3, <1>4 DEF Fits

-----------------------------------------------------------------------------
(* The pushbuffer: P are the places of GPFIFO entries, O the pushes.       *)

Buffers(P, O) ==
  [idle : SUBSET PbChunk, available : SUBSET PbChunk, pending : [PbChunk -> Seq(P)],
   current_push : [PbChunk -> O \cup {NoPush}], next_push_start : [PbChunk -> Int], sema : Int]

Sized(es, P) == \A g \in P : entry_of(es, g).offset \in Int /\ entry_of(es, g).size \in Int

lows(es, s) == [i \in 1 .. Len(s) |-> entry_of(es, s[i]).offset]

highs(es, s) == [i \in 1 .. Len(s) |-> entry_of(es, s[i]).offset + entry_of(es, s[i]).size]

(* The pending pushes s of chunk k, and a push that is built at n.         *)
Orderly(es, s, k) == Areas(lows(es, s), highs(es, s), Len(s), chunk_get_offset(k))

Roomy(es, s, k, n) == Fits(lows(es, s), highs(es, s), Len(s), chunk_get_offset(k), n)

(* There is room at the start of the next push of a chunk that is          *)
(* available or where a push is being built.                               *)
ChunkInv(q, es, k) ==
  /\ Orderly(es, q.pending[k], k)
  /\ k \in q.available \/ q.current_push[k] # NoPush => Roomy(es, q.pending[k], k, push_offset(q, k))
  /\ k \in q.available => q.current_push[k] = NoPush
  /\ k \in q.idle => k \in q.available

ChunksInv(q, es) == \A k \in PbChunk : ChunkInv(q, es, k)

(* A place of a chunk is in one chunk.                                     *)
LEMMA ChunkOf ==
  ASSUME NEW k \in PbChunk, NEW x \in Int, chunk_get_offset(k) <= x, x < chunk_get_offset(k) + ChunkSize
  PROVE  offset_to_chunk(x) = k
<1> DEFINE q == x \div ChunkSize
           r == x % ChunkSize
<1>0. ChunkSize \in Nat \ {0} /\ k \in Int
  BY PushbufferAssumption DEF PbChunk
<1>1. x = ChunkSize * q + r /\ r \in 0 .. ChunkSize - 1 /\ q \in Int
  BY <1>0, Division
<1>2. k * ChunkSize <= x /\ x < k * ChunkSize + ChunkSize
  BY DEF chunk_get_offset
<1> HIDE DEF q, r
<1>3. ChunkSize * (q - k) < ChunkSize /\ -ChunkSize < ChunkSize * (q - k)
  BY <1>0, <1>1, <1>2
<1>4. q - k = 0
  <2>1. q - k \in Int
    BY <1>0, <1>1
  <2>2. ASSUME q - k >= 1 PROVE ChunkSize * (q - k) >= ChunkSize
    BY <1>0, <2>1, <2>2
  <2>3. ASSUME q - k <= -1 PROVE ChunkSize * (q - k) <= -ChunkSize
    BY <1>0, <2>1, <2>3
  <2>4. ChunkSize * (q - k) \in Int
    BY <1>0, <2>1
  <2> QED BY <1>0, <1>3, <2>1, <2>2, <2>3, <2>4
<1>5. q = k
  BY <1>0, <1>1, <1>4
<1> QED BY <1>5 DEF offset_to_chunk, q

LEMMA ListTypes ==
  ASSUME NEW P, NEW s \in Seq(P), NEW es, Sized(es, P)
  PROVE  /\ Len(s) \in Nat /\ \A i \in 1 .. Len(s) : s[i] \in P
         /\ lows(es, s) \in [1 .. Len(s) -> Int] /\ highs(es, s) \in [1 .. Len(s) -> Int]
         /\ \A i \in 1 .. Len(s) :
              /\ lows(es, s)[i] = entry_of(es, s[i]).offset
              /\ highs(es, s)[i] = entry_of(es, s[i]).offset + entry_of(es, s[i]).size
<1>1. Len(s) \in Nat /\ \A i \in 1 .. Len(s) : s[i] \in P
  OBVIOUS
<1>2. \A i \in 1 .. Len(s) : entry_of(es, s[i]).offset \in Int /\ entry_of(es, s[i]).size \in Int
  BY <1>1 DEF Sized
<1> QED BY <1>1, <1>2 DEF lows, highs

(* Only the entries of the pending pushes matter.                          *)
LEMMA ListSame ==
  ASSUME NEW s, NEW es, NEW fs, \A i \in 1 .. Len(s) : entry_of(fs, s[i]) = entry_of(es, s[i])
  PROVE  lows(fs, s) = lows(es, s) /\ highs(fs, s) = highs(es, s)
  BY DEF lows, highs

LEMMA ChunkOffset == \A k \in PbChunk : k \in Int /\ chunk_get_offset(k) \in Int
<1>1. ASSUME NEW k \in PbChunk
      PROVE  k \in Int /\ chunk_get_offset(k) \in Int
  <2>1. k \in Int /\ ChunkSize \in Int
    BY PushbufferAssumption DEF PbChunk
  <2> QED BY <2>1 DEF chunk_get_offset
<1> QED BY <1>1

(* Two chunks do not overlap.                                              *)
LEMMA ChunksApart ==
  ASSUME NEW j \in PbChunk, NEW k \in PbChunk, j # k
  PROVE  \/ chunk_get_offset(k) + ChunkSize <= chunk_get_offset(j)
         \/ chunk_get_offset(j) + ChunkSize <= chunk_get_offset(k)
<1>0. j \in Int /\ k \in Int /\ ChunkSize \in Nat
  BY PushbufferAssumption DEF PbChunk
<1>1. ASSUME NEW x \in Int, NEW y \in Int, x < y
      PROVE  x * ChunkSize + ChunkSize <= y * ChunkSize
  <2>1. (y - x - 1) * ChunkSize >= 0
    BY <1>0, <1>1
  <2> QED BY <1>0, <2>1
<1>2. j < k \/ k < j
  BY <1>0
<1> QED BY <1>0, <1>1, <1>2 DEF chunk_get_offset

(* How update_chunk changes the pushbuffer q to u.                         *)
Updated(q, u, P, O, es, k) ==
  /\ u \in Buffers(P, O)
  /\ u.pending = q.pending /\ u.current_push = q.current_push /\ u.sema = q.sema
  /\ \A j \in PbChunk \ {k} : /\ j \in u.available <=> j \in q.available
                              /\ j \in u.idle <=> j \in q.idle
                              /\ u.next_push_start[j] = q.next_push_start[j]
  /\ u = q \/ (k \in u.available /\ Roomy(es, q.pending[k], k, push_offset(u, k)))

LEMMA SetAvailable ==
  ASSUME NEW P, NEW O, NEW q \in Buffers(P, O), NEW es, NEW k \in PbChunk, NEW n \in Int,
         Roomy(es, q.pending[k], k, chunk_get_offset(k) + n)
  PROVE  /\ Updated(q, set_available(q, k, n), P, O, es, k)
         /\ set_available(q, k, n) \in Buffers(P, O)
         /\ set_available(q, k, n).idle = q.idle
<1> DEFINE a == q.available \cup {k}
           x == [q.next_push_start EXCEPT ![k] = n]
           u == [q EXCEPT !.available = a, !.next_push_start = x]
<1>1. /\ a \in SUBSET PbChunk /\ x \in [PbChunk -> Int] /\ x[k] = n
      /\ \A j \in PbChunk \ {k} : x[j] = q.next_push_start[j]
  BY DEF Buffers
<1>2. u = set_available(q, k, n)
  BY DEF set_available
<1>3. \A j \in PbChunk \ {k} : j \in a <=> j \in q.available
  OBVIOUS
<1>4. k \in a
  OBVIOUS
<1> HIDE DEF a, x
<1>5. /\ u \in Buffers(P, O) /\ u.available = a /\ u.next_push_start = x /\ u.idle = q.idle
      /\ u.pending = q.pending /\ u.current_push = q.current_push /\ u.sema = q.sema
  BY <1>1 DEF Buffers
<1> HIDE DEF u
<1>6. push_offset(u, k) = chunk_get_offset(k) + n
  BY <1>1, <1>5 DEF push_offset
<1>7. Updated(q, u, P, O, es, k)
  BY <1>1, <1>3, <1>4, <1>5, <1>6 DEF Updated
<1> QED BY <1>2, <1>5, <1>7

LEMMA SetIdle ==
  ASSUME NEW P, NEW O, NEW q \in Buffers(P, O), NEW u, NEW es, NEW k \in PbChunk,
         Updated(q, u, P, O, es, k), k \in u.available,
         Roomy(es, q.pending[k], k, push_offset(u, k))
  PROVE  Updated(q, [u EXCEPT !.idle = u.idle \cup {k}], P, O, es, k)
<1> DEFINE i == u.idle \cup {k}
           v == [u EXCEPT !.idle = i]
<1>1. u \in Buffers(P, O)
  BY DEF Updated
<1>2. i \in SUBSET PbChunk /\ \A j \in PbChunk \ {k} : j \in i <=> j \in u.idle
  BY <1>1 DEF Buffers
<1> HIDE DEF i
<1>3. /\ v \in Buffers(P, O) /\ v.available = u.available /\ v.next_push_start = u.next_push_start
      /\ v.pending = u.pending /\ v.current_push = u.current_push /\ v.sema = u.sema /\ v.idle = i
  BY <1>1, <1>2 DEF Buffers
<1> HIDE DEF v
<1>4. push_offset(v, k) = push_offset(u, k)
  BY <1>3 DEF push_offset
<1>5. Updated(q, v, P, O, es, k)
  BY <1>2, <1>3, <1>4 DEF Updated
<1> QED BY <1>5 DEF v, i

(* update_chunk finds room for the largest push, or changes nothing.       *)
LEMMA UpdateChunk ==
  ASSUME NEW P, NEW O, NEW q \in Buffers(P, O), NEW es, Sized(es, P), NEW k \in PbChunk,
         Orderly(es, q.pending[k], k)
  PROVE  Updated(q, update_chunk(q, es, k), P, O, es, k)
<1> DEFINE s == q.pending[k]
           lo == lows(es, s)
           hi == highs(es, s)
           m == Len(s)
           b == chunk_get_offset(k)
           get == chunk_get_gpu_get(q, es, k)
           put == chunk_get_cpu_put(q, es, k)
<1>0. /\ MaxPushSize \in Nat \ {0} /\ ChunkSize \in Nat /\ MaxPushSize <= ChunkSize /\ b \in Int
  BY PushbufferAssumption, ChunkOffset
<1>1. s \in Seq(P)
  BY DEF Buffers
<1>2. /\ m \in Nat /\ \A i \in 1 .. m : s[i] \in P
      /\ lo \in [1 .. m -> Int] /\ hi \in [1 .. m -> Int]
      /\ \A i \in 1 .. m : /\ lo[i] = entry_of(es, s[i]).offset
                           /\ hi[i] = entry_of(es, s[i]).offset + entry_of(es, s[i]).size
  BY <1>1, ListTypes
<1>3. Updated(q, q, P, O, es, k)
  BY DEF Updated
<1>4. Areas(lo, hi, m, b)
  BY DEF Orderly
<1>5. CASE s = <<>>
  <2>1. get = 0 /\ put = 0
    BY <1>5 DEF chunk_get_gpu_get, chunk_get_cpu_put
  <2>2. update_chunk(q, es, k) = [set_available(q, k, 0) EXCEPT !.idle = set_available(q, k, 0).idle \cup {k}]
    BY <1>5, <2>1 DEF update_chunk
  <2>3. Fits(lo, hi, m, b, b)
    BY <1>0, <1>5 DEF Fits
  <2>4. Roomy(es, s, k, b + 0)
    BY <1>0, <2>3 DEF Roomy
  <2> DEFINE u == set_available(q, k, 0)
  <2>5. Updated(q, u, P, O, es, k)
    BY <2>4, SetAvailable
  <2>6. k \in u.available /\ push_offset(u, k) = b + 0
    <3>1. q.available \in SUBSET PbChunk /\ q.next_push_start \in [PbChunk -> Int]
      BY DEF Buffers
    <3>2. u.available = q.available \cup {k} /\ u.next_push_start = [q.next_push_start EXCEPT ![k] = 0]
      BY DEF set_available, Buffers
    <3> QED BY <3>1, <3>2 DEF push_offset
  <2> HIDE DEF u
  <2>7. Updated(q, [u EXCEPT !.idle = u.idle \cup {k}], P, O, es, k)
    BY <2>4, <2>5, <2>6, SetIdle
  <2> QED BY <2>2, <2>7 DEF u
<1>6. CASE s # <<>>
  <2>1. m \in Nat \ {0} /\ 1 \in 1 .. m /\ m \in 1 .. m
    BY <1>1, <1>2, <1>6
  <2>2. Head(s) = s[1] /\ Last(s) = s[m]
    BY <1>1, <1>6 DEF Last
  <2>3. get = lo[1] - b /\ put = hi[m] - b /\ lo[1] \in Int /\ hi[m] \in Int
    <3>1. /\ get = entry_of(es, s[1]).offset - b
          /\ put = entry_of(es, s[m]).offset + entry_of(es, s[m]).size - b
      BY <1>6, <2>2 DEF chunk_get_gpu_get, chunk_get_cpu_put
    <3>2. /\ lo[1] = entry_of(es, s[1]).offset /\ lo[1] \in Int /\ hi[m] \in Int
          /\ hi[m] = entry_of(es, s[m]).offset + entry_of(es, s[m]).size
      <4> HIDE DEF s, lo, hi, m
      <4> QED BY <1>2, <2>1
    <3>3. /\ entry_of(es, s[1]).offset \in Int
          /\ entry_of(es, s[m]).offset \in Int /\ entry_of(es, s[m]).size \in Int
      BY <1>2, <2>1 DEF Sized
    <3> HIDE DEF get, put, lo, hi, m, b, s
    <3> QED BY <1>0, <3>1, <3>2, <3>3
  <2>4. get \in Int /\ put \in Int /\ lo[1] = b + get /\ hi[m] = b + put
    BY <1>0, <2>3
  <2>5. update_chunk(q, es, k) =
          IF get = put THEN q
          ELSE IF get > put THEN IF get - put >= MaxPushSize THEN set_available(q, k, put) ELSE q
          ELSE IF ChunkSize >= put + MaxPushSize THEN set_available(q, k, put)
          ELSE IF get >= MaxPushSize THEN set_available(q, k, 0)
          ELSE q
    BY <1>6 DEF update_chunk
  <2> HIDE DEF get, put, lo, hi, m, b, s
  <2>6. CASE get > put /\ get - put >= MaxPushSize
    <3>1. hi[m] + MaxPushSize <= lo[1]
      BY <1>0, <2>4, <2>6
    <3>2. Fits(lo, hi, m, b, b + put)
      BY <1>0, <1>4, <2>1, <2>4, <3>1, FitsBetween
    <3>3. Roomy(es, q.pending[k], k, chunk_get_offset(k) + put)
      BY <3>2 DEF Roomy, lo, hi, m, b, s
    <3>4. update_chunk(q, es, k) = set_available(q, k, put)
      BY <2>4, <2>5, <2>6
    <3> QED BY <2>4, <3>3, <3>4, SetAvailable
  <2>7. CASE get < put /\ ChunkSize >= put + MaxPushSize
    <3>1. lo[1] < hi[m] /\ hi[m] + MaxPushSize <= b + ChunkSize
      BY <1>0, <2>4, <2>7
    <3>2. Fits(lo, hi, m, b, b + put)
      BY <1>0, <1>4, <2>1, <2>4, <3>1, FitsBehind
    <3>3. Roomy(es, q.pending[k], k, chunk_get_offset(k) + put)
      BY <3>2 DEF Roomy, lo, hi, m, b, s
    <3>4. update_chunk(q, es, k) = set_available(q, k, put)
      BY <2>4, <2>5, <2>7
    <3> QED BY <2>4, <3>3, <3>4, SetAvailable
  <2>8. CASE get < put /\ ~(ChunkSize >= put + MaxPushSize) /\ get >= MaxPushSize
    <3>1. lo[1] < hi[m] /\ b + MaxPushSize <= lo[1]
      BY <1>0, <2>4, <2>8
    <3>2. Fits(lo, hi, m, b, b)
      BY <1>0, <1>4, <2>1, <3>1, FitsBefore
    <3>3. b + 0 = b /\ 0 \in Int
      BY <1>0
    <3>4. Roomy(es, q.pending[k], k, chunk_get_offset(k) + 0)
      BY <3>2, <3>3 DEF Roomy, lo, hi, m, b, s
    <3>5. update_chunk(q, es, k) = set_available(q, k, 0)
      BY <2>4, <2>5, <2>8
    <3> QED BY <3>3, <3>4, <3>5, SetAvailable
  <2>9. CASE /\ ~(get > put /\ get - put >= MaxPushSize)
             /\ ~(get < put /\ ChunkSize >= put + MaxPushSize)
             /\ ~(get < put /\ get >= MaxPushSize)
    <3>1. update_chunk(q, es, k) = q
      BY <1>0, <2>4, <2>5, <2>9
    <3> QED BY <1>3, <3>1
  <2> QED BY <2>6, <2>7, <2>8, <2>9
<1> QED BY <1>5, <1>6

(* A chunk that an operation does not touch.                               *)
LEMMA ChunkKeeps ==
  ASSUME NEW q, NEW u, NEW es, NEW fs, NEW j, ChunkInv(q, es, j),
         \A i \in 1 .. Len(q.pending[j]) : entry_of(fs, q.pending[j][i]) = entry_of(es, q.pending[j][i]),
         u.pending[j] = q.pending[j], u.current_push[j] = q.current_push[j],
         u.next_push_start[j] = q.next_push_start[j],
         j \in u.available <=> j \in q.available, j \in u.idle <=> j \in q.idle
  PROVE  ChunkInv(u, fs, j)
<1>1. /\ lows(fs, q.pending[j]) = lows(es, q.pending[j])
      /\ highs(fs, q.pending[j]) = highs(es, q.pending[j])
  BY ListSame
<1>2. push_offset(u, j) = push_offset(q, j)
  BY DEF push_offset
<1> QED BY <1>1, <1>2 DEF ChunkInv, Orderly, Roomy

(* Every pending push of a chunk is there once, and in no other chunk.     *)
LEMMA PendingOnce ==
  ASSUME NEW P, NEW O, NEW q \in Buffers(P, O), NEW es, Sized(es, P), ChunksInv(q, es),
         NEW k \in PbChunk, NEW r \in 1 .. Len(q.pending[k]),
         NEW j \in PbChunk, NEW i \in 1 .. Len(q.pending[j]), q.pending[j][i] = q.pending[k][r]
  PROVE  j = k /\ i = r /\ offset_to_chunk(entry_of(es, q.pending[k][r]).offset) = k
<1> DEFINE lo(c) == lows(es, q.pending[c])
           hi(c) == highs(es, q.pending[c])
           n(c) == Len(q.pending[c])
<1>0. ASSUME NEW c \in PbChunk, NEW l \in 1 .. n(c)
      PROVE  /\ offset_to_chunk(entry_of(es, q.pending[c][l]).offset) = c
             /\ lo(c)[l] = entry_of(es, q.pending[c][l]).offset
             /\ hi(c)[l] = entry_of(es, q.pending[c][l]).offset + entry_of(es, q.pending[c][l]).size
  <2>1. q.pending[c] \in Seq(P)
    BY DEF Buffers
  <2>2. /\ lo(c)[l] = entry_of(es, q.pending[c][l]).offset /\ lo(c)[l] \in Int
        /\ hi(c)[l] = entry_of(es, q.pending[c][l]).offset + entry_of(es, q.pending[c][l]).size
        /\ hi(c)[l] \in Int
    <3> DEFINE z == q.pending[c]
    <3>1. z \in Seq(P) /\ l \in 1 .. Len(z)
      BY <2>1
    <3> HIDE DEF z
    <3>2. /\ lows(es, z) \in [1 .. Len(z) -> Int] /\ highs(es, z) \in [1 .. Len(z) -> Int]
          /\ lows(es, z)[l] = entry_of(es, z[l]).offset
          /\ highs(es, z)[l] = entry_of(es, z[l]).offset + entry_of(es, z[l]).size
      BY <3>1, ListTypes
    <3>3. lows(es, z)[l] \in Int /\ highs(es, z)[l] \in Int
      BY <3>1, <3>2
    <3> QED BY <3>2, <3>3 DEF z
  <2>3. Areas(lo(c), hi(c), n(c), chunk_get_offset(c))
    BY DEF ChunksInv, ChunkInv, Orderly
  <2>4. /\ chunk_get_offset(c) <= lo(c)[l] /\ lo(c)[l] < hi(c)[l]
        /\ hi(c)[l] <= chunk_get_offset(c) + ChunkSize
    BY <2>3 DEF Areas
  <2>5. lo(c)[l] < chunk_get_offset(c) + ChunkSize
    BY <2>2, <2>4, ChunkOffset, PushbufferAssumption
  <2> QED BY <2>2, <2>4, <2>5, ChunkOf
<1>1. j = k /\ offset_to_chunk(entry_of(es, q.pending[k][r]).offset) = k
  BY <1>0
<1>2. i = r
  <2>1. SUFFICES ASSUME i # r PROVE FALSE
    OBVIOUS
  <2>2. Areas(lo(k), hi(k), n(k), chunk_get_offset(k)) /\ i \in 1 .. n(k)
    BY <1>1 DEF ChunksInv, ChunkInv, Orderly
  <2>3. hi(k)[i] <= lo(k)[r] \/ hi(k)[r] <= lo(k)[i]
    BY <2>1, <2>2 DEF Areas
  <2>4. lo(k)[i] = lo(k)[r] /\ hi(k)[i] = hi(k)[r]
    BY <1>0, <1>1
  <2>5. lo(k)[r] \in Int /\ hi(k)[r] \in Int /\ lo(k)[r] < hi(k)[r]
    BY <2>2 DEF Areas
  <2> HIDE DEF lo, hi, n
  <2> QED BY <2>3, <2>4, <2>5
<1> QED BY <1>1, <1>2

(* What uvm_pushbuffer_end_push does with the push of chunk k.             *)
Ended(q, u, P, O, k, g) ==
  /\ u \in Buffers(P, O)
  /\ u.pending = [q.pending EXCEPT ![k] = Append(q.pending[k], g)]
  /\ u.current_push = [q.current_push EXCEPT ![k] = NoPush]
  /\ u.sema = q.sema + 1
  /\ \A j \in PbChunk \ {k} : u.next_push_start[j] = q.next_push_start[j]

(* The push behind the others.                                             *)
LEMMA OrderlyAppend ==
  ASSUME NEW P, NEW s \in Seq(P), NEW es, Sized(es, P), NEW g \in P, NEW k \in PbChunk, NEW n \in Int,
         Orderly(es, s, k), Roomy(es, s, k, n),
         entry_of(es, g).offset = n, entry_of(es, g).size \in 1 .. MaxPushSize
  PROVE  Orderly(es, Append(s, g), k)
<1> DEFINE t == Append(s, g)
           m == Len(s)
           z == entry_of(es, g).size
<1>1. /\ t \in Seq(P) /\ Len(t) = m + 1 /\ t[m + 1] = g /\ \A i \in 1 .. m : t[i] = s[i]
  BY AppendProperties
<1>2. /\ m \in Nat /\ \A i \in 1 .. m : /\ lows(es, s)[i] = entry_of(es, s[i]).offset
                                        /\ highs(es, s)[i] = entry_of(es, s[i]).offset + entry_of(es, s[i]).size
  BY ListTypes
<1>3. /\ lows(es, t) \in [1 .. m + 1 -> Int] /\ highs(es, t) \in [1 .. m + 1 -> Int]
      /\ \A i \in 1 .. m + 1 : /\ lows(es, t)[i] = entry_of(es, t[i]).offset
                               /\ highs(es, t)[i] = entry_of(es, t[i]).offset + entry_of(es, t[i]).size
  <2> HIDE DEF t
  <2>1. /\ lows(es, t) \in [1 .. Len(t) -> Int] /\ highs(es, t) \in [1 .. Len(t) -> Int]
        /\ \A i \in 1 .. Len(t) :
             /\ lows(es, t)[i] = entry_of(es, t[i]).offset
             /\ highs(es, t)[i] = entry_of(es, t[i]).offset + entry_of(es, t[i]).size
    BY <1>1, ListTypes
  <2> QED BY <1>1, <2>1
<1> HIDE DEF t, m
<1>4. \A i \in 1 .. m : i \in 1 .. m + 1
  BY <1>2
<1>5. \A i \in 1 .. m : lows(es, t)[i] = lows(es, s)[i] /\ highs(es, t)[i] = highs(es, s)[i]
  BY <1>1, <1>2, <1>3, <1>4
<1>6. m + 1 \in 1 .. m + 1
  BY <1>2
<1>7. lows(es, t)[m + 1] = n /\ highs(es, t)[m + 1] = n + z
  BY <1>1, <1>3, <1>6
<1>8. chunk_get_offset(k) \in Int
  BY ChunkOffset
<1>9. Areas(lows(es, s), highs(es, s), m, chunk_get_offset(k)) /\ Fits(lows(es, s), highs(es, s), m, chunk_get_offset(k), n)
  BY DEF Orderly, Roomy, m
<1> HIDE DEF z
<1>10. z \in 1 .. MaxPushSize
  BY DEF z
<1>11. Areas(lows(es, t), highs(es, t), m + 1, chunk_get_offset(k))
  <2> DEFINE lo2 == lows(es, t)
             hi2 == highs(es, t)
             lo == lows(es, s)
             hi == highs(es, s)
             b == chunk_get_offset(k)
  <2> HIDE DEF lo2, hi2, lo, hi, b
  <2>1. /\ lo2 \in [1 .. m + 1 -> Int] /\ hi2 \in [1 .. m + 1 -> Int]
        /\ \A i \in 1 .. m : lo2[i] = lo[i] /\ hi2[i] = hi[i]
        /\ lo2[m + 1] = n /\ hi2[m + 1] = n + z /\ b \in Int
        /\ Areas(lo, hi, m, b) /\ Fits(lo, hi, m, b, n)
    BY <1>3, <1>5, <1>7, <1>8, <1>9 DEF lo2, hi2, lo, hi, b
  <2>2. m \in Nat
    BY <1>2
  <2>3. Areas(lo2, hi2, m + 1, b)
    BY <1>10, <2>1, <2>2, AreasAppend, ZenonT(60)
  <2> QED BY <2>3 DEF lo2, hi2, b
<1> QED BY <1>1, <1>11 DEF Orderly, t

LEMMA EndPushChunks ==
  ASSUME NEW P, NEW O, NEW q \in Buffers(P, O), NEW es, Sized(es, P), ChunksInv(q, es),
         NEW fs, Sized(fs, P), NEW g \in P, NEW k \in PbChunk, q.current_push[k] # NoPush,
         \A j \in PbChunk : \A i \in 1 .. Len(q.pending[j]) :
           entry_of(fs, q.pending[j][i]) = entry_of(es, q.pending[j][i]),
         entry_of(fs, g).offset = push_offset(q, k), entry_of(fs, g).size \in 1 .. MaxPushSize
  PROVE  /\ Ended(q, pushbuffer_end_push(q, fs, g), P, O, k, g)
         /\ ChunksInv(pushbuffer_end_push(q, fs, g), fs)
<1> DEFINE s == q.pending[k]
           n == push_offset(q, k)
           w == [q EXCEPT !.pending[k] = Append(s, g)]
           v == update_chunk(w, fs, k)
           u == [v EXCEPT !.current_push[k] = NoPush, !.sema = v.sema + 1]
<1>0. /\ MaxPushSize \in Nat \ {0} /\ ChunkSize \in Nat /\ k \in Int /\ chunk_get_offset(k) \in Int
  BY PushbufferAssumption, ChunkOffset
<1>1. n \in Int
  BY <1>0 DEF push_offset, Buffers
<1>2. /\ ChunkInv(q, es, k) /\ k \notin q.available /\ Orderly(es, s, k) /\ Roomy(es, s, k, n)
  BY DEF ChunksInv, ChunkInv
<1>3. chunk_get_offset(k) <= n /\ n + MaxPushSize <= chunk_get_offset(k) + ChunkSize
  BY <1>2 DEF Roomy, Fits
<1>4. offset_to_chunk(n) = k
  BY <1>0, <1>1, <1>3, ChunkOf
<1>5. pushbuffer_end_push(q, fs, g) = u
  BY <1>4 DEF pushbuffer_end_push
<1>6. s \in Seq(P) /\ q.pending \in [PbChunk -> Seq(P)]
  BY DEF Buffers
<1>7. Append(s, g) \in Seq(P)
  BY <1>6, AppendProperties
<1>8. lows(fs, s) = lows(es, s) /\ highs(fs, s) = highs(es, s)
  BY ListSame
<1>9. Orderly(fs, s, k) /\ Roomy(fs, s, k, n)
  BY <1>2, <1>8 DEF Orderly, Roomy
<1>10. Orderly(fs, Append(s, g), k)
  BY <1>1, <1>6, <1>9, OrderlyAppend
<1>11. /\ w \in Buffers(P, O) /\ w.pending = [q.pending EXCEPT ![k] = Append(s, g)]
       /\ w.idle = q.idle /\ w.available = q.available /\ w.current_push = q.current_push
       /\ w.next_push_start = q.next_push_start /\ w.sema = q.sema
  <2> DEFINE x == [q.pending EXCEPT ![k] = Append(s, g)]
  <2>1. x \in [PbChunk -> Seq(P)]
    BY <1>6, <1>7
  <2>2. w = [q EXCEPT !.pending = x]
    OBVIOUS
  <2> HIDE DEF x
  <2>3. /\ [q EXCEPT !.pending = x] \in Buffers(P, O) /\ [q EXCEPT !.pending = x].pending = x
        /\ [q EXCEPT !.pending = x].idle = q.idle /\ [q EXCEPT !.pending = x].available = q.available
        /\ [q EXCEPT !.pending = x].current_push = q.current_push
        /\ [q EXCEPT !.pending = x].next_push_start = q.next_push_start
        /\ [q EXCEPT !.pending = x].sema = q.sema
    BY <2>1 DEF Buffers
  <2> HIDE DEF w
  <2> QED BY <2>2, <2>3 DEF x
<1> HIDE DEF w
<1>12. w.pending[k] = Append(s, g) /\ \A j \in PbChunk \ {k} : w.pending[j] = q.pending[j]
  BY <1>6, <1>11
<1>13. Updated(w, v, P, O, fs, k)
  BY <1>10, <1>11, <1>12, UpdateChunk
<1> HIDE DEF v
<1>14. /\ u \in Buffers(P, O) /\ u.current_push = [v.current_push EXCEPT ![k] = NoPush]
       /\ u.sema = v.sema + 1 /\ u.idle = v.idle /\ u.available = v.available
       /\ u.pending = v.pending /\ u.next_push_start = v.next_push_start
  <2> DEFINE x == [v.current_push EXCEPT ![k] = NoPush]
             y == v.sema + 1
  <2>1. v \in Buffers(P, O)
    BY <1>13 DEF Updated
  <2>2. x \in [PbChunk -> O \cup {NoPush}] /\ y \in Int
    BY <2>1 DEF Buffers
  <2>3. u = [v EXCEPT !.current_push = x, !.sema = y]
    OBVIOUS
  <2> HIDE DEF x, y
  <2> DEFINE z == [v EXCEPT !.current_push = x, !.sema = y]
  <2>4. /\ z \in Buffers(P, O) /\ z.current_push = x /\ z.sema = y
        /\ z.idle = v.idle /\ z.available = v.available
        /\ z.pending = v.pending /\ z.next_push_start = v.next_push_start
    BY <2>1, <2>2 DEF Buffers
  <2> HIDE DEF z, u
  <2> QED BY <2>3, <2>4 DEF x, y, z
<1> HIDE DEF u
<1>15. u.current_push[k] = NoPush /\ \A j \in PbChunk \ {k} : u.current_push[j] = q.current_push[j]
  BY <1>11, <1>13, <1>14 DEF Updated, Buffers
<1>16. Ended(q, u, P, O, k, g)
  BY <1>11, <1>13, <1>14 DEF Updated, Ended
<1>17. ASSUME NEW j \in PbChunk \ {k}
       PROVE  ChunkInv(u, fs, j)
  <2>1. ChunkInv(q, es, j)
    BY DEF ChunksInv
  <2>2. /\ u.pending[j] = q.pending[j] /\ u.current_push[j] = q.current_push[j]
        /\ u.next_push_start[j] = q.next_push_start[j]
        /\ j \in u.available <=> j \in q.available
        /\ j \in u.idle <=> j \in q.idle
    BY <1>11, <1>12, <1>13, <1>14, <1>15 DEF Updated
  <2> QED BY <2>1, <2>2, ChunkKeeps
<1>18. ChunkInv(u, fs, k)
  <2>1. u.pending[k] = Append(s, g)
    BY <1>12, <1>13, <1>14 DEF Updated
  <2>2. push_offset(u, k) = push_offset(v, k)
    BY <1>14 DEF push_offset
  <2>3. CASE v = w
    <3>1. k \notin u.available /\ k \notin u.idle
      BY <1>2, <1>11, <1>14, <2>3 DEF ChunkInv
    <3> QED BY <1>10, <1>15, <2>1, <3>1 DEF ChunkInv
  <2>4. CASE v # w
    <3>1. k \in u.available /\ Roomy(fs, Append(s, g), k, push_offset(u, k))
      BY <1>12, <1>13, <1>14, <2>2, <2>4 DEF Updated
    <3> QED BY <1>10, <1>15, <2>1, <3>1 DEF ChunkInv
  <2> QED BY <2>3, <2>4
<1> QED BY <1>5, <1>16, <1>17, <1>18 DEF ChunksInv

(* The list of a chunk without push r.                                     *)
LEMMA OrderlyRemove ==
  ASSUME NEW P, NEW s \in Seq(P), NEW es, Sized(es, P), NEW k \in PbChunk, Orderly(es, s, k),
         NEW r \in 1 .. Len(s), NEW t \in Seq(P), Len(t) = Len(s) - 1,
         \A i \in 1 .. Len(s) - 1 : t[i] = s[IF i < r THEN i ELSE i + 1]
  PROVE  Orderly(es, t, k) /\ \A n \in Int : Roomy(es, s, k, n) => Roomy(es, t, k, n)
<1> DEFINE m == Len(s)
           lo == lows(es, s)
           hi == highs(es, s)
           lo2 == lows(es, t)
           hi2 == highs(es, t)
           b == chunk_get_offset(k)
<1>1. /\ m \in Nat /\ \A i \in 1 .. m : /\ lo[i] = entry_of(es, s[i]).offset
                                        /\ hi[i] = entry_of(es, s[i]).offset + entry_of(es, s[i]).size
  BY ListTypes
<1>2. /\ lo2 \in [1 .. Len(t) -> Int] /\ hi2 \in [1 .. Len(t) -> Int]
      /\ \A i \in 1 .. Len(t) : /\ lo2[i] = entry_of(es, t[i]).offset
                                /\ hi2[i] = entry_of(es, t[i]).offset + entry_of(es, t[i]).size
  BY ListTypes
<1>3. b \in Int /\ Areas(lo, hi, m, b)
  BY ChunkOffset DEF Orderly
<1>4. Len(t) = m - 1 /\ r \in 1 .. m
  OBVIOUS
<1> HIDE DEF m, lo, hi, lo2, hi2, b
<1>5. lo2 \in [1 .. m - 1 -> Int] /\ hi2 \in [1 .. m - 1 -> Int]
  BY <1>2, <1>4
<1>6. ASSUME NEW i \in 1 .. m - 1
      PROVE  LET j == IF i < r THEN i ELSE i + 1
             IN  lo2[i] = lo[j] /\ hi2[i] = hi[j]
  <2> DEFINE j == IF i < r THEN i ELSE i + 1
  <2>1. j \in 1 .. m /\ i \in 1 .. Len(t)
    BY <1>1, <1>4
  <2>2. t[i] = s[j]
    BY DEF m
  <2> HIDE DEF j
  <2>3. lo2[i] = lo[j] /\ hi2[i] = hi[j]
    BY <1>1, <1>2, <2>1, <2>2
  <2> QED BY <2>3 DEF j
<1>7. /\ Areas(lo2, hi2, m - 1, b)
      /\ \A n \in Int : Fits(lo, hi, m, b, n) => Fits(lo2, hi2, m - 1, b, n)
  <2>1. m \in Nat
    BY <1>1
  <2> QED BY <1>3, <1>4, <1>5, <1>6, <2>1, AreasRemove, ZenonT(60)
<1> QED BY <1>4, <1>7 DEF Orderly, Roomy, lo, hi, lo2, hi2, m, b

(* What uvm_pushbuffer_mark_completed does with the push g of chunk k.     *)
Marked(q, u, P, O, k, g) ==
  /\ u \in Buffers(P, O)
  /\ u.pending = [q.pending EXCEPT ![k] = RemoveFirst(q.pending[k], g)]
  /\ u.current_push = q.current_push /\ u.sema = q.sema
  /\ \A j \in PbChunk : q.current_push[j] # NoPush => u.next_push_start[j] = q.next_push_start[j]

LEMMA MarkCompletedChunks ==
  ASSUME NEW P, NEW O, NEW q \in Buffers(P, O), NEW es, Sized(es, P), ChunksInv(q, es),
         NEW k \in PbChunk, NEW r \in 1 .. Len(q.pending[k]), NEW g \in P, q.pending[k][r] = g,
         NEW fs, \A h \in P \ {g} : entry_of(fs, h) = entry_of(es, h)
  PROVE  /\ Marked(q, pushbuffer_mark_completed(q, es, g), P, O, k, g)
         /\ ChunksInv(pushbuffer_mark_completed(q, es, g), fs)
<1> DEFINE s == q.pending[k]
           t == RemoveFirst(s, g)
           w == [q EXCEPT !.pending[k] = t]
           u == pushbuffer_mark_completed(q, es, g)
<1>1. s \in Seq(P) /\ q.pending \in [PbChunk -> Seq(P)] /\ offset_to_chunk(entry_of(es, g).offset) = k
  BY PendingOnce DEF Buffers
<1>2. \A i \in 1 .. Len(s) : s[i] = g => i = r
  BY PendingOnce
<1>3. /\ t \in Seq(P) /\ Len(t) = Len(s) - 1
      /\ \A i \in 1 .. Len(s) - 1 : t[i] = s[IF i < r THEN i ELSE i + 1]
  <2>1. r \in 1 .. Len(s) /\ s[r] = g
    OBVIOUS
  <2> HIDE DEF s
  <2> QED BY <1>1, <1>2, <2>1, RemovedOnce, SMTT(30)
<1>4. ChunkInv(q, es, k) /\ Orderly(es, s, k)
  BY DEF ChunksInv, ChunkInv
<1>5. Orderly(es, t, k) /\ \A n \in Int : Roomy(es, s, k, n) => Roomy(es, t, k, n)
  <2> HIDE DEF s, t
  <2>1. r \in 1 .. Len(s)
    BY DEF s
  <2> QED BY <1>1, <1>3, <1>4, <2>1, OrderlyRemove
<1>6. ASSUME NEW i \in 1 .. Len(t)
      PROVE  t[i] \in P \ {g}
  <2> DEFINE j == IF i < r THEN i ELSE i + 1
  <2>1. Len(s) \in Nat /\ i \in 1 .. Len(s) - 1
    BY <1>1, <1>3, LenProperties
  <2>2. j \in 1 .. Len(s) /\ j # r
    BY <2>1
  <2>3. t[i] = s[j]
    BY <1>3, <2>1
  <2>4. s[j] \in P
    BY <1>1, <2>2
  <2>5. s[j] # g
    BY <1>2, <2>2
  <2> QED BY <2>3, <2>4, <2>5
<1>7. /\ w \in Buffers(P, O) /\ w.pending = [q.pending EXCEPT ![k] = t]
      /\ w.idle = q.idle /\ w.available = q.available /\ w.current_push = q.current_push
      /\ w.next_push_start = q.next_push_start /\ w.sema = q.sema
  <2> DEFINE x == [q.pending EXCEPT ![k] = t]
             z == [q EXCEPT !.pending = x]
  <2>1. x \in [PbChunk -> Seq(P)]
    BY <1>1, <1>3
  <2>2. w = z
    OBVIOUS
  <2> HIDE DEF x
  <2>3. /\ z \in Buffers(P, O) /\ z.pending = x
        /\ z.idle = q.idle /\ z.available = q.available /\ z.current_push = q.current_push
        /\ z.next_push_start = q.next_push_start /\ z.sema = q.sema
    BY <2>1 DEF Buffers
  <2> HIDE DEF w, z
  <2> QED BY <2>2, <2>3 DEF x
<1>8. u = w \/ (q.current_push[k] = NoPush /\ u = update_chunk(w, es, k))
  BY <1>1 DEF pushbuffer_mark_completed
<1> HIDE DEF u, w, t
<1>9. w.pending[k] = t /\ \A j \in PbChunk \ {k} : w.pending[j] = q.pending[j]
  BY <1>1, <1>7
<1>10. Updated(w, u, P, O, es, k) /\ (u = w \/ q.current_push[k] = NoPush)
  <2>1. Updated(w, w, P, O, es, k)
    BY <1>7 DEF Updated
  <2>2. Updated(w, update_chunk(w, es, k), P, O, es, k)
    BY <1>5, <1>7, <1>9, UpdateChunk
  <2> QED BY <1>8, <2>1, <2>2
<1>11. Marked(q, u, P, O, k, g)
  BY <1>7, <1>10 DEF Updated, Marked, t
<1>12. ASSUME NEW j \in PbChunk \ {k}
       PROVE  ChunkInv(u, fs, j)
  <2>1. ChunkInv(q, es, j)
    BY DEF ChunksInv
  <2>2. /\ u.pending[j] = q.pending[j] /\ u.current_push[j] = q.current_push[j]
        /\ u.next_push_start[j] = q.next_push_start[j]
        /\ j \in u.available <=> j \in q.available
        /\ j \in u.idle <=> j \in q.idle
    BY <1>7, <1>9, <1>10 DEF Updated
  <2>3. ASSUME NEW i \in 1 .. Len(q.pending[j])
        PROVE  entry_of(fs, q.pending[j][i]) = entry_of(es, q.pending[j][i])
    <3>1. q.pending[j] \in Seq(P)
      BY <1>1
    <3>2. q.pending[j][i] \in P
      BY <3>1
    <3>3. q.pending[j][i] # g
      BY PendingOnce
    <3> QED BY <3>2, <3>3
  <2> QED BY <2>1, <2>2, <2>3, ChunkKeeps
<1>13. ChunkInv(u, es, k)
  <2>1. u.pending[k] = t /\ u.current_push[k] = q.current_push[k]
    BY <1>7, <1>9, <1>10 DEF Updated
  <2>2. CASE u = w
    <3>1. push_offset(u, k) = push_offset(q, k)
      BY <1>7, <2>2 DEF push_offset
    <3>2. push_offset(q, k) \in Int
      BY ChunkOffset DEF push_offset, Buffers
    <3>3. Roomy(es, s, k, push_offset(q, k)) => Roomy(es, t, k, push_offset(u, k))
      BY <1>5, <3>1, <3>2
    <3>4. u.available = q.available /\ u.idle = q.idle
      BY <1>7, <2>2
    <3> QED BY <1>4, <1>5, <2>1, <3>3, <3>4 DEF ChunkInv
  <2>3. CASE u # w
    <3>1. k \in u.available /\ Roomy(es, t, k, push_offset(u, k)) /\ q.current_push[k] = NoPush
      BY <1>9, <1>10, <2>3 DEF Updated
    <3> QED BY <1>5, <2>1, <3>1 DEF ChunkInv
  <2> QED BY <2>2, <2>3
<1>14. ChunkInv(u, fs, k)
  <2>1. u.pending[k] = t
    BY <1>9, <1>10 DEF Updated
  <2>2. \A i \in 1 .. Len(u.pending[k]) : entry_of(fs, u.pending[k][i]) = entry_of(es, u.pending[k][i])
    BY <1>6, <2>1
  <2> QED BY <1>13, <2>2, ChunkKeeps
<1> QED BY <1>11, <1>12, <1>14 DEF ChunksInv, u

-----------------------------------------------------------------------------
(* Which pushes are pending.                                               *)

within(s, h) == \E i \in 1 .. Len(s) : s[i] = h

listed(q, h) == \E k \in PbChunk : within(q.pending[k], h)

LEMMA WithinAppend ==
  ASSUME NEW P, NEW s \in Seq(P), NEW g \in P
  PROVE  \A h : within(Append(s, g), h) <=> h = g \/ within(s, h)
<1> DEFINE t == Append(s, g)
<1>1. /\ Len(s) \in Nat /\ Len(t) = Len(s) + 1 /\ t[Len(s) + 1] = g
      /\ \A i \in 1 .. Len(s) : t[i] = s[i]
  BY AppendProperties, LenProperties
<1> HIDE DEF t
<1>2. /\ \A i \in 1 .. Len(t) : i \in 1 .. Len(s) \/ i = Len(s) + 1
      /\ \A i \in 1 .. Len(s) : i \in 1 .. Len(t)
      /\ Len(s) + 1 \in 1 .. Len(t)
  BY <1>1
<1>3. \A h : within(t, h) <=> h = g \/ within(s, h)
  BY <1>1, <1>2 DEF within
<1> QED BY <1>3 DEF t

LEMMA WithinRemoved ==
  ASSUME NEW P, NEW s \in Seq(P), NEW r \in 1 .. Len(s), NEW g, s[r] = g,
         \A i \in 1 .. Len(s) : s[i] = g => i = r
  PROVE  \A h : within(RemoveFirst(s, g), h) <=> h # g /\ within(s, h)
<1> DEFINE t == RemoveFirst(s, g)
           from(i) == IF i < r THEN i ELSE i + 1
           to(i) == IF i < r THEN i ELSE i - 1
<1>1. Len(s) \in Nat /\ Len(t) = Len(s) - 1 /\ \A i \in 1 .. Len(s) - 1 : t[i] = s[from(i)]
  BY RemovedOnce, LenProperties
<1> HIDE DEF t
<1>2. /\ \A i \in 1 .. Len(t) : from(i) \in 1 .. Len(s) /\ from(i) # r
      /\ \A i \in 1 .. Len(s) : i # r => to(i) \in 1 .. Len(t) /\ from(to(i)) = i
      /\ \A i \in 1 .. Len(t) : t[i] = s[from(i)]
  BY <1>1
<1> HIDE DEF from, to
<1>3. ASSUME NEW h
      PROVE  within(t, h) <=> h # g /\ within(s, h)
  <2>1. ASSUME NEW i \in 1 .. Len(t), t[i] = h
        PROVE  h # g /\ within(s, h)
    BY <1>2, <2>1 DEF within
  <2>2. ASSUME NEW i \in 1 .. Len(s), s[i] = h, h # g
        PROVE  within(t, h)
    <3>1. i # r
      BY <2>2
    <3>2. to(i) \in 1 .. Len(t) /\ t[to(i)] = h
      BY <1>2, <2>2, <3>1
    <3> QED BY <3>2 DEF within
  <2> QED BY <2>1, <2>2 DEF within
<1> QED BY <1>3 DEF t

(* Ending a push adds it, completing a push takes it away.                 *)
LEMMA ListedEnded ==
  ASSUME NEW P, NEW O, NEW q \in Buffers(P, O), NEW k \in PbChunk, NEW g \in P, NEW u,
         Ended(q, u, P, O, k, g)
  PROVE  \A h : listed(u, h) <=> h = g \/ listed(q, h)
<1>1. q.pending \in [PbChunk -> Seq(P)]
  BY DEF Buffers
<1>2. u.pending[k] = Append(q.pending[k], g) /\ \A j \in PbChunk \ {k} : u.pending[j] = q.pending[j]
  BY <1>1 DEF Ended
<1>3. q.pending[k] \in Seq(P)
  BY <1>1
<1>4. \A h : within(u.pending[k], h) <=> h = g \/ within(q.pending[k], h)
  BY <1>2, <1>3, WithinAppend
<1> QED BY <1>2, <1>4 DEF listed

LEMMA ListedMarked ==
  ASSUME NEW P, NEW O, NEW q \in Buffers(P, O), NEW es, Sized(es, P), ChunksInv(q, es),
         NEW k \in PbChunk, NEW g \in P, within(q.pending[k], g), NEW u, Marked(q, u, P, O, k, g)
  PROVE  \A h : listed(u, h) <=> h # g /\ listed(q, h)
<1>1. q.pending \in [PbChunk -> Seq(P)]
  BY DEF Buffers
<1>2. /\ u.pending[k] = RemoveFirst(q.pending[k], g)
      /\ \A j \in PbChunk \ {k} : u.pending[j] = q.pending[j]
  BY <1>1 DEF Marked
<1>3. q.pending[k] \in Seq(P)
  BY <1>1
<1>4. PICK r \in 1 .. Len(q.pending[k]) : q.pending[k][r] = g
  BY DEF within
<1>5. \A i \in 1 .. Len(q.pending[k]) : q.pending[k][i] = g => i = r
  BY <1>4, PendingOnce
<1>6. \A h : within(u.pending[k], h) <=> h # g /\ within(q.pending[k], h)
  BY <1>2, <1>3, <1>4, <1>5, WithinRemoved
<1>7. \A j \in PbChunk \ {k} : ~within(q.pending[j], g)
  BY <1>4, PendingOnce DEF within
<1> QED BY <1>2, <1>6, <1>7 DEF listed

-----------------------------------------------------------------------------
(* What the places of the pushes mean.                                     *)

(* Pending pushes lie apart.                                               *)
LEMMA PushesDisjoint ==
  ASSUME NEW P, NEW O, NEW q \in Buffers(P, O), NEW es, Sized(es, P), ChunksInv(q, es),
         NEW g \in P, NEW h \in P, g # h, listed(q, g), listed(q, h)
  PROVE  \/ entry_of(es, g).offset + entry_of(es, g).size <= entry_of(es, h).offset
         \/ entry_of(es, h).offset + entry_of(es, h).size <= entry_of(es, g).offset
<1> DEFINE lo(x) == entry_of(es, x).offset
           hi(x) == entry_of(es, x).offset + entry_of(es, x).size
<1>a. PICK k \in PbChunk : within(q.pending[k], g)
  BY DEF listed
<1>b. PICK j \in PbChunk : within(q.pending[j], h)
  BY DEF listed
<1>1. PICK i \in 1 .. Len(q.pending[k]) : q.pending[k][i] = g
  BY <1>a DEF within
<1>2. PICK l \in 1 .. Len(q.pending[j]) : q.pending[j][l] = h
  BY <1>b DEF within
<1>3. ASSUME NEW c \in PbChunk, NEW n \in 1 .. Len(q.pending[c])
      PROVE  /\ lows(es, q.pending[c])[n] = lo(q.pending[c][n])
             /\ highs(es, q.pending[c])[n] = hi(q.pending[c][n])
             /\ Areas(lows(es, q.pending[c]), highs(es, q.pending[c]), Len(q.pending[c]), chunk_get_offset(c))
  <2>1. q.pending[c] \in Seq(P)
    BY DEF Buffers
  <2> QED BY <2>1, ListTypes DEF ChunksInv, ChunkInv, Orderly
<1>4. CASE j = k
  <2>1. l # i
    BY <1>1, <1>2, <1>4
  <2>2. /\ lows(es, q.pending[k])[i] = lo(g) /\ highs(es, q.pending[k])[i] = hi(g)
        /\ lows(es, q.pending[k])[l] = lo(h) /\ highs(es, q.pending[k])[l] = hi(h)
        /\ Areas(lows(es, q.pending[k]), highs(es, q.pending[k]), Len(q.pending[k]), chunk_get_offset(k))
    BY <1>1, <1>2, <1>3, <1>4
  <2>3. \/ highs(es, q.pending[k])[i] <= lows(es, q.pending[k])[l]
        \/ highs(es, q.pending[k])[l] <= lows(es, q.pending[k])[i]
    BY <1>4, <2>1, <2>2 DEF Areas
  <2> QED BY <2>2, <2>3
<1>5. CASE j # k
  <2>1. /\ chunk_get_offset(k) <= lo(g) /\ lo(g) < hi(g) /\ hi(g) <= chunk_get_offset(k) + ChunkSize
        /\ chunk_get_offset(j) <= lo(h) /\ lo(h) < hi(h) /\ hi(h) <= chunk_get_offset(j) + ChunkSize
    BY <1>1, <1>2, <1>3 DEF Areas
  <2>2. lo(g) \in Int /\ lo(h) \in Int /\ hi(g) \in Int /\ hi(h) \in Int
    BY DEF Sized
  <2>3. \/ chunk_get_offset(k) + ChunkSize <= chunk_get_offset(j)
        \/ chunk_get_offset(j) + ChunkSize <= chunk_get_offset(k)
    BY <1>5, ChunksApart
  <2> HIDE DEF lo, hi
  <2>4. hi(g) <= lo(h) \/ hi(h) <= lo(g)
    BY <2>1, <2>2, <2>3, ChunkOffset, PushbufferAssumption, SMTT(30)
  <2> QED BY <2>4 DEF lo, hi
<1> QED BY <1>4, <1>5

(* The place where a push is built is apart from every pending push.       *)
LEMMA SpaceDisjoint ==
  ASSUME NEW P, NEW O, NEW q \in Buffers(P, O), NEW es, Sized(es, P), ChunksInv(q, es),
         NEW k \in PbChunk, q.current_push[k] # NoPush, NEW g \in P, listed(q, g)
  PROVE  \/ push_offset(q, k) + MaxPushSize <= entry_of(es, g).offset
         \/ entry_of(es, g).offset + entry_of(es, g).size <= push_offset(q, k)
<1> DEFINE lo == entry_of(es, g).offset
           hi == entry_of(es, g).offset + entry_of(es, g).size
           n == push_offset(q, k)
<1>a. PICK j \in PbChunk : within(q.pending[j], g)
  BY DEF listed
<1>1. PICK l \in 1 .. Len(q.pending[j]) : q.pending[j][l] = g
  BY <1>a DEF within
<1>2. q.pending[j] \in Seq(P)
  BY DEF Buffers
<1>3. lows(es, q.pending[j])[l] = lo /\ highs(es, q.pending[j])[l] = hi
  BY <1>1, <1>2, ListTypes
<1>4. ChunkInv(q, es, j) /\ ChunkInv(q, es, k)
  BY DEF ChunksInv
<1>5. Fits(lows(es, q.pending[k]), highs(es, q.pending[k]), Len(q.pending[k]), chunk_get_offset(k), n)
  BY <1>4 DEF ChunkInv, Roomy
<1>6. CASE j = k
  <2>1. highs(es, q.pending[k])[l] <= n \/ n + MaxPushSize <= lows(es, q.pending[k])[l]
    BY <1>5, <1>6 DEF Fits
  <2> QED BY <1>3, <1>6, <2>1
<1>7. CASE j # k
  <2>1. chunk_get_offset(k) <= n /\ n + MaxPushSize <= chunk_get_offset(k) + ChunkSize
    BY <1>5 DEF Fits
  <2>2. chunk_get_offset(j) <= lo /\ hi <= chunk_get_offset(j) + ChunkSize
    BY <1>3, <1>4 DEF ChunkInv, Orderly, Areas
  <2>3. lo \in Int /\ hi \in Int
    BY DEF Sized
  <2>4. n \in Int
    BY ChunkOffset DEF push_offset, Buffers
  <2>5. \/ chunk_get_offset(k) + ChunkSize <= chunk_get_offset(j)
        \/ chunk_get_offset(j) + ChunkSize <= chunk_get_offset(k)
    BY <1>7, ChunksApart
  <2> HIDE DEF lo, hi, n
  <2>6. n + MaxPushSize <= lo \/ hi <= n
    BY <2>1, <2>2, <2>3, <2>4, <2>5, ChunkOffset, PushbufferAssumption
  <2> QED BY <2>6 DEF lo, hi, n
<1> QED BY <1>6, <1>7

-----------------------------------------------------------------------------
(* The sizes of the rings and of the counters.                             *)
LEMMA Sizes ==
  /\ NumChannels \in Nat \ {0} /\ NumEntries \in Nat /\ NumEntries > 2
  /\ MaxToComplete \in 1 .. NumEntries /\ MaxToComplete \in Nat
  /\ SemMod \in Nat \ {0} /\ NumEntries <= SemMod
  /\ CountMod \in Nat \ {0} /\ NumEntries < CountMod /\ MaxQueued \in Nat
  /\ \A c \in Channel : c \in 1 .. NumChannels /\ c \in 0 .. NumChannels
  /\ Channel \in SUBSET Channel /\ Channel # {} /\ Channel = 1 .. NumChannels
<1>1. 4 * NumEntries <= CountMod /\ NumEntries \in Nat /\ NumEntries > 2 /\ CountMod \in Nat
  BY ChannelAssumption
<1>2. NumEntries < CountMod
  BY <1>1
<1> QED BY <1>2, ChannelAssumption DEF Channel

-----------------------------------------------------------------------------
(* The channels of a pool.                                                 *)

(* The first channel of a set of channels is one of them.                  *)
LEMMA FirstChannel ==
  ASSUME NEW s \in SUBSET Channel, s # {}
  PROVE  first_channel(s) \in s /\ first_channel(s) \in Channel
<1>1. s \in SUBSET Nat
  BY ChannelAssumption DEF Channel
<1>2. \E c \in s : \A d \in s : c <= d
  BY <1>1, LeastNatural
<1> QED BY <1>2 DEF first_channel

(* So is the last one, and it comes after every other.                     *)
LEMMA LastChannel ==
  ASSUME NEW s \in SUBSET Channel, s # {}
  PROVE  last_channel(s) \in s /\ (\A d \in s : d <= last_channel(s))
<1> DEFINE gaps == {NumChannels - c : c \in s}
<1>0. NumChannels \in Nat /\ \A c \in s : c \in 1 .. NumChannels
  BY ChannelAssumption DEF Channel
<1>1. gaps \in SUBSET Nat /\ gaps # {} /\ \A c \in s : c \in Int
  <2>1. \A c \in s : NumChannels - c \in Nat
    BY <1>0
  <2> QED BY <1>0, <2>1
<1>2. PICK g \in gaps : \A h \in gaps : g <= h
  BY <1>1, LeastNatural
<1>3. PICK c \in s : g = NumChannels - c
  OBVIOUS
<1>4. \A d \in s : NumChannels - c <= NumChannels - d
  BY <1>2, <1>3
<1>5. \A d \in s : d <= c
  BY <1>1, <1>4, ChannelAssumption
<1> QED BY <1>5 DEF last_channel

(* The pool of a channel.                                                  *)
LEMMA PoolOf ==
  ASSUME NEW c \in Channel
  PROVE  pool_of(c) \in Pool /\ c \in pool_of(c) /\ pool_of(c) \in SUBSET Channel
<1>1. \E P \in Pool : c \in P
  BY ChannelAssumption
<1> QED BY <1>1, ChannelAssumption DEF pool_of

(* The next channel of a pool, and the one behind any but the last.        *)
LEMMA NextChannel ==
  ASSUME NEW c \in Channel
  PROVE  /\ next_channel(c) \in Channel
         /\ c # last_channel(pool_of(c)) => c + 1 \in Channel
         /\ first_channel(pool_of(c)) \in Channel
<1>1. pool_of(c) \in SUBSET Channel /\ pool_of(c) # {} /\ c \in pool_of(c)
  BY PoolOf
<1>2. /\ last_channel(pool_of(c)) \in Channel
      /\ c <= last_channel(pool_of(c))
      /\ first_channel(pool_of(c)) \in Channel
  BY <1>1, FirstChannel, LastChannel
<1>3. c # last_channel(pool_of(c)) => c + 1 \in Channel
  BY <1>2, ChannelAssumption DEF Channel
<1> QED BY <1>2, <1>3 DEF next_channel

-----------------------------------------------------------------------------
(* The records of the threads.                                             *)

ThreadRecord ==
  [pc : Steps, op : OpKinds, ch : 0 .. NumChannels, up : 0 .. NumChannels,
   todo : SUBSET Channel, tracked : BOOLEAN, ok : BOOLEAN, first : BOOLEAN,
   value : Nat, done : Nat, max : Nat, pending : 0 .. NumEntries, ret : Steps,
   loc : Steps, k : PbChunk, acquires : SUBSET (Channel \X Nat)]

LEMMA IdleRecord == idle \in ThreadRecord
  BY Sizes, ChannelAssumption, PushbufferAssumption
     DEF idle, ThreadRecord, Steps, OpKinds, PbChunk

(* Changing one field keeps the type.                                      *)
LEMMA ThreadUpdate ==
  ASSUME NEW r \in ThreadRecord
  PROVE  /\ \A x \in Steps : [r EXCEPT !.pc = x] \in ThreadRecord
         /\ \A x \in 0 .. NumChannels : [r EXCEPT !.ch = x] \in ThreadRecord
         /\ \A x \in 0 .. NumChannels : [r EXCEPT !.up = x] \in ThreadRecord
         /\ \A x \in SUBSET Channel : [r EXCEPT !.todo = x] \in ThreadRecord
         /\ \A x \in BOOLEAN : [r EXCEPT !.tracked = x] \in ThreadRecord
         /\ \A x \in BOOLEAN : [r EXCEPT !.ok = x] \in ThreadRecord
         /\ \A x \in BOOLEAN : [r EXCEPT !.first = x] \in ThreadRecord
         /\ \A x \in OpKinds : [r EXCEPT !.op = x] \in ThreadRecord
         /\ \A x \in Nat : [r EXCEPT !.value = x] \in ThreadRecord
         /\ \A x \in Nat : [r EXCEPT !.done = x] \in ThreadRecord
         /\ \A x \in Nat : [r EXCEPT !.max = x] \in ThreadRecord
         /\ \A x \in 0 .. NumEntries : [r EXCEPT !.pending = x] \in ThreadRecord
         /\ \A x \in Steps : [r EXCEPT !.ret = x] \in ThreadRecord
         /\ \A x \in Steps : [r EXCEPT !.loc = x] \in ThreadRecord
         /\ \A x \in PbChunk : [r EXCEPT !.k = x] \in ThreadRecord
         /\ \A x \in SUBSET (Channel \X Nat) : [r EXCEPT !.acquires = x] \in ThreadRecord
  BY DEF ThreadRecord

(* The record of a thread that starts to update the progress of s.         *)
Updating(u, r, s, m, x) ==
  /\ u \in ThreadRecord
  /\ u.pc = "value" /\ u.up \in s /\ u.up \in Channel /\ u.todo \subseteq s
  /\ u.ret = x /\ u.max = m /\ u.done = 0
  /\ u.op = r.op /\ u.ch = r.ch /\ u.tracked = r.tracked /\ u.ok = r.ok
  /\ u.value = r.value /\ u.loc = r.loc /\ u.k = r.k /\ u.acquires = r.acquires

LEMMA ProgressRecord ==
  ASSUME NEW r \in ThreadRecord, NEW s \in SUBSET Channel, s # {}, NEW m \in Nat, NEW x \in Steps
  PROVE  Updating(update_progress(r, s, m, x), r, s, m, x)
<1> DEFINE c == first_channel(s)
           u == [r EXCEPT !.pc = "value", !.up = c, !.todo = s \ {c}, !.max = m, !.done = 0,
                          !.ret = x]
<1>1. c \in s /\ c \in Channel
  BY FirstChannel
<1>2. c \in 0 .. NumChannels /\ s \ {c} \in SUBSET Channel /\ "value" \in Steps
  BY <1>1, Sizes DEF Steps
<1> HIDE DEF c
<1>3. u \in ThreadRecord
  <2> DEFINE a == [r EXCEPT !.pc = "value"]
             b == [a EXCEPT !.up = c]
             d == [b EXCEPT !.todo = s \ {c}]
             e == [d EXCEPT !.max = m]
             f == [e EXCEPT !.done = 0]
             h == [f EXCEPT !.ret = x]
  <2>1. a \in ThreadRecord
    BY <1>2, ThreadUpdate
  <2>2. b \in ThreadRecord
    BY <1>2, <2>1, ThreadUpdate, Zenon
  <2>3. d \in ThreadRecord
    BY <1>2, <2>2, ThreadUpdate, Zenon
  <2>4. e \in ThreadRecord
    BY <2>3, ThreadUpdate, Zenon
  <2>5. 0 \in Nat /\ f \in ThreadRecord
    BY <2>4, ThreadUpdate
  <2>6. h \in ThreadRecord
    BY <2>5, ThreadUpdate, Zenon
  <2>7. u = h
    OBVIOUS
  <2> QED BY <2>6, <2>7, Zenon
<1>4. /\ u.pc = "value" /\ u.up = c /\ u.todo = s \ {c}
      /\ u.ret = x /\ u.max = m /\ u.done = 0
      /\ u.op = r.op /\ u.ch = r.ch /\ u.tracked = r.tracked /\ u.ok = r.ok
      /\ u.value = r.value /\ u.loc = r.loc /\ u.k = r.k /\ u.acquires = r.acquires
  BY DEF ThreadRecord
<1>5. u = update_progress(r, s, m, x)
  BY DEF update_progress, c
<1> HIDE DEF u
<1> QED BY <1>1, <1>3, <1>4, <1>5 DEF Updating

-----------------------------------------------------------------------------
(* Where a thread is, and what its record says there.                      *)

(* The steps of the callers; in the loops that update the progress and     *)
(* look for errors a thread is at the step it returns to.                  *)
Reserving == {"claim", "claim_again", "errors"}
Pushing   == {"begin", "chunk", "chunk_errors", "begin_failed", "info", "acquire", "end"}
Waiting   == {"wait", "wait_errors", "wait_last"}
Draining  == {"drain", "drain_errors"}

Progress == {"value", "complete"}

phase(r) ==
  IF r.pc \in Progress /\ r.ret # "error_found" THEN r.ret
  ELSE IF r.pc \in Progress \cup {"error_found"} THEN r.loc
  ELSE r.pc

Located(r, x) ==
  /\ x \in Reserving => r.ch = 0 /\ r.up \in Channel /\ r.op \in {"push", "p2p", "ctrl", "suspend"}
  /\ x \in Pushing => r.ch \in Channel /\ r.op \in {"push", "p2p", "ctrl"}
  /\ x = "write" => r.ch \in Channel /\ r.op = "ctrl"
  /\ x \in {"suspend", "release"} => r.ch \in Channel /\ r.op = "suspend"
  /\ x \in Waiting => r.ch = 0 /\ r.up \in Channel /\ r.op = "wait"
  /\ x \in Draining => r.ch = 0 /\ r.op = "drain" /\ r.tracked
  /\ x = "acquire" => r.tracked
  /\ x = "idle" => r = idle
  /\ x \notin Progress \cup {"error_found"}

(* Every caller passes a place to return to; a status that is not NV_OK    *)
(* was made so by the fatal error, and only a channel that stopped is      *)
(* reported.                                                               *)
Counted(r) ==
  /\ r.max <= NumEntries
  /\ r.pc # "complete" => r.value = 0
  /\ r.pc \in Progress => /\ r.up \in Channel /\ r.done <= r.max
                          /\ r.ret \in {"claim_again", "chunk", "wait", "error_found"}
  /\ r.pc \notin Progress => r.done = 0
  /\ r.pc = "error_found" \/ (r.pc \in Progress /\ r.ret = "error_found") =>
       r.loc \in Errors /\ "rc" \in Faults

Flow(r, f) ==
  /\ Counted(r)
  /\ Located(r, phase(r))
  /\ r.op \in Operations \cup {"push"}
  /\ ~r.ok => f

Threads ==
  /\ th \in [Thread -> ThreadRecord]
  /\ \A t \in Thread : Flow(th[t], fatal)

(* A step that changes one thread's record.                                *)
LEMMA ThreadStep ==
  ASSUME Threads, NEW t \in Thread, NEW s \in ThreadRecord, becomes(t, s),
         fatal => fatal', Flow(s, fatal')
  PROVE  Threads'
<1>1. th' \in [Thread -> ThreadRecord] /\ th'[t] = s /\ \A u \in Thread \ {t} : th'[u] = th[u]
  BY DEF Threads, becomes
<1>2. \A u \in Thread \ {t} : Flow(th[u], fatal')
  BY DEF Threads, Flow
<1> QED BY <1>1, <1>2 DEF Threads

LEMMA IdleFlow == \A f : Flow(idle, f)
  BY Sizes DEF Flow, Counted, Located, phase, idle, Progress, Reserving, Pushing, Waiting, Draining

(* The progress of s is updated on the way to x, or to the report of an    *)
(* error found at r.loc.                                                   *)
LEMMA ProgressFlow ==
  ASSUME NEW f \in BOOLEAN, NEW r \in ThreadRecord, NEW s \in SUBSET Channel, s # {},
         NEW m \in Nat, m <= NumEntries,
         NEW x \in {"claim_again", "chunk", "wait", "error_found"},
         r.value = 0, r.op \in Operations \cup {"push"}, ~r.ok => f,
         x = "error_found" => r.loc \in Errors /\ Located(r, r.loc) /\ "rc" \in Faults,
         x = "claim_again" => r.ch = 0 /\ r.op \in {"push", "p2p", "ctrl", "suspend"},
         x = "chunk" => r.ch \in Channel /\ r.op \in {"push", "p2p", "ctrl"},
         x = "wait" => r.ch = 0 /\ r.op = "wait"
  PROVE  /\ update_progress(r, s, m, x) \in ThreadRecord
         /\ Flow(update_progress(r, s, m, x), f)
<1> DEFINE u == update_progress(r, s, m, x)
<1>1. x \in Steps
  BY DEF Steps
<1>2. Updating(u, r, s, m, x)
  BY <1>1, ProgressRecord
<1> HIDE DEF u
<1>3. Counted(u)
  BY <1>2 DEF Updating, Counted, Progress
<1>4. CASE x = "error_found"
  <2>1. phase(u) = r.loc
    BY <1>2, <1>4 DEF Updating, phase, Progress
  <2>2. Located(u, r.loc)
    BY <1>2, <1>4 DEF Updating, Located, Errors, Reserving, Pushing, Waiting, Draining, Progress
  <2> QED BY <1>2, <1>3, <2>1, <2>2 DEF Updating, Flow, u
<1>5. CASE x # "error_found"
  <2>1. phase(u) = x
    BY <1>2, <1>5 DEF Updating, phase, Progress
  <2>2. Located(u, x)
    BY <1>2, <1>5 DEF Updating, Located, Reserving, Pushing, Waiting, Draining, Progress
  <2> QED BY <1>2, <1>3, <2>1, <2>2 DEF Updating, Flow, u
<1> QED BY <1>4, <1>5

(* A thread goes on in its own record at a step x that updates no progress.*)
LEMMA GotoFlow ==
  ASSUME NEW f \in BOOLEAN, NEW r \in ThreadRecord, NEW x \in Steps \ (Progress \cup {"error_found", "idle"}),
         Flow(r, f), r.pc \notin Progress,
         Located(r, x)
  PROVE  LET s == [r EXCEPT !.pc = x]
         IN  s \in ThreadRecord /\ Flow(s, f) /\ s.ch = r.ch /\ s.op = r.op /\ s.up = r.up
             /\ s.tracked = r.tracked /\ s.ok = r.ok /\ s.pc = x
<1> DEFINE s == [r EXCEPT !.pc = x]
<1>1. s \in ThreadRecord
  BY ThreadUpdate
<1>2. /\ s.pc = x /\ s.op = r.op /\ s.ch = r.ch /\ s.up = r.up /\ s.tracked = r.tracked
      /\ s.ok = r.ok /\ s.max = r.max /\ s.value = r.value /\ s.done = r.done
  BY DEF ThreadRecord
<1> HIDE DEF s
<1>3. phase(s) = x
  BY <1>2 DEF phase
<1>4. Located(s, x)
  BY <1>2 DEF Located
<1>5. Counted(s)
  BY <1>2 DEF Flow, Counted, Progress
<1>6. Flow(s, f)
  BY <1>2, <1>3, <1>4, <1>5 DEF Flow
<1> QED BY <1>1, <1>2, <1>6 DEF s

(* A thread moves without touching a channel: it keeps the entries, the    *)
(* place in the pushbuffer and the operation it has, or it returns with    *)
(* none.                                                                   *)
Apart == {"begin", "write", "suspend", "release", "info", "acquire", "end"}

Quiet(r, s) ==
  /\ s.ch = r.ch
  /\ s.pc # "idle" => s.op = r.op /\ r.pc # "idle"
  /\ s.tracked => r.tracked
  /\ s.pc # "complete"
  /\ s.pc \notin Apart
  /\ r.pc \notin Apart
  /\ s.pc \in Draining => s.todo \subseteq {c \in Channel : tracker[c] # 0}
  /\ s.acquires \subseteq r.acquires

QuietMove(t) == \E s \in ThreadRecord : becomes(t, s) /\ Flow(s, fatal') /\ Quiet(th[t], s)

(* What uvm_channel_check_errors returns to.                               *)
LEMMA AfterErrors ==
  ASSUME NEW f \in BOOLEAN, NEW r \in ThreadRecord, r.loc \in Errors, Located(r, r.loc),
         r.value = 0, r.done = 0, r.max <= NumEntries, r.op \in Operations \cup {"push"},
         ~r.ok => f, r.pc \notin Apart \cup {"idle"}
  PROVE  /\ after_errors(r) \in ThreadRecord
         /\ Flow(after_errors(r), f)
         /\ Quiet(r, after_errors(r))
<1> DEFINE s == after_errors(r)
<1>0. /\ "claim_again" \in Steps /\ "chunk" \in Steps /\ "wait" \in Steps
      /\ MaxToComplete \in Nat /\ MaxToComplete <= NumEntries
      /\ Channel \in SUBSET Channel /\ Channel # {}
  BY Sizes DEF Steps
<1>i. ASSUME r.ch = 0, s = idle
      PROVE  s \in ThreadRecord /\ Flow(s, f) /\ Quiet(r, s)
  <2>1. Quiet(r, idle)
    BY <1>i DEF Quiet, idle, Draining, Apart
  <2> QED BY <1>i, <2>1, IdleRecord, IdleFlow
<1>p. ASSUME NEW S \in SUBSET Channel, S # {}, NEW x \in {"claim_again", "chunk", "wait"},
             s = update_progress(r, S, MaxToComplete, x),
             x = "claim_again" => r.ch = 0 /\ r.op \in {"push", "p2p", "ctrl", "suspend"},
             x = "chunk" => r.ch \in Channel /\ r.op \in {"push", "p2p", "ctrl"},
             x = "wait" => r.ch = 0 /\ r.op = "wait"
      PROVE  s \in ThreadRecord /\ Flow(s, f) /\ Quiet(r, s)
  <2>1. s \in ThreadRecord /\ Flow(s, f)
    BY <1>0, <1>p, ProgressFlow
  <2>2. Updating(s, r, S, MaxToComplete, x)
    BY <1>0, <1>p, ProgressRecord
  <2>3. Quiet(r, s)
    BY <2>2 DEF Quiet, Updating, Draining, Apart
  <2> QED BY <2>1, <2>3
<1>1. CASE r.loc = "errors"
  <2>1. r.ch = 0 /\ r.up \in Channel /\ r.op \in {"push", "p2p", "ctrl", "suspend"}
    BY <1>1 DEF Located, Reserving
  <2>2. CASE r.op \in {"push", "p2p"}
    <3>1. s = IF ~r.ok \/ (r.op = "p2p" /\ suspended[r.up]) THEN idle
              ELSE update_progress(r, {next_channel(r.up)}, MaxToComplete, "claim_again")
      BY <1>1, <2>2 DEF after_errors
    <3>2. {next_channel(r.up)} \in SUBSET Channel
      BY <2>1, NextChannel
    <3> HIDE DEF s
    <3>3. CASE ~r.ok \/ (r.op = "p2p" /\ suspended[r.up])
      BY <1>i, <2>1, <3>1, <3>3 DEF s
    <3>4. CASE ~(~r.ok \/ (r.op = "p2p" /\ suspended[r.up]))
      <4>1. s = update_progress(r, {next_channel(r.up)}, MaxToComplete, "claim_again")
        BY <3>1, <3>4
      <4> QED BY <1>p, <2>1, <3>2, <4>1 DEF s
    <3> QED BY <3>3, <3>4 DEF s
  <2>3. CASE r.op \in {"ctrl", "suspend"}
    <3>1. s = update_progress(r, {r.up}, MaxToComplete, "claim_again")
      BY <1>1, <2>3 DEF after_errors
    <3> QED BY <1>p, <2>1, <3>1
  <2> QED BY <2>1, <2>2, <2>3
<1>2. CASE r.loc = "chunk_errors"
  <2>1. r.ch \in Channel /\ r.op \in {"push", "p2p", "ctrl"}
    BY <1>2 DEF Located, Pushing
  <2>2. s = update_progress(r, Channel, MaxToComplete, "chunk")
    BY <1>2 DEF after_errors
  <2> QED BY <1>0, <1>p, <2>1, <2>2
<1>3. CASE r.loc = "wait_last"
  <2>1. r.ch = 0 /\ s = idle
    BY <1>3 DEF after_errors, Located, Waiting
  <2> QED BY <1>i, <2>1
<1>4. CASE r.loc = "wait_errors"
  <2>1. r.ch = 0 /\ r.up \in Channel /\ r.op = "wait"
    BY <1>4 DEF Located, Waiting
  <2>2. s = update_progress(r, {r.up}, MaxToComplete, "wait")
    BY <1>4 DEF after_errors
  <2> QED BY <1>p, <2>1, <2>2
<1>5. CASE r.loc = "drain_errors"
  <2> DEFINE todo == {c \in Channel : tracker[c] # 0}
             u == [r EXCEPT !.pc = "drain", !.todo = todo]
  <2>1. r.ch = 0 /\ r.op = "drain" /\ r.tracked
    BY <1>5 DEF Located, Draining
  <2>2. s = IF ~r.ok THEN idle ELSE u
    BY <1>5 DEF after_errors
  <2>3. CASE ~r.ok
    BY <1>i, <2>1, <2>2, <2>3
  <2>4. CASE r.ok
    <3>1. u = [[r EXCEPT !.pc = "drain"] EXCEPT !.todo = todo]
      OBVIOUS
    <3>2. [r EXCEPT !.pc = "drain"] \in ThreadRecord
      BY ThreadUpdate DEF Steps
    <3>3. u \in ThreadRecord
      BY <3>1, <3>2, ThreadUpdate, todo \in SUBSET Channel, Zenon
    <3>4. /\ u.pc = "drain" /\ u.todo = todo /\ u.op = r.op /\ u.ch = r.ch /\ u.ok = r.ok
          /\ u.tracked = r.tracked /\ u.value = r.value /\ u.done = r.done /\ u.max = r.max
          /\ u.acquires = r.acquires
      BY DEF ThreadRecord
    <3>5. s = u
      BY <2>2, <2>4
    <3> HIDE DEF u, s
    <3>6. phase(u) = "drain" /\ Located(u, "drain")
      BY <2>1, <3>4 DEF phase, Progress, Located, Reserving, Pushing, Waiting, Draining
    <3>7. Flow(u, f)
      BY <3>4, <3>6 DEF Flow, Counted, Progress
    <3>8. Quiet(r, u)
      BY <3>4 DEF Quiet, Apart
    <3> QED BY <3>3, <3>5, <3>7, <3>8 DEF s
  <2> QED BY <2>3, <2>4
<1> QED BY <1>1, <1>2, <1>3, <1>4, <1>5 DEF Errors

-----------------------------------------------------------------------------
(* Types.                                                                  *)

Place == Channel \X Index

Entry ==
  [type : {"none", "NORMAL", "CONTROL"}, value : Nat, offset : Int, size : Int,
   acquires : SUBSET (Channel \X Nat), p2p : BOOLEAN]

Buffer ==
  [idle : SUBSET PbChunk, available : SUBSET PbChunk, pending : [PbChunk -> Seq(Place)],
   current_push : [PbChunk -> Thread \cup {NoPush}], next_push_start : [PbChunk -> Int],
   sema : Int]

Rings ==
  /\ entries \in [Channel -> [Index -> Entry]]
  /\ cpu_put \in [Channel -> Index] /\ gpu_get \in [Channel -> Index]
  /\ count \in [Channel -> Nat]
  /\ infos \in [Channel -> Int]

Semaphores ==
  /\ queued \in [Channel -> Nat] /\ completed \in [Channel -> Nat]
  /\ released \in [Channel -> Nat] /\ executed \in [Channel -> Index]
  /\ tracker \in [Channel -> Nat]

(* Only a channel that stopped makes an error.                             *)
Others ==
  /\ error \in [Channel -> BOOLEAN] /\ suspended \in [Channel -> BOOLEAN]
  /\ fatal \in BOOLEAN
  /\ pb \in Buffer
  /\ lock \in [Pool -> Thread \cup {NoThread}]
  /\ \A c \in Channel : error[c] => "rc" \in Faults
  /\ fatal => "rc" \in Faults

Shape == Rings /\ Semaphores /\ Others /\ Threads

(* The number of pending entries.                                          *)
LEMMA PendingType ==
  ASSUME Rings, NEW c \in Channel
  PROVE  pending(c) \in 0 .. NumEntries - 1
<1>0. cpu_put[c] \in Index /\ gpu_get[c] \in Index /\ NumEntries \in Nat /\ NumEntries > 2
  BY Sizes DEF Rings
<1>1. cpu_put[c] - gpu_get[c] \in Int /\ NumEntries \in Nat \ {0}
  BY <1>0 DEF Index
<1>2. (cpu_put[c] - gpu_get[c]) % NumEntries \in 0 .. NumEntries - 1
  BY <1>1, Division
<1> QED BY <1>2 DEF pending

-----------------------------------------------------------------------------
(* The steps that touch no channel.                                        *)

(* The last channel's progress is updated.                                 *)
LEMMA ReturnFlow ==
  ASSUME NEW f \in BOOLEAN, NEW r \in ThreadRecord, Flow(r, f), r.pc = "complete",
         NEW n \in 0 .. NumEntries
  PROVE  /\ progress_returns(r, n) \in ThreadRecord
         /\ Flow(progress_returns(r, n), f)
         /\ Quiet(r, progress_returns(r, n))
<1> DEFINE m == IF r.ret = "wait" THEN n ELSE 0
           s == [r EXCEPT !.pc = r.ret, !.pending = m, !.ret = "idle", !.value = 0, !.done = 0,
                          !.max = 0]
<1>1. s = progress_returns(r, n)
  BY DEF progress_returns
<1>2. m \in 0 .. NumEntries /\ "idle" \in Steps /\ r.ret \in Steps /\ 0 \in Nat
  BY Sizes DEF Steps, ThreadRecord
<1> HIDE DEF m
<1>3. s \in ThreadRecord
  <2> DEFINE a == [r EXCEPT !.pc = r.ret]
             b == [a EXCEPT !.pending = m]
             c == [b EXCEPT !.ret = "idle"]
             d == [c EXCEPT !.value = 0]
             e == [d EXCEPT !.done = 0]
             h == [e EXCEPT !.max = 0]
  <2>1. a \in ThreadRecord
    BY <1>2, ThreadUpdate
  <2>2. b \in ThreadRecord
    BY <1>2, <2>1, ThreadUpdate, Zenon
  <2>3. c \in ThreadRecord
    BY <1>2, <2>2, ThreadUpdate, Zenon
  <2>4. d \in ThreadRecord
    BY <1>2, <2>3, ThreadUpdate, Zenon
  <2>5. e \in ThreadRecord
    BY <1>2, <2>4, ThreadUpdate, Zenon
  <2>6. h \in ThreadRecord
    BY <1>2, <2>5, ThreadUpdate, Zenon
  <2>7. s = h
    OBVIOUS
  <2> QED BY <2>6, <2>7, Zenon
<1>4. /\ s.pc = r.ret /\ s.ret = "idle" /\ s.value = 0 /\ s.done = 0 /\ s.max = 0 /\ s.loc = r.loc
      /\ s.op = r.op /\ s.ch = r.ch /\ s.up = r.up /\ s.tracked = r.tracked /\ s.ok = r.ok
      /\ s.acquires = r.acquires /\ s.todo = r.todo
  BY DEF ThreadRecord
<1> HIDE DEF s
<1>5. /\ r.ret \in {"claim_again", "chunk", "wait", "error_found"}
      /\ r.ret = "error_found" => r.loc \in Errors /\ "rc" \in Faults
  BY DEF Flow, Counted, Progress
<1>6. phase(s) = phase(r)
  BY <1>4, <1>5 DEF phase, Progress
<1>7. phase(r) \in {"claim_again", "chunk", "wait"} \cup Errors
  BY <1>5 DEF phase, Progress
<1>8. Located(s, phase(r))
  BY <1>4, <1>7 DEF Flow, Located, Errors, Reserving, Pushing, Waiting, Draining, Progress
<1>9. Counted(s)
  BY <1>4, <1>5, Sizes DEF Counted, Progress
<1>10. Flow(s, f)
  BY <1>4, <1>6, <1>8, <1>9 DEF Flow
<1>11. Quiet(r, s)
  BY <1>4, <1>5 DEF Quiet, Apart, Draining
<1> QED BY <1>1, <1>3, <1>10, <1>11

LEMMA CompletedMoves ==
  ASSUME Shape, NEW t \in Thread, Completed(t)
  PROVE  QuietMove(t) /\ fatal' = fatal
<1> DEFINE r == th[t]
           z == [r EXCEPT !.value = 0]
           n == pending(r.up)
<1>1. r \in ThreadRecord /\ Flow(r, fatal) /\ fatal \in BOOLEAN /\ fatal' = fatal
  BY DEF Shape, Threads, Others, Completed
<1>2. r.pc = "complete" /\ becomes(t, IF r.todo = {} THEN progress_returns(r, n)
                                      ELSE update_progress(z, r.todo, r.max, r.ret))
  BY DEF Completed, at
<1>3. r.up \in Channel /\ r.ret \in {"claim_again", "chunk", "wait", "error_found"}
      /\ r.max \in Nat /\ r.max <= NumEntries /\ r.todo \in SUBSET Channel /\ n \in 0 .. NumEntries
  <2>1. r.up \in Channel
    BY <1>1, <1>2 DEF Flow, Counted, Progress
  <2>2. n \in 0 .. NumEntries
    BY <2>1, PendingType, Sizes DEF Shape
  <2>3. r.max \in Nat /\ r.todo \in SUBSET Channel
    BY <1>1 DEF ThreadRecord
  <2> QED BY <1>1, <1>2, <2>1, <2>2, <2>3 DEF Flow, Counted, Progress
<1> HIDE DEF n
<1>4. CASE r.todo = {}
  <2>1. becomes(t, progress_returns(r, n))
    BY <1>2, <1>4
  <2>2. /\ progress_returns(r, n) \in ThreadRecord
        /\ Flow(progress_returns(r, n), fatal)
        /\ Quiet(r, progress_returns(r, n))
    BY <1>1, <1>2, <1>3, ReturnFlow
  <2> QED BY <1>1, <2>1, <2>2 DEF QuietMove
<1>5. CASE r.todo # {}
  <2> DEFINE s == update_progress(z, r.todo, r.max, r.ret)
  <2>1. becomes(t, s)
    BY <1>2, <1>5
  <2>2. z \in ThreadRecord
    BY <1>1, ThreadUpdate
  <2>3. /\ z.value = 0 /\ z.op = r.op /\ z.ok = r.ok /\ z.loc = r.loc /\ z.ch = r.ch
        /\ z.tracked = r.tracked /\ z.acquires = r.acquires /\ z.up = r.up
    BY <1>1 DEF ThreadRecord
  <2>4. r.op \in Operations \cup {"push"} /\ (~z.ok => fatal)
    BY <1>1, <2>3 DEF Flow
  <2> HIDE DEF z, r
  <2>5. r.ret = "error_found" => z.loc \in Errors /\ Located(z, z.loc) /\ "rc" \in Faults
    <3> HAVE r.ret = "error_found"
    <3>1. r.loc \in Errors /\ phase(r) = r.loc /\ Located(r, r.loc) /\ "rc" \in Faults
      BY <1>1, <1>2 DEF Flow, Counted, Progress, phase
    <3> QED BY <2>3, <3>1 DEF Located, Errors, Reserving, Pushing, Waiting, Draining, Progress
  <2>6. r.ret # "error_found" => phase(r) = r.ret /\ Located(r, r.ret)
    BY <1>1, <1>2 DEF Flow, phase, Progress
  <2>7. /\ r.ret = "claim_again" => z.ch = 0 /\ z.op \in {"push", "p2p", "ctrl", "suspend"}
        /\ r.ret = "chunk" => z.ch \in Channel /\ z.op \in {"push", "p2p", "ctrl"}
        /\ r.ret = "wait" => z.ch = 0 /\ z.op = "wait"
    BY <2>3, <2>6 DEF Located, Reserving, Pushing, Waiting
  <2>8. s \in ThreadRecord /\ Flow(s, fatal)
    BY <1>1, <1>3, <1>5, <2>2, <2>3, <2>4, <2>5, <2>7, ProgressFlow
  <2>9. r.ret \in Steps
    BY <1>3 DEF Steps
  <2>10. Updating(s, z, r.todo, r.max, r.ret)
    BY <1>3, <1>5, <2>2, <2>9, ProgressRecord
  <2> HIDE DEF s
  <2>11. Quiet(r, s)
    BY <1>2, <2>3, <2>10 DEF Quiet, Updating, Apart, Draining
  <2> QED BY <1>1, <2>1, <2>8, <2>11 DEF QuietMove, r
<1> QED BY <1>4, <1>5

LEMMA NoErrorsMoves ==
  ASSUME Shape, NEW t \in Thread, NoErrors(t)
  PROVE  QuietMove(t) /\ fatal' = fatal
<1> DEFINE q == th[t]
           status == q.ok /\ ~(fatal /\ q.pc \in GlobalErrors)
           r == [q EXCEPT !.loc = q.pc, !.ok = status]
           s == after_errors(r)
<1>1. q \in ThreadRecord /\ Flow(q, fatal) /\ fatal \in BOOLEAN /\ fatal' = fatal
  BY DEF Shape, Threads, Others, NoErrors
<1>2. q.pc \in Errors /\ becomes(t, s)
  BY DEF NoErrors
<1>3. r \in ThreadRecord
  <2>1. q.pc \in Steps /\ status \in BOOLEAN
    BY <1>1 DEF ThreadRecord
  <2> HIDE DEF status
  <2>2. [q EXCEPT !.loc = q.pc] \in ThreadRecord
    BY <1>1, <2>1, ThreadUpdate, Zenon
  <2>3. [[q EXCEPT !.loc = q.pc] EXCEPT !.ok = status] \in ThreadRecord
    BY <2>1, <2>2, ThreadUpdate, Zenon
  <2>4. r = [[q EXCEPT !.loc = q.pc] EXCEPT !.ok = status]
    OBVIOUS
  <2> QED BY <2>3, <2>4, Zenon
<1>4. /\ r.loc = q.pc /\ r.pc = q.pc /\ r.op = q.op /\ r.ch = q.ch /\ r.up = q.up
      /\ r.tracked = q.tracked /\ r.value = q.value /\ r.done = q.done /\ r.max = q.max
      /\ r.acquires = q.acquires
  BY <1>1 DEF ThreadRecord
<1>5. ~r.ok => fatal
  <2>1. r.ok = status
    BY <1>1 DEF ThreadRecord
  <2>2. ~q.ok => fatal
    BY <1>1 DEF Flow
  <2> QED BY <2>1, <2>2
<1> HIDE DEF r, s, q
<1>6. phase(q) = q.pc /\ q.pc \notin Progress /\ q.pc \notin Apart \cup {"idle"}
  BY <1>2 DEF phase, Errors, Progress, Apart
<1>7. Located(r, r.loc)
  BY <1>1, <1>2, <1>4, <1>6 DEF Flow, Located, Errors, Reserving, Pushing, Waiting, Draining, Progress
<1>8. r.value = 0 /\ r.done = 0 /\ r.max <= NumEntries /\ r.op \in Operations \cup {"push"}
  BY <1>1, <1>4, <1>6 DEF Flow, Counted, Progress
<1>9. s \in ThreadRecord /\ Flow(s, fatal) /\ Quiet(r, s)
  BY <1>1, <1>2, <1>3, <1>4, <1>5, <1>6, <1>7, <1>8, AfterErrors DEF s
<1>10. Quiet(q, s)
  BY <1>4, <1>9 DEF Quiet
<1> QED BY <1>1, <1>2, <1>9, <1>10 DEF QuietMove, q

LEMMA ErrorFoundMoves ==
  ASSUME Shape, NEW t \in Thread, ErrorFound(t)
  PROVE  QuietMove(t) /\ fatal' /\ "rc" \in Faults
<1> DEFINE q == th[t]
           r == [q EXCEPT !.ok = FALSE]
           s == after_errors(r)
<1>1. q \in ThreadRecord /\ Flow(q, fatal) /\ fatal' = TRUE
  BY DEF Shape, Threads, ErrorFound
<1>2. q.pc = "error_found" /\ becomes(t, s)
  BY DEF ErrorFound, at
<1>3. r \in ThreadRecord
  BY <1>1, ThreadUpdate
<1>4. /\ r.loc = q.loc /\ r.pc = q.pc /\ r.op = q.op /\ r.ch = q.ch /\ r.up = q.up
      /\ r.tracked = q.tracked /\ r.value = q.value /\ r.done = q.done /\ r.max = q.max
      /\ r.acquires = q.acquires
  BY <1>1 DEF ThreadRecord
<1> HIDE DEF r, s, q
<1>5. phase(q) = q.loc /\ q.pc \notin Progress /\ q.pc \notin Apart \cup {"idle"} /\ q.loc \in Errors
      /\ "rc" \in Faults
  BY <1>1, <1>2 DEF phase, Errors, Progress, Apart, Flow, Counted
<1>6. Located(r, r.loc)
  BY <1>1, <1>4, <1>5 DEF Flow, Located, Errors, Reserving, Pushing, Waiting, Draining, Progress
<1>7. r.value = 0 /\ r.done = 0 /\ r.max <= NumEntries /\ r.op \in Operations \cup {"push"}
  BY <1>1, <1>2, <1>4, <1>5 DEF Flow, Counted, Progress
<1>8. s \in ThreadRecord /\ Flow(s, TRUE) /\ Quiet(r, s)
  BY <1>3, <1>4, <1>5, <1>6, <1>7, AfterErrors DEF s
<1>9. Quiet(q, s)
  BY <1>4, <1>8 DEF Quiet
<1> QED BY <1>1, <1>2, <1>5, <1>8, <1>9 DEF QuietMove, q

LEMMA CheckErrorsMoves ==
  ASSUME Shape, NEW t \in Thread, CheckErrors(t)
  PROVE  QuietMove(t) /\ fatal' = fatal
<1> DEFINE q == th[t]
           r == [q EXCEPT !.loc = q.pc]
<1>1. q \in ThreadRecord /\ Flow(q, fatal) /\ fatal \in BOOLEAN /\ fatal' = fatal
  BY DEF Shape, Threads, Others, CheckErrors
<1>2. q.pc \in Errors
  BY DEF CheckErrors
<1>3. phase(q) = q.pc /\ q.pc \notin Progress /\ q.pc \notin Apart \cup {"idle"}
  BY <1>2 DEF phase, Errors, Progress, Apart
<1>4. \A c \in looks_at(t) : c \in Channel
  <2>1. CASE at(t, "chunk_errors")
    BY <2>1 DEF looks_at
  <2>2. CASE at(t, "drain_errors")
    <3>1. looks_at(t) = {c \in Channel : tracker[c] # 0}
      BY <2>2 DEF looks_at, at
    <3> QED BY <3>1
  <2>3. CASE ~at(t, "chunk_errors") /\ ~at(t, "drain_errors")
    <3>1. looks_at(t) = {q.up}
      BY <2>3 DEF looks_at
    <3>2. q.pc \in {"errors", "wait_errors", "wait_last"}
      BY <1>2, <2>3 DEF Errors, at
    <3>3. q.up \in Channel
      BY <1>1, <1>3, <3>2 DEF Flow, Located, Reserving, Waiting
    <3> QED BY <3>1, <3>3
  <2> QED BY <2>1, <2>2, <2>3
<1>5. PICK c \in looks_at(t) : /\ error[c]
                               /\ becomes(t, update_progress(r, {c}, NumEntries, "error_found"))
  BY DEF CheckErrors
<1> DEFINE s == update_progress(r, {c}, NumEntries, "error_found")
<1>6. {c} \in SUBSET Channel /\ {c} # {} /\ NumEntries \in Nat /\ NumEntries <= NumEntries
      /\ "error_found" \in Steps
  BY <1>4, Sizes DEF Steps
<1>7. r \in ThreadRecord
  <2>1. q.pc \in Steps
    BY <1>1 DEF ThreadRecord
  <2> QED BY <1>1, <2>1, ThreadUpdate, Zenon
<1>8. /\ r.loc = q.pc /\ r.pc = q.pc /\ r.op = q.op /\ r.ch = q.ch /\ r.up = q.up
      /\ r.tracked = q.tracked /\ r.value = q.value /\ r.ok = q.ok /\ r.acquires = q.acquires
  BY <1>1 DEF ThreadRecord
<1> HIDE DEF r, q
<1>9. r.loc \in Errors /\ Located(r, r.loc) /\ "rc" \in Faults
  BY <1>1, <1>2, <1>3, <1>4, <1>5, <1>8
     DEF Shape, Others, Flow, Located, Errors, Reserving, Pushing, Waiting, Draining, Progress
<1>10. r.value = 0 /\ r.op \in Operations \cup {"push"} /\ (~r.ok => fatal)
  BY <1>1, <1>3, <1>8 DEF Flow, Counted, Progress
<1>11. s \in ThreadRecord /\ Flow(s, fatal)
  BY <1>1, <1>6, <1>7, <1>9, <1>10, ProgressFlow
<1>12. Updating(s, r, {c}, NumEntries, "error_found")
  BY <1>6, <1>7, ProgressRecord
<1>13. becomes(t, s)
  BY <1>5
<1> HIDE DEF s
<1>14. Quiet(q, s)
  BY <1>3, <1>8, <1>12 DEF Quiet, Updating, Apart, Draining
<1> QED BY <1>1, <1>11, <1>13, <1>14 DEF QuietMove, q

LEMMA NoChunkMoves ==
  ASSUME Shape, NEW t \in Thread, NoChunk(t)
  PROVE  QuietMove(t) /\ fatal' = fatal
<1> DEFINE q == th[t]
           r == [q EXCEPT !.first = FALSE]
           x == IF q.ok THEN "chunk_errors" ELSE "begin_failed"
<1>1. q \in ThreadRecord /\ Flow(q, fatal) /\ fatal \in BOOLEAN /\ fatal' = fatal
  BY DEF Shape, Threads, Others, NoChunk
<1>2. q.pc = "chunk" /\ becomes(t, IF q.first THEN update_progress(r, Channel, MaxToComplete, "chunk")
                                   ELSE [q EXCEPT !.pc = x])
  BY DEF NoChunk, at
<1>3. phase(q) = "chunk" /\ q.ch \in Channel /\ q.op \in {"push", "p2p", "ctrl"} /\ q.value = 0
  BY <1>1, <1>2 DEF phase, Progress, Flow, Located, Pushing, Counted
<1>4. CASE q.first
  <2> DEFINE s == update_progress(r, Channel, MaxToComplete, "chunk")
  <2>1. r \in ThreadRecord
    BY <1>1, ThreadUpdate
  <2>2. /\ r.pc = q.pc /\ r.op = q.op /\ r.ch = q.ch /\ r.up = q.up /\ r.loc = q.loc
        /\ r.tracked = q.tracked /\ r.value = q.value /\ r.ok = q.ok /\ r.acquires = q.acquires
    BY <1>1 DEF ThreadRecord
  <2>3. becomes(t, s)
    BY <1>2, <1>4
  <2> HIDE DEF r, q
  <2>4. Channel \in SUBSET Channel /\ Channel # {} /\ MaxToComplete \in Nat
        /\ MaxToComplete <= NumEntries /\ "chunk" \in Steps
    BY Sizes DEF Steps
  <2>5. q.op \in Operations \cup {"push"} /\ (~q.ok => fatal)
    BY <1>1 DEF Flow
  <2>6. s \in ThreadRecord /\ Flow(s, fatal)
    BY <1>1, <1>3, <2>1, <2>2, <2>4, <2>5, ProgressFlow
  <2>7. Updating(s, r, Channel, MaxToComplete, "chunk")
    BY <2>1, <2>4, ProgressRecord
  <2> HIDE DEF s
  <2>8. Quiet(q, s)
    BY <1>2, <2>2, <2>7 DEF Quiet, Updating, Apart, Draining
  <2> QED BY <1>1, <2>3, <2>6, <2>8 DEF QuietMove, q
<1>5. CASE ~q.first
  <2> DEFINE s == [q EXCEPT !.pc = x]
  <2>1. becomes(t, s)
    BY <1>2, <1>5
  <2>2. x \in {"chunk_errors", "begin_failed"}
    OBVIOUS
  <2> HIDE DEF x
  <2>3. x \in Steps \ (Progress \cup {"error_found", "idle"})
    BY <2>2 DEF Steps, Progress
  <2>4. Located(q, x)
    BY <1>3, <2>2 DEF Located, Reserving, Pushing, Waiting, Draining, Progress
  <2>5. q.pc \notin Progress
    BY <1>2 DEF Progress
  <2>6. s \in ThreadRecord /\ Flow(s, fatal) /\ s.ch = q.ch /\ s.op = q.op
        /\ s.tracked = q.tracked /\ s.pc = x
    BY <1>1, <2>3, <2>4, <2>5, GotoFlow
  <2>7. s.acquires = q.acquires
    BY <1>1 DEF ThreadRecord
  <2>8. Quiet(q, s)
    BY <1>2, <2>2, <2>6, <2>7 DEF Quiet, Apart, Draining
  <2> QED BY <1>1, <2>1, <2>6, <2>8 DEF QuietMove
<1> QED BY <1>4, <1>5

LEMMA ClaimFailsMoves ==
  ASSUME Shape, NEW t \in Thread, ClaimFails(t)
  PROVE  QuietMove(t) /\ fatal' = fatal
<1> DEFINE q == th[t]
           c == q.up
           more == q.op \in {"push", "p2p"} /\ c # last_channel(pool_of(c))
           first == IF q.op \in {"push", "p2p"} THEN first_channel(pool_of(c)) ELSE c
<1>1. q \in ThreadRecord /\ Flow(q, fatal) /\ fatal \in BOOLEAN /\ fatal' = fatal
  BY DEF Shape, Threads, Others, ClaimFails
<1>2. q.pc = "claim" /\ becomes(t, IF more THEN [q EXCEPT !.up = c + 1]
                                   ELSE update_progress(q, {first}, MaxToComplete, "claim_again"))
  BY DEF ClaimFails, at
<1>3. /\ phase(q) = "claim" /\ c \in Channel /\ q.ch = 0 /\ q.value = 0
      /\ q.op \in {"push", "p2p", "ctrl", "suspend"} /\ q.op \in Operations \cup {"push"}
      /\ (~q.ok => fatal)
  BY <1>1, <1>2 DEF phase, Progress, Flow, Located, Reserving, Counted
<1>4. first \in Channel
  BY <1>3, NextChannel
<1>5. CASE more
  <2> DEFINE s == [q EXCEPT !.up = c + 1]
  <2>1. becomes(t, s)
    BY <1>2, <1>5
  <2>2. c + 1 \in Channel
    BY <1>3, <1>5, NextChannel
  <2>3. s \in ThreadRecord
    <3>1. c + 1 \in 0 .. NumChannels
      BY <2>2, Sizes
    <3> QED BY <1>1, <3>1, ThreadUpdate
  <2>4. /\ s.pc = q.pc /\ s.op = q.op /\ s.ch = q.ch /\ s.up = c + 1 /\ s.loc = q.loc
        /\ s.tracked = q.tracked /\ s.value = q.value /\ s.ok = q.ok /\ s.acquires = q.acquires
        /\ s.max = q.max /\ s.done = q.done
    BY <1>1 DEF ThreadRecord
  <2> HIDE DEF s, q
  <2>5. Flow(s, fatal)
    <3>1. phase(s) = "claim" /\ Located(s, "claim")
      BY <1>2, <1>3, <2>2, <2>4 DEF phase, Progress, Located, Reserving, Pushing, Waiting, Draining
    <3>2. Counted(s)
      BY <1>1, <1>2, <2>4 DEF Flow, Counted, Progress
    <3> QED BY <1>3, <2>4, <3>1, <3>2 DEF Flow
  <2>6. Quiet(q, s)
    BY <1>2, <2>4 DEF Quiet, Apart, Draining
  <2> QED BY <1>1, <2>1, <2>3, <2>5, <2>6 DEF QuietMove, q
<1>6. CASE ~more
  <2> DEFINE s == update_progress(q, {first}, MaxToComplete, "claim_again")
  <2>1. becomes(t, s)
    BY <1>2, <1>6
  <2> HIDE DEF first, q
  <2>2. {first} \in SUBSET Channel /\ {first} # {} /\ MaxToComplete \in Nat
        /\ MaxToComplete <= NumEntries /\ "claim_again" \in Steps
    BY <1>4, Sizes DEF Steps
  <2>3. s \in ThreadRecord /\ Flow(s, fatal)
    BY <1>1, <1>3, <2>2, ProgressFlow
  <2>4. Updating(s, q, {first}, MaxToComplete, "claim_again")
    BY <1>1, <2>2, ProgressRecord
  <2> HIDE DEF s
  <2>5. Quiet(q, s)
    BY <1>2, <2>4 DEF Quiet, Updating, Apart, Draining
  <2> QED BY <1>1, <2>1, <2>3, <2>5 DEF QuietMove, q
<1> QED BY <1>5, <1>6

(* A suspension that cannot fail: without channel errors, or none at all.  *)
SuspendsSafely == "rc" \notin Faults \/ "suspend" \notin Operations

LEMMA SuspendOk ==
  ASSUME SuspendsSafely, Shape, NEW t \in Thread, th[t].op = "suspend"
  PROVE  th[t].ok /\ ~fatal
<1>1. th[t] \in ThreadRecord /\ Flow(th[t], fatal)
  BY DEF Shape, Threads
<1>2. "suspend" \in Operations
  BY <1>1 DEF Flow
<1>3. ~fatal
  BY <1>2 DEF SuspendsSafely, Shape, Others
<1> QED BY <1>1, <1>3 DEF Flow

LEMMA ClaimFailsAgainMoves ==
  ASSUME SuspendsSafely, Shape, NEW t \in Thread, ClaimFailsAgain(t)
  PROVE  QuietMove(t) /\ fatal' = fatal
<1> DEFINE q == th[t]
<1>1. q \in ThreadRecord /\ Flow(q, fatal) /\ fatal \in BOOLEAN /\ fatal' = fatal
  BY DEF Shape, Threads, Others, ClaimFailsAgain
<1>2. q.pc = "claim_again" /\ becomes(t, IF q.ok THEN [q EXCEPT !.pc = "errors"] ELSE idle)
  BY SuspendOk DEF ClaimFailsAgain, at
<1>3. phase(q) = "claim_again" /\ q.up \in Channel /\ q.ch = 0 /\ q.pc \notin Progress
      /\ q.op \in {"push", "p2p", "ctrl", "suspend"}
  BY <1>1, <1>2 DEF phase, Progress, Flow, Located, Reserving
<1>4. CASE q.ok
  <2> DEFINE s == [q EXCEPT !.pc = "errors"]
  <2>1. becomes(t, s)
    BY <1>2, <1>4
  <2>2. Located(q, "errors") /\ "errors" \in Steps \ (Progress \cup {"error_found", "idle"})
    BY <1>3 DEF Located, Reserving, Pushing, Waiting, Draining, Progress, Steps
  <2>3. s \in ThreadRecord /\ Flow(s, fatal) /\ s.ch = q.ch /\ s.op = q.op
        /\ s.tracked = q.tracked /\ s.pc = "errors"
    BY <1>1, <1>3, <2>2, GotoFlow
  <2>4. s.acquires = q.acquires
    BY <1>1 DEF ThreadRecord
  <2>5. Quiet(q, s)
    BY <1>2, <2>3, <2>4 DEF Quiet, Apart, Draining
  <2> QED BY <1>1, <2>1, <2>3, <2>5 DEF QuietMove
<1>5. CASE ~q.ok
  <2>1. becomes(t, idle) /\ Quiet(q, idle)
    BY <1>2, <1>3, <1>5 DEF Quiet, idle, Draining, Apart
  <2> QED BY <1>1, <2>1, IdleRecord, IdleFlow DEF QuietMove
<1> QED BY <1>4, <1>5

LEMMA WaitMoves ==
  ASSUME Shape, NEW t \in Thread, Wait(t)
  PROVE  QuietMove(t) /\ fatal' = fatal
<1> DEFINE q == th[t]
           r == [q EXCEPT !.first = FALSE]
<1>1. q \in ThreadRecord /\ Flow(q, fatal) /\ fatal \in BOOLEAN /\ fatal' = fatal
  BY DEF Shape, Threads, Others, Wait
<1>2. q.pc = "wait"
      /\ becomes(t,
           IF q.first
           THEN IF q.pending = 0 /\ q.ok THEN [q EXCEPT !.pc = "wait_last"]
                ELSE update_progress(r, {q.up}, MaxToComplete, "wait")
           ELSE IF q.pending = 0 \/ ~q.ok THEN idle
           ELSE [q EXCEPT !.pc = "wait_errors"])
  BY DEF Wait, at
<1>3. phase(q) = "wait" /\ q.up \in Channel /\ q.ch = 0 /\ q.pc \notin Progress /\ q.op = "wait"
      /\ q.value = 0
  BY <1>1, <1>2 DEF phase, Progress, Flow, Located, Waiting, Counted
<1>4. ASSUME NEW x \in {"wait_last", "wait_errors"}, becomes(t, [q EXCEPT !.pc = x])
      PROVE  QuietMove(t)
  <2> DEFINE s == [q EXCEPT !.pc = x]
  <2>1. Located(q, x) /\ x \in Steps \ (Progress \cup {"error_found", "idle"})
    BY <1>3 DEF Located, Reserving, Pushing, Waiting, Draining, Progress, Steps
  <2>2. s \in ThreadRecord /\ Flow(s, fatal) /\ s.ch = q.ch /\ s.op = q.op
        /\ s.tracked = q.tracked /\ s.pc = x
    BY <1>1, <1>3, <2>1, GotoFlow
  <2>3. s.acquires = q.acquires
    BY <1>1 DEF ThreadRecord
  <2>4. Quiet(q, s)
    BY <1>2, <2>2, <2>3 DEF Quiet, Apart, Draining
  <2> QED BY <1>1, <1>4, <2>2, <2>4 DEF QuietMove
<1>5. ASSUME becomes(t, idle)
      PROVE  QuietMove(t)
  <2>1. Quiet(q, idle)
    BY <1>2, <1>3 DEF Quiet, idle, Draining, Apart
  <2> QED BY <1>1, <1>5, <2>1, IdleRecord, IdleFlow DEF QuietMove
<1>6. ASSUME becomes(t, update_progress(r, {q.up}, MaxToComplete, "wait"))
      PROVE  QuietMove(t)
  <2> DEFINE s == update_progress(r, {q.up}, MaxToComplete, "wait")
  <2>1. r \in ThreadRecord
    BY <1>1, ThreadUpdate
  <2>2. /\ r.pc = q.pc /\ r.op = q.op /\ r.ch = q.ch /\ r.up = q.up /\ r.loc = q.loc
        /\ r.tracked = q.tracked /\ r.value = q.value /\ r.ok = q.ok /\ r.acquires = q.acquires
    BY <1>1 DEF ThreadRecord
  <2> HIDE DEF r
  <2>3. {q.up} \in SUBSET Channel /\ {q.up} # {} /\ MaxToComplete \in Nat
        /\ MaxToComplete <= NumEntries /\ "wait" \in Steps
    BY <1>3, Sizes DEF Steps
  <2>4. q.op \in Operations \cup {"push"} /\ (~q.ok => fatal)
    BY <1>1 DEF Flow
  <2>5. s \in ThreadRecord /\ Flow(s, fatal)
    BY <1>1, <1>3, <2>1, <2>2, <2>3, <2>4, ProgressFlow
  <2>6. Updating(s, r, {q.up}, MaxToComplete, "wait")
    BY <2>1, <2>3, ProgressRecord
  <2> HIDE DEF s
  <2>7. Quiet(q, s)
    BY <1>2, <2>2, <2>6 DEF Quiet, Updating, Apart, Draining
  <2> QED BY <1>1, <1>6, <2>5, <2>7 DEF QuietMove, s
<1> QED BY <1>1, <1>2, <1>4, <1>5, <1>6

(* uvm_tracker_wait went through the tracker.                              *)
LEMMA DrainMoves ==
  ASSUME Shape, NEW t \in Thread, TrackerDone(t), at(t, "drain")
  PROVE  QuietMove(t) /\ fatal' = fatal
<1> DEFINE q == th[t]
<1>1. q \in ThreadRecord /\ Flow(q, fatal) /\ fatal \in BOOLEAN /\ fatal' = fatal
  BY DEF Shape, Threads, Others, TrackerDone
<1>2. q.pc = "drain" /\ q.todo = {}
      /\ becomes(t, IF \A c \in Channel : tracker[c] = 0 THEN idle
                    ELSE [q EXCEPT !.pc = "drain_errors"])
  BY DEF TrackerDone, at
<1>3. phase(q) = "drain" /\ q.ch = 0 /\ q.pc \notin Progress /\ q.op = "drain" /\ q.tracked
  BY <1>1, <1>2 DEF phase, Progress, Flow, Located, Draining
<1>4. CASE \A c \in Channel : tracker[c] = 0
  <2>1. becomes(t, idle) /\ Quiet(q, idle)
    BY <1>2, <1>3, <1>4 DEF Quiet, idle, Draining, Apart
  <2> QED BY <1>1, <2>1, IdleRecord, IdleFlow DEF QuietMove
<1>5. CASE ~(\A c \in Channel : tracker[c] = 0)
  <2> DEFINE s == [q EXCEPT !.pc = "drain_errors"]
  <2>0. becomes(t, s)
    BY <1>2, <1>5
  <2>1. Located(q, "drain_errors") /\ "drain_errors" \in Steps \ (Progress \cup {"error_found", "idle"})
    BY <1>3 DEF Located, Reserving, Pushing, Waiting, Draining, Progress, Steps
  <2>2. s \in ThreadRecord /\ Flow(s, fatal) /\ s.ch = q.ch /\ s.op = q.op
        /\ s.tracked = q.tracked /\ s.pc = "drain_errors"
    BY <1>1, <1>3, <2>1, GotoFlow, ZenonT(40)
  <2>3. s.acquires = q.acquires /\ s.todo = q.todo
    BY <1>1 DEF ThreadRecord
  <2>4. Quiet(q, s)
    BY <1>2, <2>2, <2>3 DEF Quiet, Apart, Draining
  <2> QED BY <1>1, <2>0, <2>2, <2>4 DEF QuietMove
<1> QED BY <1>4, <1>5

-----------------------------------------------------------------------------
(* The steps that start an operation, reserve entries or build a push.     *)

Move(t, s) == s \in ThreadRecord /\ becomes(t, s) /\ Flow(s, fatal')

(* The record of a thread that enters a step.                              *)
Fresh(s, x, op, ch, up) ==
  /\ s.pc = x /\ s.op = op /\ s.ch = ch /\ s.up = up
  /\ s.value = 0 /\ s.done = 0 /\ s.max = 0 /\ s.loc = "idle" /\ s.acquires = {}

LEMMA FreshFlow ==
  ASSUME NEW f \in BOOLEAN, NEW x \in Steps \ (Progress \cup {"error_found", "idle"}),
         NEW op \in Operations \cup {"push"}, NEW ch, NEW up,
         NEW s, Fresh(s, x, op, ch, up), ~s.ok => f,
         x \in Reserving => ch = 0 /\ up \in Channel /\ op \in {"push", "p2p", "ctrl", "suspend"},
         x \in Pushing => ch \in Channel /\ op \in {"push", "p2p", "ctrl"},
         x = "write" => ch \in Channel /\ op = "ctrl",
         x \in {"suspend", "release"} => ch \in Channel /\ op = "suspend",
         x \notin Waiting, x # "acquire",
         x \in Draining => ch = 0 /\ op = "drain" /\ s.tracked
  PROVE  Flow(s, f)
<1>1. phase(s) = x
  BY DEF phase, Fresh
<1>2. Located(s, x)
  BY DEF Located, Fresh
<1>3. Counted(s)
  BY Sizes DEF Counted, Progress, Fresh
<1> QED BY <1>1, <1>2, <1>3 DEF Flow, Fresh

(* A thread starts an operation without an entry of any channel.           *)
Starting(s) ==
  /\ s.ch = 0 /\ s.pc \in {"claim", "value", "drain"} /\ s.acquires = {}
  /\ s.pc = "drain" => s.todo \subseteq {c \in Channel : tracker[c] # 0}
  /\ s.op \in {"push", "p2p", "ctrl"} => may_push
  /\ s.tracked => ~tracker_locked
  /\ s.op = "suspend" => \A u \in Thread : th[u].op # "suspend"

LEMMA StartMoves ==
  ASSUME Shape, NEW t \in Thread, Start(t)
  PROVE  /\ th[t] = idle /\ unchanged
         /\ \E s \in ThreadRecord : Move(t, s) /\ Starting(s)
<1>1. fatal \in BOOLEAN /\ th[t] \in ThreadRecord /\ Flow(th[t], fatal)
  BY DEF Shape, Others, Threads
<1>2. th[t].pc = "idle" /\ unchanged
  BY DEF Start, StartPush, StartCtrl, StartSuspend, StartWait, StartDrain, start, at
<1>3. th[t] = idle
  BY <1>1, <1>2 DEF Flow, Located, phase, Progress
<1>4. fatal' = fatal
  BY <1>2 DEF unchanged
<1>5. ASSUME NEW op \in Operations, op \in {"push", "p2p", "ctrl", "suspend"}, NEW c \in Channel,
             NEW s \in ThreadRecord, becomes(t, s), Fresh(s, "claim", op, 0, c), s.ok,
             op \in {"push", "p2p", "ctrl"} => may_push, s.tracked => ~tracker_locked,
             op = "suspend" => \A u \in Thread : th[u].op # "suspend"
      PROVE  \E z \in ThreadRecord : Move(t, z) /\ Starting(z)
  <2>1. "claim" \in Steps \ (Progress \cup {"error_found", "idle"})
        /\ "claim" \notin Pushing /\ "claim" \notin Waiting /\ "claim" \notin Draining
    BY DEF Steps, Progress, Pushing, Waiting, Draining
  <2>2. Flow(s, fatal)
    BY <1>1, <1>5, <2>1, FreshFlow
  <2>3. Starting(s)
    BY <1>5 DEF Starting, Fresh
  <2> QED BY <1>4, <1>5, <2>2, <2>3 DEF Move
<1>6. "claim" \in Steps /\ {"push", "p2p", "ctrl", "suspend", "wait", "drain"} \subseteq OpKinds
      /\ \A c \in Channel : c \in 0 .. NumChannels
  BY Sizes DEF Steps, OpKinds
<1>7. CASE StartPush(t)
  <2>1. PICK op \in Operations \cap {"push", "p2p"}, P \in Pool, tracked \in BOOLEAN :
          /\ tracked => ~tracker_locked
          /\ start(t, [idle EXCEPT !.pc = "claim", !.op = op, !.up = first_channel(P),
                                   !.tracked = tracked])
    BY <1>7 DEF StartPush
  <2> DEFINE s == [idle EXCEPT !.pc = "claim", !.op = op, !.up = first_channel(P), !.tracked = tracked]
  <2>2. first_channel(P) \in Channel
    BY FirstChannel, ChannelAssumption
  <2>3. s \in ThreadRecord
    BY <1>6, <2>2, IdleRecord DEF ThreadRecord
  <2>4. Fresh(s, "claim", op, 0, first_channel(P)) /\ s.ok /\ s.tracked = tracked
    BY IdleRecord DEF idle, Fresh, ThreadRecord
  <2>5. may_push /\ becomes(t, s)
    BY <1>7, <2>1 DEF StartPush, start
  <2> QED BY <1>5, <2>1, <2>2, <2>3, <2>4, <2>5, <1>2, <1>3
<1>8. CASE StartCtrl(t)
  <2>1. PICK c \in Channel : start(t, [idle EXCEPT !.pc = "claim", !.op = "ctrl", !.up = c])
    BY <1>8 DEF StartCtrl
  <2> DEFINE s == [idle EXCEPT !.pc = "claim", !.op = "ctrl", !.up = c]
  <2>2. s \in ThreadRecord
    BY <1>6, IdleRecord DEF ThreadRecord
  <2>3. Fresh(s, "claim", "ctrl", 0, c) /\ s.ok /\ ~s.tracked
    BY IdleRecord DEF idle, Fresh, ThreadRecord
  <2>4. may_push /\ "ctrl" \in Operations /\ becomes(t, s)
    BY <1>8, <2>1 DEF StartCtrl, start
  <2> HIDE DEF s
  <2> QED BY <1>5, <2>2, <2>3, <2>4, <1>2, <1>3
<1>9. CASE StartSuspend(t)
  <2>1. PICK P \in Pool :
          start(t, [idle EXCEPT !.pc = "claim", !.op = "suspend", !.up = first_channel(P)])
    BY <1>9 DEF StartSuspend
  <2> DEFINE s == [idle EXCEPT !.pc = "claim", !.op = "suspend", !.up = first_channel(P)]
  <2>2. first_channel(P) \in Channel
    BY FirstChannel, ChannelAssumption
  <2>3. s \in ThreadRecord
    BY <1>6, <2>2, IdleRecord DEF ThreadRecord
  <2>4. Fresh(s, "claim", "suspend", 0, first_channel(P)) /\ s.ok /\ ~s.tracked
    BY IdleRecord DEF idle, Fresh, ThreadRecord
  <2>5. becomes(t, s) /\ "suspend" \in Operations /\ \A u \in Thread : th[u].op # "suspend"
    BY <1>9, <2>1 DEF StartSuspend, start
  <2> HIDE DEF s
  <2> QED BY <1>5, <2>2, <2>3, <2>4, <2>5, <1>2, <1>3
<1>10. CASE StartWait(t)
  <2>1. PICK c \in Channel :
          start(t, update_progress([idle EXCEPT !.op = "wait", !.ok = ~fatal], {c}, MaxToComplete, "wait"))
    BY <1>10 DEF StartWait
  <2> DEFINE r == [idle EXCEPT !.op = "wait", !.ok = ~fatal]
             s == update_progress(r, {c}, MaxToComplete, "wait")
  <2>2. r \in ThreadRecord
    BY <1>6, IdleRecord DEF ThreadRecord
  <2>3. Fresh(r, "idle", "wait", 0, 0) /\ r.ok = ~fatal /\ ~r.tracked
    BY <1>1, IdleRecord DEF idle, Fresh, ThreadRecord
  <2>4. {c} \in SUBSET Channel /\ {c} # {} /\ MaxToComplete \in Nat
        /\ MaxToComplete <= NumEntries /\ "wait" \in Steps /\ "wait" \in Operations
    BY <1>10, Sizes DEF Steps, StartWait
  <2>5. becomes(t, s)
    BY <2>1 DEF start
  <2> HIDE DEF r
  <2>6. s \in ThreadRecord /\ Flow(s, fatal)
    BY <1>1, <2>2, <2>3, <2>4, ProgressFlow DEF Fresh
  <2>7. Updating(s, r, {c}, MaxToComplete, "wait")
    BY <2>2, <2>4, ProgressRecord
  <2> HIDE DEF s
  <2>8. Starting(s)
    BY <2>3, <2>7 DEF Starting, Updating, Fresh
  <2> QED BY <1>2, <1>3, <1>4, <2>5, <2>6, <2>8 DEF Move
<1>11. CASE StartDrain(t)
  <2> DEFINE todo == {c \in Channel : tracker[c] # 0}
             s == [idle EXCEPT !.pc = "drain", !.op = "drain", !.tracked = TRUE, !.todo = todo]
  <2>1. becomes(t, s)
    BY <1>11 DEF StartDrain, start
  <2>2. "drain" \in Steps \ (Progress \cup {"error_found", "idle"})
        /\ "drain" \notin Reserving /\ "drain" \notin Pushing /\ "drain" \notin Waiting
        /\ todo \in SUBSET Channel /\ todo \subseteq {c \in Channel : tracker[c] # 0}
    BY DEF Steps, Progress, Reserving, Pushing, Waiting
  <2>3. "drain" \in Operations /\ ~tracker_locked
    BY <1>11 DEF StartDrain
  <2> HIDE DEF todo
  <2>4. s \in ThreadRecord
    BY <1>6, <2>2, IdleRecord DEF ThreadRecord
  <2>5. Fresh(s, "drain", "drain", 0, 0) /\ s.todo = todo /\ s.tracked /\ s.ok
    BY IdleRecord DEF idle, Fresh, ThreadRecord
  <2> HIDE DEF s
  <2>6. Flow(s, fatal)
    BY <1>1, <2>2, <2>3, <2>5, FreshFlow
  <2>7. Starting(s)
    BY <2>2, <2>3, <2>5 DEF Starting, Fresh
  <2> QED BY <1>2, <1>3, <1>4, <2>1, <2>4, <2>6, <2>7 DEF Move
<1> QED BY <1>2, <1>3, <1>7, <1>8, <1>9, <1>10, <1>11 DEF Start

(* The thread goes on at x with what it has.                               *)
Same(r, s) ==
  /\ s.op = r.op /\ s.ch = r.ch /\ s.tracked = r.tracked /\ s.ok = r.ok /\ s.k = r.k
  /\ s.acquires = r.acquires

Pushes(r) == r.ch \in Channel /\ r.op \in {"push", "p2p", "ctrl"}

LEMMA GotoMoves ==
  ASSUME Shape, NEW t \in Thread, NEW x \in Steps \ (Progress \cup {"error_found", "idle"}),
         th[t].pc \notin Progress, Located(th[t], x), becomes(t, [th[t] EXCEPT !.pc = x]),
         fatal' = fatal
  PROVE  \E s \in ThreadRecord : /\ Move(t, s) /\ Same(th[t], s) /\ s.pc = x
                                 /\ s.todo = th[t].todo /\ s.value = th[t].value
<1> DEFINE q == th[t]
           s == [q EXCEPT !.pc = x]
<1>1. q \in ThreadRecord /\ Flow(q, fatal) /\ fatal \in BOOLEAN
  BY DEF Shape, Threads, Others
<1>2. s \in ThreadRecord /\ Flow(s, fatal) /\ s.pc = x
  BY <1>1, GotoFlow
<1>3. Same(q, s) /\ s.todo = q.todo /\ s.value = q.value
  BY <1>1 DEF ThreadRecord, Same
<1> QED BY <1>2, <1>3 DEF Move

(* What a thread in a push has.                                            *)
LEMMA PushState ==
  ASSUME Shape, NEW t \in Thread, th[t].pc \in Pushing
  PROVE  Pushes(th[t]) /\ th[t].pc \notin Progress /\ th[t] \in ThreadRecord
         /\ (th[t].pc = "acquire" => th[t].tracked)
<1>1. th[t] \in ThreadRecord /\ Flow(th[t], fatal)
  BY DEF Shape, Threads
<1>2. phase(th[t]) = th[t].pc /\ th[t].pc \notin Progress
  BY DEF phase, Pushing, Progress
<1> QED BY <1>1, <1>2 DEF Flow, Located, Pushes

LEMMA PushLocated ==
  ASSUME NEW r, Pushes(r), NEW x \in Pushing, x = "acquire" => r.tracked
  PROVE  Located(r, x) /\ x \in Steps \ (Progress \cup {"error_found", "idle"})
  BY DEF Pushes, Located, Pushing, Reserving, Waiting, Draining, Progress, Steps

LEMMA BeginMoves ==
  ASSUME Shape, NEW t \in Thread, Begin(t)
  PROVE  /\ th[t].pc = "begin" /\ Pushes(th[t]) /\ fatal' = fatal
         /\ \E s \in ThreadRecord : Move(t, s) /\ Same(th[t], s) /\ s.pc = "chunk"
<1>1. th[t].pc = "begin" /\ becomes(t, [th[t] EXCEPT !.pc = "chunk"]) /\ fatal' = fatal
  BY DEF Begin, at, goto
<1>2. "begin" \in Pushing /\ "chunk" \in Pushing
  BY DEF Pushing
<1>3. Pushes(th[t]) /\ th[t].pc \notin Progress
  BY <1>1, <1>2, PushState
<1>4. Located(th[t], "chunk") /\ "chunk" \in Steps \ (Progress \cup {"error_found", "idle"})
  BY <1>2, <1>3, PushLocated
<1> QED BY <1>1, <1>3, <1>4, GotoMoves

(* The chunk a push is built in is an idle or an available one.            *)
LEMMA PickChunks ==
  ASSUME NEW q \in Buffer, NEW k \in pick_chunks(q)
  PROVE  k \in PbChunk /\ (k \in q.idle \/ k \in q.available)
  BY DEF pick_chunks, Buffer

LEMMA ClaimChunkMoves ==
  ASSUME Shape, NEW t \in Thread, ClaimChunk(t)
  PROVE  /\ th[t].pc = "chunk" /\ Pushes(th[t]) /\ fatal' = fatal
         /\ \E k \in pick_chunks(pb), s \in ThreadRecord :
              /\ k \in PbChunk /\ pb' = claim_chunk(pb, k, t)
              /\ Move(t, s) /\ s.pc = IF th[t].ok THEN "info" ELSE "begin_failed"
              /\ s.k = k /\ s.op = th[t].op /\ s.ch = th[t].ch /\ s.tracked = th[t].tracked
              /\ s.acquires = th[t].acquires
<1> DEFINE q == th[t]
           x == IF q.ok THEN "info" ELSE "begin_failed"
<1>1. q.pc = "chunk" /\ fatal' = fatal
  BY DEF ClaimChunk, at
<1>2. PICK k \in pick_chunks(pb) :
        pb' = claim_chunk(pb, k, t) /\ becomes(t, [q EXCEPT !.k = k, !.pc = x])
  BY DEF ClaimChunk
<1>3. k \in PbChunk
  BY PickChunks DEF Shape, Others
<1> DEFINE r == [q EXCEPT !.k = k]
           s == [r EXCEPT !.pc = x]
<1>4. q \in ThreadRecord /\ Flow(q, fatal) /\ fatal \in BOOLEAN
  BY DEF Shape, Threads, Others
<1>5. Pushes(q) /\ q.pc \notin Progress
  BY <1>1, PushState DEF Pushing
<1>6. r \in ThreadRecord
  BY <1>3, <1>4, ThreadUpdate
<1>7. /\ r.pc = q.pc /\ r.op = q.op /\ r.ch = q.ch /\ r.up = q.up /\ r.loc = q.loc /\ r.ret = q.ret
      /\ r.tracked = q.tracked /\ r.value = q.value /\ r.ok = q.ok /\ r.acquires = q.acquires
      /\ r.max = q.max /\ r.done = q.done /\ r.k = k
  BY <1>4 DEF ThreadRecord
<1>8. [q EXCEPT !.k = k, !.pc = x] = s
  OBVIOUS
<1>9. x \in Pushing /\ x # "acquire"
  BY DEF Pushing
<1>10. becomes(t, s)
  BY <1>2, <1>8
<1> HIDE DEF r, x
<1>11. Flow(r, fatal) /\ Pushes(r)
  <2>1. phase(r) = "chunk" /\ phase(q) = "chunk"
    BY <1>1, <1>7 DEF phase, Progress
  <2>2. Located(r, "chunk") /\ Pushes(r)
    BY <1>5, <1>7, PushLocated DEF Pushes, Pushing
  <2>3. Counted(r)
    BY <1>4, <1>7 DEF Flow, Counted
  <2> QED BY <1>4, <1>7, <2>1, <2>2, <2>3 DEF Flow
<1>12. Located(r, x) /\ x \in Steps \ (Progress \cup {"error_found", "idle"})
  BY <1>9, <1>11, PushLocated
<1>13. s \in ThreadRecord /\ Flow(s, fatal) /\ s.pc = x
  BY <1>4, <1>5, <1>6, <1>7, <1>11, <1>12, GotoFlow
<1>14. s.k = k /\ s.op = q.op /\ s.ch = q.ch /\ s.tracked = q.tracked /\ s.acquires = q.acquires
  BY <1>6, <1>7 DEF ThreadRecord
<1> HIDE DEF s
<1>15. Move(t, s)
  BY <1>1, <1>10, <1>13 DEF Move
<1>16. s.pc = IF q.ok THEN "info" ELSE "begin_failed"
  BY <1>13 DEF x
<1> QED BY <1>1, <1>2, <1>3, <1>5, <1>13, <1>14, <1>15, <1>16

(* A thread returns.                                                       *)
LEMMA ReturnMoves ==
  ASSUME NEW t, becomes(t, idle)
  PROVE  Move(t, idle)
  BY IdleRecord, IdleFlow DEF Move

LEMMA GetPushInfoMoves ==
  ASSUME Shape, NEW t \in Thread, GetPushInfo(t)
  PROVE  /\ th[t].pc = "info" /\ Pushes(th[t]) /\ fatal' = fatal
         /\ \E s \in ThreadRecord :
              /\ Move(t, s) /\ Same(th[t], s)
              /\ s.pc \in {"acquire", "end"} /\ (s.pc = "acquire" => th[t].tracked)
              /\ s.todo \subseteq {c \in Channel : tracker[c] # 0}
<1> DEFINE q == th[t]
           x == IF q.tracked THEN "acquire" ELSE "end"
           todo == IF q.tracked THEN {c \in Channel : tracker[c] # 0} ELSE {}
           r == [q EXCEPT !.todo = todo]
           s == [r EXCEPT !.pc = x]
<1>1. q.pc = "info" /\ fatal' = fatal /\ becomes(t, [q EXCEPT !.pc = x, !.todo = todo])
  BY DEF GetPushInfo, at
<1>2. q \in ThreadRecord /\ Flow(q, fatal) /\ fatal \in BOOLEAN
  BY DEF Shape, Threads, Others
<1>3. Pushes(q) /\ q.pc \notin Progress
  BY <1>1, PushState DEF Pushing
<1>4. todo \in SUBSET Channel /\ todo \subseteq {c \in Channel : tracker[c] # 0}
  OBVIOUS
<1> HIDE DEF todo
<1>5. [q EXCEPT !.pc = x, !.todo = todo] = s
  BY <1>2 DEF ThreadRecord
<1>6. r \in ThreadRecord
  BY <1>2, <1>4, ThreadUpdate
<1>7. /\ r.pc = q.pc /\ r.op = q.op /\ r.ch = q.ch /\ r.up = q.up /\ r.loc = q.loc /\ r.ret = q.ret
      /\ r.tracked = q.tracked /\ r.value = q.value /\ r.ok = q.ok /\ r.acquires = q.acquires
      /\ r.max = q.max /\ r.done = q.done /\ r.k = q.k /\ r.todo = todo
  BY <1>2 DEF ThreadRecord
<1>8. x \in {"acquire", "end"} /\ (x = "acquire" => q.tracked)
  OBVIOUS
<1>9. x \in Pushing
  BY <1>8 DEF Pushing
<1>10. becomes(t, s)
  BY <1>1, <1>5
<1> HIDE DEF r, x
<1>11. Flow(r, fatal) /\ Pushes(r)
  <2>1. phase(r) = "info" /\ phase(q) = "info"
    BY <1>1, <1>7 DEF phase, Progress
  <2>2. Located(r, "info") /\ Pushes(r)
    BY <1>3, <1>7, PushLocated DEF Pushes, Pushing
  <2>3. Counted(r)
    BY <1>2, <1>7 DEF Flow, Counted
  <2> QED BY <1>2, <1>7, <2>1, <2>2, <2>3 DEF Flow
<1>12. Located(r, x) /\ x \in Steps \ (Progress \cup {"error_found", "idle"})
  BY <1>7, <1>8, <1>9, <1>11, PushLocated
<1>13. s \in ThreadRecord /\ Flow(s, fatal) /\ s.pc = x
  BY <1>2, <1>3, <1>6, <1>7, <1>11, <1>12, GotoFlow
<1>14. Same(q, s) /\ s.todo = todo
  BY <1>6, <1>7 DEF ThreadRecord, Same
<1> HIDE DEF s
<1>15. Move(t, s)
  BY <1>1, <1>10, <1>13 DEF Move
<1> QED BY <1>1, <1>3, <1>4, <1>8, <1>13, <1>14, <1>15

LEMMA TrackerState ==
  ASSUME Shape, NEW t \in Thread, th[t].pc \in {"acquire", "drain"}
  PROVE  /\ th[t] \in ThreadRecord /\ Flow(th[t], fatal) /\ fatal \in BOOLEAN
         /\ th[t].pc \notin Progress /\ th[t].tracked
         /\ th[t].pc = "acquire" => Pushes(th[t])
         /\ th[t].pc = "drain" => th[t].ch = 0 /\ th[t].op = "drain"
<1>1. th[t] \in ThreadRecord /\ Flow(th[t], fatal) /\ fatal \in BOOLEAN
  BY DEF Shape, Threads, Others
<1>2. phase(th[t]) = th[t].pc /\ th[t].pc \notin Progress
  BY DEF phase, Progress
<1> QED BY <1>1, <1>2 DEF Flow, Located, Pushes, Pushing, Draining

LEMMA TrackerEntryMoves ==
  ASSUME Shape, NEW t \in Thread, TrackerEntry(t)
  PROVE  /\ th[t].pc \in {"acquire", "drain"} /\ fatal' = fatal /\ th[t].todo # {}
         /\ LET c == first_channel(th[t].todo)
            IN  /\ c \in Channel /\ c \in th[t].todo
                /\ completed' = looked_at(c, tracker[c])
                /\ tracker' = IF is_value_completed(c, tracker[c]) THEN [tracker EXCEPT ![c] = 0]
                              ELSE tracker
                /\ \E s \in ThreadRecord :
                     /\ Move(t, s) /\ s.pc = th[t].pc /\ s.op = th[t].op /\ s.ch = th[t].ch
                     /\ s.tracked = th[t].tracked /\ s.k = th[t].k
                     /\ s.todo = th[t].todo \ {c}
                     /\ \/ s.acquires = th[t].acquires
                        \/ /\ s.acquires = th[t].acquires \cup {<<c, tracker[c]>>}
                           /\ th[t].pc = "acquire"
                           /\ ~is_value_completed(c, tracker[c])
<1> DEFINE q == th[t]
           c == first_channel(q.todo)
           done == is_value_completed(c, tracker[c])
           todo == q.todo \ {c}
           acq == IF at(t, "acquire") /\ ~done /\ c # q.ch
                  THEN q.acquires \cup {<<c, tracker[c]>>} ELSE q.acquires
           s == [q EXCEPT !.todo = todo, !.acquires = acq]
<1>1. /\ q.pc \in {"acquire", "drain"} /\ fatal' = fatal /\ q.todo # {}
      /\ completed' = looked_at(c, tracker[c])
      /\ tracker' = IF done THEN [tracker EXCEPT ![c] = 0] ELSE tracker
      /\ becomes(t, s)
  BY DEF TrackerEntry
<1>2. q \in ThreadRecord /\ Flow(q, fatal) /\ fatal \in BOOLEAN /\ q.pc \notin Progress
  BY <1>1, TrackerState
<1>3. q.todo \in SUBSET Channel /\ q.acquires \in SUBSET (Channel \X Nat)
  BY <1>2 DEF ThreadRecord
<1>4. c \in Channel /\ c \in q.todo
  BY <1>1, <1>3, FirstChannel
<1>5. tracker[c] \in Nat
  BY <1>4 DEF Shape, Semaphores
<1>6. /\ acq \in SUBSET (Channel \X Nat)
      /\ \/ acq = q.acquires
         \/ acq = q.acquires \cup {<<c, tracker[c]>>} /\ q.pc = "acquire" /\ ~done
  BY <1>3, <1>4, <1>5 DEF at
<1>7. todo \in SUBSET Channel
  BY <1>3
<1> HIDE DEF acq, todo, c, done
<1>8. s \in ThreadRecord
  <2>1. [q EXCEPT !.todo = todo] \in ThreadRecord
    BY <1>2, <1>7, ThreadUpdate
  <2>2. [[q EXCEPT !.todo = todo] EXCEPT !.acquires = acq] \in ThreadRecord
    BY <1>6, <2>1, ThreadUpdate, Zenon
  <2>3. s = [[q EXCEPT !.todo = todo] EXCEPT !.acquires = acq]
    OBVIOUS
  <2> QED BY <2>2, <2>3, Zenon
<1>9. /\ s.pc = q.pc /\ s.op = q.op /\ s.ch = q.ch /\ s.up = q.up /\ s.loc = q.loc /\ s.ret = q.ret
      /\ s.tracked = q.tracked /\ s.value = q.value /\ s.ok = q.ok /\ s.acquires = acq
      /\ s.max = q.max /\ s.done = q.done /\ s.k = q.k /\ s.todo = todo
  BY <1>2 DEF ThreadRecord
<1> HIDE DEF s
<1>10. Flow(s, fatal)
  <2>1. phase(s) = q.pc /\ phase(q) = q.pc
    BY <1>2, <1>9, <1>1 DEF phase, Progress
  <2>2. Located(s, q.pc)
    BY <1>1, <1>2, <1>9, <2>1 DEF Flow, Located
  <2>3. Counted(s)
    BY <1>2, <1>9 DEF Flow, Counted
  <2> QED BY <1>2, <1>9, <2>1, <2>2, <2>3 DEF Flow
<1>11. Move(t, s)
  BY <1>1, <1>8, <1>10 DEF Move
<1> QED BY <1>1, <1>4, <1>6, <1>8, <1>9, <1>11 DEF c, done, todo

LEMMA AcquireMoves ==
  ASSUME Shape, NEW t \in Thread, TrackerDone(t), at(t, "acquire")
  PROVE  /\ th[t].pc = "acquire" /\ Pushes(th[t]) /\ fatal' = fatal
         /\ \E s \in ThreadRecord : Move(t, s) /\ Same(th[t], s) /\ s.pc = "end"
<1>1. th[t].pc = "acquire" /\ becomes(t, [th[t] EXCEPT !.pc = "end"]) /\ fatal' = fatal
  BY DEF TrackerDone, at
<1>2. Pushes(th[t]) /\ th[t].pc \notin Progress
  BY <1>1, TrackerState
<1>3. Located(th[t], "end") /\ "end" \in Steps \ (Progress \cup {"error_found", "idle"})
  BY <1>2, PushLocated DEF Pushing
<1> QED BY <1>1, <1>2, <1>3, GotoMoves

LEMMA WriteCtrlMoves ==
  ASSUME Shape, NEW t \in Thread, WriteCtrl(t)
  PROVE  /\ th[t].pc = "write" /\ Pushes(th[t]) /\ th[t].op = "ctrl" /\ fatal' = fatal
         /\ \E s \in ThreadRecord : Move(t, s) /\ Same(th[t], s) /\ s.pc = "begin"
<1>1. th[t].pc = "write" /\ becomes(t, [th[t] EXCEPT !.pc = "begin"]) /\ fatal' = fatal
  BY DEF WriteCtrl, at, goto
<1>2. th[t] \in ThreadRecord /\ Flow(th[t], fatal) /\ phase(th[t]) = "write" /\ th[t].pc \notin Progress
  BY <1>1 DEF Shape, Threads, phase, Progress
<1>3. Pushes(th[t]) /\ th[t].op = "ctrl"
  BY <1>2 DEF Flow, Located, Pushes
<1>4. Located(th[t], "begin") /\ "begin" \in Steps \ (Progress \cup {"error_found", "idle"})
  BY <1>3, PushLocated DEF Pushing
<1> QED BY <1>1, <1>2, <1>3, <1>4, GotoMoves

LEMMA SuspendMoves ==
  ASSUME Shape, NEW t \in Thread, Suspend(t)
  PROVE  /\ th[t].pc = "suspend" /\ th[t].ch \in Channel /\ th[t].op = "suspend" /\ fatal' = fatal
         /\ \E s \in ThreadRecord : Move(t, s) /\ Same(th[t], s) /\ s.pc = "release"
<1>1. th[t].pc = "suspend" /\ becomes(t, [th[t] EXCEPT !.pc = "release"]) /\ fatal' = fatal
  BY DEF Suspend, at, goto
<1>2. th[t] \in ThreadRecord /\ Flow(th[t], fatal) /\ phase(th[t]) = "suspend" /\ th[t].pc \notin Progress
  BY <1>1 DEF Shape, Threads, phase, Progress
<1>3. th[t].ch \in Channel /\ th[t].op = "suspend"
  BY <1>2 DEF Flow, Located
<1>4. Located(th[t], "release") /\ "release" \in Steps \ (Progress \cup {"error_found", "idle"})
  BY <1>3 DEF Located, Pushing, Reserving, Waiting, Draining, Progress, Steps
<1> QED BY <1>1, <1>2, <1>3, <1>4, GotoMoves

LEMMA SuspendReleaseMoves ==
  ASSUME SuspendsSafely, Shape, NEW t \in Thread, SuspendRelease(t)
  PROVE  /\ th[t].pc = "release" /\ th[t].ch \in Channel /\ th[t].op = "suspend" /\ fatal' = fatal
         /\ suspended' = suspended
         /\ \E s \in ThreadRecord :
              /\ Move(t, s) /\ s.ch = 0 /\ s.pc \in {"claim", "idle"} /\ s.op \in {"suspend", "push"}
              /\ ~s.tracked /\ s.acquires = {} /\ (s.pc = "claim" => s.op = "suspend")
<1> DEFINE q == th[t]
           c == q.ch
<1>1. q.pc = "release" /\ fatal' = fatal
  BY DEF SuspendRelease, at
<1>2. q \in ThreadRecord /\ Flow(q, fatal) /\ fatal \in BOOLEAN /\ phase(q) = "release"
  BY <1>1 DEF Shape, Threads, Others, phase, Progress
<1>3. c \in Channel /\ q.op = "suspend" /\ "suspend" \in Operations
  BY <1>2 DEF Flow, Located
<1>4. q.ok
  BY <1>3, SuspendOk
<1>5. /\ suspended' = suspended
      /\ becomes(t, IF c # last_channel(pool_of(c))
                    THEN [idle EXCEPT !.pc = "claim", !.op = "suspend", !.up = c + 1] ELSE idle)
  BY <1>4 DEF SuspendRelease
<1>6. CASE c = last_channel(pool_of(c))
  <2>1. Move(t, idle)
    BY <1>5, <1>6, ReturnMoves
  <2> QED BY <1>1, <1>3, <1>5, <2>1, IdleRecord DEF idle
<1>7. CASE c # last_channel(pool_of(c))
  <2> DEFINE s == [idle EXCEPT !.pc = "claim", !.op = "suspend", !.up = c + 1]
  <2>1. c + 1 \in Channel /\ c + 1 \in 0 .. NumChannels
    BY <1>3, <1>7, NextChannel, Sizes
  <2>2. "claim" \in Steps \ (Progress \cup {"error_found", "idle"}) /\ "suspend" \in OpKinds
        /\ "claim" \notin Pushing /\ "claim" \notin Waiting /\ "claim" \notin Draining
    BY DEF Steps, Progress, Pushing, Waiting, Draining, OpKinds
  <2>3. s \in ThreadRecord
    BY <2>1, <2>2, IdleRecord DEF ThreadRecord
  <2>4. Fresh(s, "claim", "suspend", 0, c + 1) /\ s.ok /\ ~s.tracked
    BY IdleRecord DEF idle, Fresh, ThreadRecord
  <2>5. becomes(t, s)
    BY <1>5, <1>7
  <2> HIDE DEF s
  <2>6. Flow(s, fatal)
    BY <1>2, <1>3, <2>1, <2>2, <2>4, FreshFlow
  <2>7. Move(t, s)
    BY <1>1, <2>3, <2>5, <2>6 DEF Move
  <2> QED BY <1>1, <1>3, <1>5, <2>3, <2>4, <2>7 DEF Fresh
<1> QED BY <1>6, <1>7

(* The number of entries an operation reserves, and what it goes on with.  *)
LEMMA ClaimMoves ==
  ASSUME SuspendsSafely, Shape, NEW t \in Thread, Claim(t)
  PROVE  /\ th[t].pc \in {"claim", "claim_again"} /\ th[t].ch = 0 /\ th[t].up \in Channel
         /\ fatal' = fatal /\ num_entries(t) \in 1 .. NumEntries - 1
         /\ \E s \in ThreadRecord :
              /\ Move(t, s) /\ s.acquires = {} /\ (s.tracked => th[t].tracked)
              /\ \/ s = idle /\ fatal
                 \/ /\ s.ch = th[t].up /\ s.op = th[t].op
                    /\ \/ s.pc = "begin" /\ num_entries(t) = 1
                       \/ s.pc = "write" /\ num_entries(t) = 2 /\ s.op = "ctrl"
                       \/ s.pc = "suspend" /\ num_entries(t) = NumEntries - 1
<1> DEFINE q == th[t]
           c == q.up
           x == reserved(t)
           n == num_entries(t)
<1>1. /\ q.pc \in {"claim", "claim_again"} /\ fatal' = fatal
      /\ becomes(t, IF x = "idle" THEN idle
                    ELSE [idle EXCEPT !.pc = x, !.op = q.op, !.ch = c, !.tracked = q.tracked,
                                      !.ok = q.ok])
  BY DEF Claim
<1>2. q \in ThreadRecord /\ Flow(q, fatal) /\ fatal \in BOOLEAN /\ phase(q) = q.pc
  BY <1>1 DEF Shape, Threads, Others, phase, Progress
<1>3. /\ c \in Channel /\ q.ch = 0 /\ q.op \in {"push", "p2p", "ctrl", "suspend"}
      /\ q.op \in Operations \cup {"push"} /\ (~q.ok => fatal)
  BY <1>1, <1>2 DEF Flow, Located, Reserving
<1>4. NumEntries \in Nat /\ NumEntries > 2
  BY Sizes
<1>5. /\ q.op \in {"push", "p2p"} => x = "begin" /\ n = 1
      /\ q.op = "ctrl" => n = 2 /\ (x = "write" \/ (x = "idle" /\ fatal))
      /\ q.op = "suspend" => x = "suspend" /\ n = NumEntries - 1
  <2>1. q.op = "suspend" => q.ok
    BY SuspendOk
  <2> QED BY <1>3, <2>1 DEF reserved, num_entries
<1>6. n \in 1 .. NumEntries - 1
  BY <1>3, <1>4, <1>5
<1>7. CASE x = "idle"
  <2>1. becomes(t, idle) /\ fatal
    BY <1>1, <1>3, <1>5, <1>7
  <2>2. Move(t, idle)
    BY <2>1, ReturnMoves
  <2>3. idle.acquires = {} /\ ~idle.tracked
    BY DEF idle
  <2> QED BY <1>1, <1>3, <1>6, <2>1, <2>2, <2>3, IdleRecord
<1>8. CASE x # "idle"
  <2> DEFINE s == [idle EXCEPT !.pc = x, !.op = q.op, !.ch = c, !.tracked = q.tracked, !.ok = q.ok]
  <2>1. becomes(t, s)
    BY <1>1, <1>8
  <2>2. x \in {"begin", "write", "suspend"}
    BY <1>3, <1>5, <1>8
  <2>3. c \in 0 .. NumChannels /\ q.op \in OpKinds /\ q.tracked \in BOOLEAN /\ q.ok \in BOOLEAN
    BY <1>2, <1>3, Sizes DEF ThreadRecord
  <2> HIDE DEF x
  <2>4. x \in Steps \ (Progress \cup {"error_found", "idle"}) /\ x # "acquire"
        /\ x \notin Reserving /\ x \notin Waiting /\ x \notin Draining
    BY <2>2 DEF Steps, Progress, Reserving, Waiting, Draining
  <2> HIDE DEF q, c
  <2>5. s \in ThreadRecord
    BY <2>3, <2>4, IdleRecord DEF ThreadRecord
  <2>6. Fresh(s, x, q.op, c, 0) /\ s.ok = q.ok /\ s.tracked = q.tracked
    BY IdleRecord DEF idle, Fresh, ThreadRecord
  <2> HIDE DEF s
  <2>7. /\ x \in Pushing => c \in Channel /\ q.op \in {"push", "p2p", "ctrl"}
        /\ x = "write" => c \in Channel /\ q.op = "ctrl"
        /\ x \in {"suspend", "release"} => c \in Channel /\ q.op = "suspend"
    BY <1>3, <1>5, <2>2 DEF Pushing
  <2>8. Flow(s, fatal)
    BY <1>2, <1>3, <2>4, <2>6, <2>7, FreshFlow
  <2>9. Move(t, s)
    BY <1>1, <2>1, <2>5, <2>8 DEF Move
  <2>10. s.pc = x /\ s.ch = c /\ s.op = q.op /\ s.acquires = {}
    BY <2>6 DEF Fresh
  <2>11. \/ s.pc = "begin" /\ n = 1
         \/ s.pc = "write" /\ n = 2 /\ s.op = "ctrl"
         \/ s.pc = "suspend" /\ n = NumEntries - 1
    BY <1>3, <1>5, <2>2, <2>10
  <2> QED BY <1>1, <1>3, <1>6, <2>5, <2>6, <2>9, <2>10, <2>11 DEF q, c
<1> QED BY <1>7, <1>8

-----------------------------------------------------------------------------
(* The tracking semaphore.                                                 *)

LEMMA ExtendType ==
  ASSUME NEW old \in Nat, NEW p \in Nat
  PROVE  extend(old, p) \in Nat
<1>1. SemMod \in Nat \ {0} /\ SemMod \in Nat
  BY Sizes
<1>2. old % SemMod \in Nat /\ old % SemMod <= old
  BY <1>1, RemainderBelow
<1> DEFINE m == old % SemMod
<1> HIDE DEF m
<1>3. (old - m) + p + (IF p < m THEN SemMod ELSE 0) \in Nat
  BY <1>1, <1>2 DEF m
<1> QED BY <1>3 DEF extend, m

(* The extended payload is the released value, as long as the known value  *)
(* is less than a wrap around behind.                                      *)
LEMMA ExtendExact ==
  ASSUME NEW old \in Nat, NEW r \in Nat, old <= r, r - old < SemMod
  PROVE  extend(old, r % SemMod) = r
<1> DEFINE b == SemMod
           q == old \div b
           m == old % b
           p == r \div b
           n == r % b
<1>1. b \in Nat \ {0}
  BY Sizes
<1>2. old = b * q + m /\ m \in 0 .. b - 1 /\ q \in Int
  BY <1>1, Division
<1>3. r = b * p + n /\ n \in 0 .. b - 1 /\ p \in Int
  BY <1>1, Division
<1> HIDE DEF b, q, m, p, n
<1> DEFINE d == p - q
<1>4. d \in Int /\ b * p = b * q + b * d
  BY <1>1, <1>2, <1>3
<1>5. r - old = b * d + n - m /\ 0 <= r - old /\ r - old < b
  BY <1>1, <1>2, <1>3, <1>4 DEF b
<1> HIDE DEF d
<1>6. d < 2
  <2>1. d >= 2 => b * d >= b * 2
    BY <1>1, <1>4
  <2> QED BY <1>1, <1>2, <1>3, <1>4, <1>5, <2>1
<1>7. d > -1
  <2>1. d <= -1 => b * d <= b * (-1)
    BY <1>1, <1>4
  <2> QED BY <1>1, <1>2, <1>3, <1>4, <1>5, <2>1
<1>8. d \in {0, 1}
  BY <1>4, <1>6, <1>7
<1>9. (old - m) + n + (IF n < m THEN b ELSE 0) = r
  <2>1. CASE d = 0
    <3>1. b * d = 0
      BY <1>1, <2>1
    <3> QED BY <1>1, <1>2, <1>3, <1>5, <3>1
  <2>2. CASE d = 1
    <3>1. b * d = b
      BY <1>1, <2>2
    <3> QED BY <1>1, <1>2, <1>3, <1>5, <3>1
  <2> QED BY <1>8, <2>1, <2>2
<1> QED BY <1>9 DEF extend, b, m, n

(* The payload is a natural number.                                        *)
LEMMA CompletedType ==
  ASSUME Shape, NEW c \in Channel
  PROVE  /\ extend(completed[c], payload(c)) \in Nat
         /\ update_completed(c) \in [Channel -> Nat]
         /\ update_completed(c)[c] = extend(completed[c], payload(c))
         /\ \A d \in Channel \ {c} : update_completed(c)[d] = completed[d]
<1>1. completed \in [Channel -> Nat] /\ released[c] \in Nat /\ SemMod \in Nat \ {0}
  BY Sizes DEF Shape, Semaphores
<1>2. payload(c) \in Nat
  BY <1>1, RemainderBelow DEF payload
<1>3. extend(completed[c], payload(c)) \in Nat
  BY <1>1, <1>2, ExtendType
<1> QED BY <1>1, <1>3 DEF update_completed

LEMMA UpdateValueMoves ==
  ASSUME Shape, NEW t \in Thread, UpdateValue(t)
  PROVE  /\ th[t].pc = "value" /\ th[t].up \in Channel /\ fatal' = fatal
         /\ completed' = update_completed(th[t].up)
         /\ \E s \in ThreadRecord :
              /\ Move(t, s) /\ Same(th[t], s) /\ s.pc = "complete" /\ s.up = th[t].up
              /\ s.value = completed'[th[t].up]
<1> DEFINE q == th[t]
           v == completed'[q.up]
           s == [q EXCEPT !.value = v, !.pc = "complete"]
<1>1. q.pc = "value" /\ fatal' = fatal /\ completed' = update_completed(q.up) /\ becomes(t, s)
  BY DEF UpdateValue, at
<1>2. q \in ThreadRecord /\ Flow(q, fatal) /\ fatal \in BOOLEAN
  BY DEF Shape, Threads, Others
<1>3. q.up \in Channel
  BY <1>1, <1>2 DEF Flow, Counted, Progress
<1>4. v \in Nat
  BY <1>1, <1>3, CompletedType
<1> HIDE DEF v
<1>5. s \in ThreadRecord
  <2>1. [q EXCEPT !.value = v] \in ThreadRecord
    BY <1>2, <1>4, ThreadUpdate
  <2>2. "complete" \in Steps
    BY DEF Steps
  <2>3. [[q EXCEPT !.value = v] EXCEPT !.pc = "complete"] \in ThreadRecord
    BY <2>1, <2>2, ThreadUpdate, Zenon
  <2>4. s = [[q EXCEPT !.value = v] EXCEPT !.pc = "complete"]
    OBVIOUS
  <2> QED BY <2>3, <2>4, Zenon
<1>6. /\ s.pc = "complete" /\ s.op = q.op /\ s.ch = q.ch /\ s.up = q.up /\ s.loc = q.loc
      /\ s.ret = q.ret /\ s.tracked = q.tracked /\ s.value = v /\ s.ok = q.ok
      /\ s.acquires = q.acquires /\ s.max = q.max /\ s.done = q.done /\ s.k = q.k
  BY <1>2 DEF ThreadRecord
<1> HIDE DEF s
<1>7. Flow(s, fatal)
  <2>1. phase(s) = phase(q) /\ phase(q) # "idle"
    BY <1>1, <1>2, <1>6 DEF phase, Progress, Flow, Counted, Errors
  <2>2. Located(s, phase(q))
    BY <1>2, <1>6, <2>1 DEF Flow, Located
  <2>3. Counted(s)
    BY <1>1, <1>2, <1>6 DEF Flow, Counted, Progress
  <2> QED BY <1>2, <1>6, <2>1, <2>2, <2>3 DEF Flow
<1>8. Move(t, s) /\ Same(q, s)
  BY <1>1, <1>5, <1>6, <1>7 DEF Move, Same
<1> QED BY <1>1, <1>3, <1>5, <1>6, <1>8 DEF v

LEMMA CompleteMoves ==
  ASSUME Shape, NEW t \in Thread, Complete(t)
  PROVE  /\ th[t].pc = "complete" /\ th[t].up \in Channel /\ fatal' = fatal
         /\ retires(t)
         /\ \E s \in ThreadRecord :
              /\ Move(t, s) /\ Same(th[t], s) /\ s.pc = "complete" /\ s.up = th[t].up
              /\ s.value = th[t].value
<1> DEFINE q == th[t]
           n == q.done + 1
           s == [q EXCEPT !.done = n]
<1>1. q.pc = "complete" /\ fatal' = fatal /\ becomes(t, s) /\ retires(t)
  BY DEF Complete, at
<1>2. q \in ThreadRecord /\ Flow(q, fatal) /\ fatal \in BOOLEAN
  BY DEF Shape, Threads, Others
<1>3. q.up \in Channel /\ q.max <= NumEntries
  BY <1>1, <1>2 DEF Flow, Counted, Progress
<1>4. n \in Nat /\ n <= q.max
  BY <1>1, <1>2 DEF ThreadRecord, retires
<1> HIDE DEF n
<1>5. s \in ThreadRecord
  BY <1>2, <1>4, ThreadUpdate
<1>6. /\ s.pc = q.pc /\ s.op = q.op /\ s.ch = q.ch /\ s.up = q.up /\ s.loc = q.loc
      /\ s.ret = q.ret /\ s.tracked = q.tracked /\ s.value = q.value /\ s.ok = q.ok
      /\ s.acquires = q.acquires /\ s.max = q.max /\ s.done = n /\ s.k = q.k
  BY <1>2 DEF ThreadRecord
<1> HIDE DEF s
<1>7. Flow(s, fatal)
  <2>1. phase(s) = phase(q) /\ phase(q) # "idle"
    BY <1>1, <1>2, <1>6 DEF phase, Progress, Flow, Counted, Errors
  <2>2. Located(s, phase(q))
    BY <1>2, <1>6, <2>1 DEF Flow, Located
  <2>3. Counted(s)
    BY <1>1, <1>2, <1>3, <1>4, <1>6 DEF Flow, Counted, Progress
  <2> QED BY <1>2, <1>6, <2>1, <2>2, <2>3 DEF Flow
<1>8. Move(t, s) /\ Same(q, s)
  BY <1>1, <1>5, <1>6, <1>7 DEF Move, Same
<1> QED BY <1>1, <1>3, <1>5, <1>6, <1>8

-----------------------------------------------------------------------------
(* The ring of a channel.                                                  *)

(* How far an index is ahead of another, and the index behind an index.    *)
Ahead(g, i) == IF g <= i THEN i - g ELSE i - g + NumEntries

Following(i) == IF i = NumEntries - 1 THEN 0 ELSE i + 1

LEMMA Modulo ==
  /\ \A i \in Index : (i + 1) % NumEntries = Following(i)
  /\ \A g, i \in Index : (i - g) % NumEntries = Ahead(g, i)
<1>0. NumEntries \in Nat \ {0} /\ NumEntries \in Nat /\ NumEntries > 2
  BY Sizes
<1>1. ASSUME NEW i \in Index
      PROVE  (i + 1) % NumEntries = Following(i)
  <2>1. CASE i = NumEntries - 1
    <3>1. i + 1 = NumEntries * 1 + 0 /\ 0 \in 0 .. NumEntries - 1 /\ i + 1 \in Int
      BY <1>0, <2>1
    <3>2. (i + 1) % NumEntries = 0
      BY <1>0, <3>1, Remainder
    <3> QED BY <2>1, <3>2 DEF Following
  <2>2. CASE i # NumEntries - 1
    <3>1. i + 1 \in 0 .. NumEntries - 1
      BY <1>0, <2>2 DEF Index
    <3>2. (i + 1) % NumEntries = i + 1
      BY <1>0, <3>1, SmallRemainder
    <3> QED BY <2>2, <3>2 DEF Following
  <2> QED BY <2>1, <2>2
<1>2. ASSUME NEW g \in Index, NEW i \in Index
      PROVE  (i - g) % NumEntries = Ahead(g, i)
  <2>1. CASE g <= i
    <3>1. i - g \in 0 .. NumEntries - 1
      BY <1>0, <2>1 DEF Index
    <3>2. (i - g) % NumEntries = i - g
      BY <1>0, <3>1, SmallRemainder
    <3> QED BY <2>1, <3>2 DEF Ahead
  <2>2. CASE ~(g <= i)
    <3>1. /\ i - g \in Int /\ i - g + NumEntries \in 0 .. NumEntries - 1
          /\ i - g = NumEntries * (-1) + (i - g + NumEntries)
      BY <1>0, <2>2 DEF Index
    <3>2. (i - g) % NumEntries = i - g + NumEntries
      BY <1>0, <3>1, Remainder
    <3> QED BY <2>2, <3>2 DEF Ahead
  <2> QED BY <2>1, <2>2
<1> QED BY <1>1, <1>2

LEMMA AheadFacts ==
  ASSUME NEW g \in Index
  PROVE  /\ Ahead(g, g) = 0 /\ Following(g) \in Index
         /\ \A i \in Index : Ahead(g, i) \in 0 .. NumEntries - 1
         /\ \A i \in Index : Ahead(g, i) = 0 => i = g
         /\ \A i, j \in Index : Ahead(g, i) = Ahead(g, j) => i = j
         /\ \A i \in Index : Following(i) \in Index
         /\ \A i \in Index : Ahead(g, i) < NumEntries - 1 => Ahead(g, Following(i)) = Ahead(g, i) + 1
         /\ \A i \in Index : i # g => Ahead(Following(g), i) = Ahead(g, i) - 1
         /\ Ahead(Following(g), g) = NumEntries - 1
<1>0. NumEntries \in Nat /\ NumEntries > 2
  BY Sizes
<1> QED BY <1>0 DEF Ahead, Following, Index

(* e are the entries of a channel, of which those from get to put are      *)
(* pending, q is the value of the last push.  The value of the entry at i; *)
(* at put, the value the next push will have.                              *)
value_at(e, put, q, i) == IF i = put THEN q + 1 ELSE e[i].value

(* The pending entries are pushes and control entries, the others empty;   *)
Filled(e, put, get) ==
  \A i \in Index :
    /\ Ahead(get, i) < Ahead(get, put) => e[i].type \in {"NORMAL", "CONTROL"}
    /\ Ahead(get, i) >= Ahead(get, put) => e[i] = no_entry

(* a push takes a value of its own, a control entry that of the push that  *)
(* comes next;                                                             *)
Stepping(e, put, get, q) ==
  \A i \in Index : Ahead(get, i) < Ahead(get, put) =>
    value_at(e, put, q, Following(i))
      = value_at(e, put, q, i) + (IF e[i].type = "NORMAL" THEN 1 ELSE 0)

(* so that values grow along the ring, by at most one for each entry.      *)
Growing(e, put, get, q) ==
  \A i, j \in Index :
    Ahead(get, i) <= Ahead(get, j) /\ Ahead(get, j) <= Ahead(get, put) =>
      /\ value_at(e, put, q, i) <= value_at(e, put, q, j)
      /\ value_at(e, put, q, j) <= value_at(e, put, q, i) + Ahead(get, j) - Ahead(get, i)

(* The GPU executes a pending entry, if any; it has released the value of  *)
(* the last push before it.  Every value before the first pending entry    *)
(* is known to be completed.                                               *)
Executing(e, put, get, exec, q, cm, rl) ==
  /\ Ahead(get, exec) <= Ahead(get, put)
  /\ rl = value_at(e, put, q, exec) - 1
  /\ value_at(e, put, q, get) <= cm + 1
  /\ cm <= rl

RingOf(e, put, get, exec, q, cm, rl) ==
  /\ Filled(e, put, get)
  /\ Stepping(e, put, get, q)
  /\ Growing(e, put, get, q)
  /\ Executing(e, put, get, exec, q, cm, rl)

IsRing(e, put, get, exec, q, cm, rl) ==
  /\ e \in [Index -> Entry] /\ put \in Index /\ get \in Index /\ exec \in Index
  /\ q \in Nat /\ cm \in Nat /\ rl \in Nat

(* An entry that is submitted takes the place at put.                      *)
LEMMA RingAppend ==
  ASSUME NEW e, NEW put, NEW get, NEW exec, NEW q, NEW cm, NEW rl,
         IsRing(e, put, get, exec, q, cm, rl), RingOf(e, put, get, exec, q, cm, rl),
         Ahead(get, put) < NumEntries - 1,
         NEW x \in Entry, x.type \in {"NORMAL", "CONTROL"}, x.value = q + 1
  PROVE  RingOf([e EXCEPT ![put] = x], Following(put), get, exec,
                IF x.type = "NORMAL" THEN q + 1 ELSE q, cm, rl)
<1> DEFINE f == [e EXCEPT ![put] = x]
           new == Following(put)
           n == IF x.type = "NORMAL" THEN q + 1 ELSE q
           p == Ahead(get, put)
<1> USE DEF IsRing
<1>0. NumEntries \in Nat /\ NumEntries > 2
  BY Sizes
<1>1. /\ new \in Index /\ p \in 0 .. NumEntries - 2 /\ Ahead(get, new) = p + 1 /\ n \in Nat
      /\ \A i \in Index : Ahead(get, i) \in 0 .. NumEntries - 1
      /\ \A i, j \in Index : Ahead(get, i) = Ahead(get, j) => i = j
      /\ \A i \in Index : Ahead(get, i) < NumEntries - 1 => Ahead(get, Following(i)) = Ahead(get, i) + 1
      /\ \A i \in Index : Following(i) \in Index
      /\ Ahead(get, get) = 0
  BY <1>0, AheadFacts
<1>2. f[put] = x /\ \A i \in Index \ {put} : f[i] = e[i]
  OBVIOUS
<1>3. /\ \A i \in Index : Ahead(get, i) <= p => value_at(f, new, n, i) = value_at(e, put, q, i)
      /\ value_at(f, new, n, new) = n + 1 /\ value_at(e, put, q, put) = q + 1
  <2>1. ASSUME NEW i \in Index, Ahead(get, i) <= p
        PROVE  value_at(f, new, n, i) = value_at(e, put, q, i)
    <3>1. i # new
      BY <1>1, <2>1
    <3> QED BY <1>2, <3>1 DEF value_at
  <2> QED BY <2>1 DEF value_at
<1>4. \A i \in Index : value_at(e, put, q, i) \in Nat
  BY DEF value_at, Entry
<1>5. \A i \in Index : Ahead(get, i) < p + 1 => Ahead(get, i) <= p
  BY <1>1
<1> DEFINE v(i) == value_at(e, put, q, i)
           w(i) == value_at(f, new, n, i)
           a(i) == Ahead(get, i)
<1> HIDE DEF f, new, n, p
<1>6. Filled(f, new, get)
  <2>1. ASSUME NEW i \in Index
        PROVE  /\ a(i) < p + 1 => f[i].type \in {"NORMAL", "CONTROL"}
               /\ a(i) >= p + 1 => f[i] = no_entry
    <3>1. CASE i = put
      BY <1>1, <1>2, <3>1 DEF p
    <3>2. CASE i # put
      <4>1. a(i) # p /\ f[i] = e[i] /\ a(i) \in Nat
        BY <1>1, <1>2, <3>2 DEF p
      <4>2. /\ a(i) < p => e[i].type \in {"NORMAL", "CONTROL"}
            /\ a(i) >= p => e[i] = no_entry
        BY DEF RingOf, Filled, p
      <4> QED BY <1>1, <4>1, <4>2
    <3> QED BY <3>1, <3>2
  <2> QED BY <1>1, <2>1 DEF Filled
<1>7. n + 1 = (q + 1) + (IF x.type = "NORMAL" THEN 1 ELSE 0)
  BY DEF n
<1>8. Stepping(f, new, get, n)
  <2>1. ASSUME NEW i \in Index, a(i) < p + 1
        PROVE  w(Following(i)) = w(i) + (IF f[i].type = "NORMAL" THEN 1 ELSE 0)
    <3>1. CASE i = put
      BY <1>1, <1>2, <1>3, <1>7, <3>1 DEF new, p
    <3>2. CASE i # put
      <4>1. a(i) # p /\ f[i] = e[i] /\ a(i) \in Nat
        BY <1>1, <1>2, <3>2 DEF p
      <4>2. a(i) < p
        BY <1>1, <2>1, <4>1
      <4>3. a(Following(i)) <= p /\ Following(i) \in Index
        BY <1>0, <1>1, <4>2
      <4>4. w(i) = v(i) /\ w(Following(i)) = v(Following(i))
        BY <1>1, <1>3, <4>1, <4>2, <4>3
      <4>5. v(Following(i)) = v(i) + (IF e[i].type = "NORMAL" THEN 1 ELSE 0)
        BY <4>2 DEF RingOf, Stepping, p
      <4> QED BY <4>1, <4>4, <4>5
    <3> QED BY <3>1, <3>2
  <2> QED BY <1>1, <2>1 DEF Stepping
<1>9. \A i, j \in Index : a(i) <= a(j) /\ a(j) <= p => v(i) <= v(j) /\ v(j) <= v(i) + a(j) - a(i)
  BY DEF RingOf, Growing, p
<1>10. Growing(f, new, get, n)
  <2>1. ASSUME NEW i \in Index, NEW j \in Index, a(i) <= a(j), a(j) <= p + 1
        PROVE  w(i) <= w(j) /\ w(j) <= w(i) + a(j) - a(i)
    <3>1. CASE a(j) <= p
      <4>1. a(i) <= p
        BY <1>1, <2>1, <3>1
      <4> QED BY <1>3, <1>9, <2>1, <3>1, <4>1
    <3>2. CASE a(j) > p
      <4>1. a(j) = p + 1 /\ j = new /\ w(j) = n + 1
        BY <1>1, <1>3, <2>1, <3>2
      <4>2. n \in {q, q + 1}
        BY DEF n
      <4>3. CASE a(i) <= p
        <5>0. a(put) = p /\ p <= p /\ put \in Index
          BY <1>1 DEF p
        <5>1. v(i) <= q + 1 /\ q + 1 <= v(i) + p - a(i) /\ w(i) = v(i)
          BY <1>3, <1>9, <4>3, <5>0
        <5>2. v(i) \in Nat /\ a(i) \in Nat /\ p \in Nat
          BY <1>1, <1>4
        <5> QED BY <4>1, <4>2, <5>1, <5>2
      <4>4. CASE ~(a(i) <= p)
        <5>1. a(i) = p + 1
          BY <1>1, <2>1, <4>1, <4>4
        <5>2. i = j
          BY <1>1, <4>1, <5>1
        <5>3. w(j) \in Nat /\ a(j) \in Nat
          BY <1>1, <4>1
        <5> QED BY <5>2, <5>3
      <4> QED BY <4>3, <4>4
    <3> QED BY <1>1, <3>1, <3>2
  <2> QED BY <1>1, <2>1 DEF Growing
<1>11. Executing(f, new, get, exec, n, cm, rl)
  <2>1. a(exec) <= p /\ rl = v(exec) - 1 /\ v(get) <= cm + 1 /\ cm <= rl
    BY DEF RingOf, Executing, p
  <2>2. w(exec) = v(exec) /\ w(get) = v(get)
    BY <1>1, <1>3, <2>1
  <2> QED BY <1>1, <2>1, <2>2 DEF Executing
<1> QED BY <1>6, <1>8, <1>10, <1>11 DEF RingOf, f, new, n

(* An entry that has completed is retired from the place at get.           *)
LEMMA RingRetire ==
  ASSUME NEW e, NEW put, NEW get, NEW exec, NEW q, NEW cm, NEW rl,
         IsRing(e, put, get, exec, q, cm, rl), RingOf(e, put, get, exec, q, cm, rl),
         get # put, e[get].value <= cm
  PROVE  RingOf([e EXCEPT ![get] = no_entry], put, Following(get), exec, q, cm, rl)
<1> DEFINE f == [e EXCEPT ![get] = no_entry]
           new == Following(get)
           p == Ahead(get, put)
           v(i) == value_at(e, put, q, i)
           w(i) == value_at(f, put, q, i)
           a(i) == Ahead(get, i)
           b(i) == Ahead(new, i)
<1> USE DEF IsRing
<1>0. NumEntries \in Nat /\ NumEntries > 2
  BY Sizes
<1>1. /\ new \in Index /\ p \in 0 .. NumEntries - 1 /\ p # 0
      /\ \A i \in Index : a(i) \in 0 .. NumEntries - 1
      /\ \A i \in Index : Following(i) \in Index
      /\ \A i \in Index : a(i) < NumEntries - 1 => a(Following(i)) = a(i) + 1
      /\ a(get) = 0
      /\ \A i \in Index : i # get => b(i) = a(i) - 1
      /\ b(get) = NumEntries - 1 /\ b(put) = p - 1
  BY <1>0, AheadFacts
<1>2. /\ \A i \in Index \ {get} : f[i] = e[i] /\ w(i) = v(i)
      /\ f[get] = no_entry
      /\ v(get) = e[get].value
      /\ \A i \in Index : v(i) \in Nat
  BY DEF value_at, Entry
<1>3. a(exec) <= p /\ rl = v(exec) - 1 /\ v(get) <= cm + 1 /\ cm <= rl
  BY DEF RingOf, Executing
<1>4. exec # get
  BY <1>2, <1>3
<1>5. \A i \in Index : b(i) <= p - 1 => i # get /\ b(i) = a(i) - 1 /\ a(i) <= p
  BY <1>0, <1>1
<1> HIDE DEF f, new, p
<1>6. Filled(f, put, new)
  <2>1. ASSUME NEW i \in Index
        PROVE  /\ b(i) < p - 1 => f[i].type \in {"NORMAL", "CONTROL"}
               /\ b(i) >= p - 1 => f[i] = no_entry
    <3>1. CASE i = get
      BY <1>0, <1>1, <1>2, <3>1
    <3>2. CASE i # get
      <4>1. b(i) = a(i) - 1 /\ f[i] = e[i] /\ a(i) \in Nat
        BY <1>1, <1>2, <3>2
      <4>2. /\ a(i) < p => e[i].type \in {"NORMAL", "CONTROL"}
            /\ a(i) >= p => e[i] = no_entry
        BY DEF RingOf, Filled, p
      <4> QED BY <1>1, <4>1, <4>2
    <3> QED BY <3>1, <3>2
  <2> QED BY <1>1, <2>1 DEF Filled
<1>7. Stepping(f, put, new, q)
  <2>1. ASSUME NEW i \in Index, b(i) < p - 1
        PROVE  w(Following(i)) = w(i) + (IF f[i].type = "NORMAL" THEN 1 ELSE 0)
    <3>1. i # get /\ b(i) = a(i) - 1 /\ a(i) < p
      BY <1>0, <1>1, <2>1
    <3>2. a(Following(i)) = a(i) + 1 /\ Following(i) \in Index
      BY <1>0, <1>1, <3>1
    <3>3. Following(i) # get
      BY <1>1, <3>2
    <3>4. w(i) = v(i) /\ w(Following(i)) = v(Following(i)) /\ f[i] = e[i]
      BY <1>2, <3>1, <3>2, <3>3
    <3>5. v(Following(i)) = v(i) + (IF e[i].type = "NORMAL" THEN 1 ELSE 0)
      BY <3>1 DEF RingOf, Stepping, p
    <3> QED BY <3>4, <3>5
  <2> QED BY <1>1, <2>1 DEF Stepping
<1>8. \A i, j \in Index : a(i) <= a(j) /\ a(j) <= p => v(i) <= v(j) /\ v(j) <= v(i) + a(j) - a(i)
  BY DEF RingOf, Growing, p
<1>9. Growing(f, put, new, q)
  <2>1. ASSUME NEW i \in Index, NEW j \in Index, b(i) <= b(j), b(j) <= p - 1
        PROVE  w(i) <= w(j) /\ w(j) <= w(i) + b(j) - b(i)
    <3>1. j # get /\ b(j) = a(j) - 1 /\ a(j) <= p
      BY <1>5, <2>1
    <3>2. i # get /\ b(i) = a(i) - 1
      BY <1>0, <1>1, <2>1, <3>1
    <3>3. a(i) <= a(j)
      BY <1>1, <2>1, <3>1, <3>2
    <3>4. v(i) <= v(j) /\ v(j) <= v(i) + a(j) - a(i)
      BY <1>8, <3>1, <3>3
    <3>5. w(i) = v(i) /\ w(j) = v(j) /\ v(i) \in Nat /\ v(j) \in Nat
      BY <1>2, <3>1, <3>2
    <3>6. a(i) \in Nat /\ a(j) \in Nat
      BY <1>1
    <3> HIDE DEF a, b, v, w
    <3> QED BY <3>1, <3>2, <3>4, <3>5, <3>6
  <2> QED BY <1>1, <2>1 DEF Growing
<1>10. Executing(f, put, new, exec, q, cm, rl)
  <2>1. b(exec) <= b(put)
    BY <1>1, <1>3, <1>4
  <2>2. rl = w(exec) - 1
    BY <1>2, <1>3, <1>4
  <2>3. a(new) = 1 /\ new # get
    BY <1>0, <1>1 DEF new
  <2>4. v(new) <= v(get) + 1
    <3>1. v(new) <= v(get) + a(new) - a(get)
      BY <1>1, <1>8, <2>3
    <3> QED BY <1>1, <1>2, <2>3, <3>1
  <2>5. w(new) <= cm + 1
    BY <1>1, <1>2, <2>3, <2>4
  <2> QED BY <1>3, <2>1, <2>2, <2>5 DEF Executing
<1> QED BY <1>6, <1>7, <1>9, <1>10 DEF RingOf, f, new

(* The GPU executes the next entry.                                        *)
LEMMA RingExecute ==
  ASSUME NEW e, NEW put, NEW get, NEW exec, NEW q, NEW cm, NEW rl,
         IsRing(e, put, get, exec, q, cm, rl), RingOf(e, put, get, exec, q, cm, rl), exec # put
  PROVE  RingOf(e, put, get, Following(exec), q, cm,
                IF e[exec].type = "NORMAL" THEN e[exec].value ELSE rl)
<1> DEFINE v(i) == value_at(e, put, q, i)
           a(i) == Ahead(get, i)
           new == Following(exec)
           r == IF e[exec].type = "NORMAL" THEN e[exec].value ELSE rl
<1> USE DEF IsRing
<1>0. NumEntries \in Nat /\ NumEntries > 2
  BY Sizes
<1>1. a(exec) <= a(put) /\ rl = v(exec) - 1 /\ v(get) <= cm + 1 /\ cm <= rl
  BY DEF RingOf, Executing
<1>2. /\ \A i \in Index : a(i) \in 0 .. NumEntries - 1
      /\ \A i, j \in Index : a(i) = a(j) => i = j
      /\ \A i \in Index : a(i) < NumEntries - 1 => a(Following(i)) = a(i) + 1
      /\ new \in Index
  BY AheadFacts
<1>3. a(exec) < a(put)
  BY <1>0, <1>1, <1>2
<1>4. a(new) = a(exec) + 1
  BY <1>0, <1>2, <1>3
<1>5. v(new) = v(exec) + (IF e[exec].type = "NORMAL" THEN 1 ELSE 0)
  BY <1>3 DEF RingOf, Stepping
<1>6. v(exec) = e[exec].value /\ v(exec) \in Nat
  BY DEF value_at, Entry
<1>7. Executing(e, put, get, new, q, cm, r)
  <2>1. a(new) <= a(put)
    BY <1>2, <1>3, <1>4
  <2>2. r = v(new) - 1 /\ cm <= r
    BY <1>1, <1>5, <1>6
  <2> QED BY <1>1, <2>1, <2>2 DEF Executing
<1> QED BY <1>7 DEF RingOf

(* A later completed value is known.                                       *)
LEMMA RingCompleted ==
  ASSUME NEW e, NEW put, NEW get, NEW exec, NEW q, NEW cm, NEW rl, NEW n \in Nat,
         IsRing(e, put, get, exec, q, cm, rl), RingOf(e, put, get, exec, q, cm, rl),
         cm <= n, n <= rl
  PROVE  RingOf(e, put, get, exec, q, n, rl)
<1>1. value_at(e, put, q, get) \in Nat
  BY DEF IsRing, value_at, Entry
<1>2. Executing(e, put, get, exec, q, n, rl)
  BY <1>1 DEF RingOf, Executing, IsRing
<1> QED BY <1>2 DEF RingOf

(* What the ring says about the semaphore.                                 *)
LEMMA RingSemaphore ==
  ASSUME NEW e, NEW put, NEW get, NEW exec, NEW q, NEW cm, NEW rl,
         IsRing(e, put, get, exec, q, cm, rl), RingOf(e, put, get, exec, q, cm, rl)
  PROVE  cm <= rl /\ rl <= q /\ q - cm < NumEntries
<1> DEFINE v(i) == value_at(e, put, q, i)
           a(i) == Ahead(get, i)
<1> USE DEF IsRing
<1>0. NumEntries \in Nat /\ NumEntries > 2
  BY Sizes
<1>1. a(exec) <= a(put) /\ rl = v(exec) - 1 /\ v(get) <= cm + 1 /\ cm <= rl
  BY DEF RingOf, Executing
<1>2. a(get) = 0 /\ a(put) \in 0 .. NumEntries - 1 /\ a(exec) \in Nat
  BY AheadFacts
<1>3. \A i, j \in Index : a(i) <= a(j) /\ a(j) <= a(put) => v(i) <= v(j) /\ v(j) <= v(i) + a(j) - a(i)
  BY DEF RingOf, Growing
<1>4. v(put) = q + 1 /\ v(exec) \in Nat /\ v(get) \in Nat
  BY DEF value_at, Entry
<1> HIDE DEF v, a
<1>5. v(exec) <= v(put)
  BY <1>1, <1>2, <1>3
<1>6. v(put) <= v(get) + a(put) - a(get)
  BY <1>2, <1>3
<1> QED BY <1>0, <1>1, <1>2, <1>4, <1>5, <1>6

-----------------------------------------------------------------------------
(* The entries threads hold.                                               *)

(* One element for each entry, when h says how many each thread has.       *)
Tokens(h) == {x \in Thread \X (1 .. NumEntries) : x[2] <= h[x[1]]}

TokensOfOthers(h, t) == {x \in Tokens(h) : x[1] # t}

(* A thread's entries are counted once.                                    *)
LEMMA TokenCount ==
  ASSUME NEW h \in [Thread -> 0 .. NumEntries], NEW t \in Thread
  PROVE  /\ IsFiniteSet(Tokens(h)) /\ Cardinality(Tokens(h)) \in Nat
         /\ Cardinality(TokensOfOthers(h, t)) \in Nat
         /\ Cardinality(Tokens(h)) = h[t] + Cardinality(TokensOfOthers(h, t))
<1> DEFINE n == h[t]
           own == {<<t, i>> : i \in 1 .. n}
           rest == TokensOfOthers(h, t)
           f == [i \in 1 .. n |-> <<t, i>>]
<1>0. NumEntries \in Nat /\ n \in 0 .. NumEntries
  BY Sizes
<1>1. IsFiniteSet(Thread) /\ IsFiniteSet(1 .. NumEntries)
  BY <1>0, FS_Interval, ChannelAssumption
<1>2. IsFiniteSet(Thread \X (1 .. NumEntries))
  BY <1>1, FS_Product
<1>3. IsFiniteSet(Tokens(h))
  BY <1>2, FS_Subset DEF Tokens
<1>4. IsFiniteSet(rest)
  BY <1>3, FS_Subset DEF TokensOfOthers
<1>5. IsFiniteSet(1 .. n) /\ Cardinality(1 .. n) = n
  BY <1>0, FS_Interval
<1>6. f \in Bijection(1 .. n, own)
  <2>1. f \in [1 .. n -> own]
    OBVIOUS
  <2>2. \A i, j \in 1 .. n : f[i] = f[j] => i = j
    OBVIOUS
  <2>3. \A y \in own : \E i \in 1 .. n : f[i] = y
    OBVIOUS
  <2> QED BY <2>1, <2>2, <2>3 DEF Bijection, Injection, Surjection, IsInjective
<1>7. IsFiniteSet(own) /\ Cardinality(own) = n
  BY <1>5, <1>6, FS_Bijection DEF ExistsBijection
<1>8. Tokens(h) = own \cup rest
  <2>1. ASSUME NEW i \in 1 .. n
        PROVE  <<t, i>> \in Tokens(h)
    BY <1>0 DEF Tokens
  <2>2. ASSUME NEW x \in Tokens(h), x[1] = t
        PROVE  x \in own
    <3>1. x = <<t, x[2]>> /\ x[2] \in 1 .. NumEntries /\ x[2] <= n
      BY <2>2 DEF Tokens
    <3>2. x[2] \in 1 .. n
      BY <1>0, <3>1
    <3> QED BY <3>1, <3>2
  <2> QED BY <2>1, <2>2 DEF TokensOfOthers
<1>9. own \cap rest = {}
  BY DEF TokensOfOthers
<1>10. Cardinality(Tokens(h)) = n + Cardinality(rest) - Cardinality({})
  BY <1>4, <1>7, <1>8, <1>9, FS_Union
<1>11. Cardinality(rest) \in Nat /\ Cardinality(Tokens(h)) \in Nat /\ Cardinality({}) = 0
  BY <1>3, <1>4, FS_CardinalityType, FS_EmptySet
<1> HIDE DEF n, own, rest
<1> QED BY <1>0, <1>3, <1>10, <1>11 DEF n, rest

(* The entries of channel c that the thread of record r has.               *)
share(r, c) ==
  IF r.ch # c THEN 0
  ELSE IF r.pc = "write" THEN 2
  ELSE IF r.pc \in {"suspend", "release"} THEN NumEntries - 1
  ELSE 1

LEMMA HeldTokens ==
  ASSUME th \in [Thread -> ThreadRecord], NEW c \in Channel
  PROVE  /\ held(c) = Tokens([u \in Thread |-> share(th[u], c)])
         /\ [u \in Thread |-> share(th[u], c)] \in [Thread -> 0 .. NumEntries]
<1>1. NumEntries \in Nat /\ NumEntries > 2
  BY Sizes
<1>2. \A u \in Thread : holds(u, c) = share(th[u], c)
  BY DEF holds, share, at
<1>3. \A u \in Thread : share(th[u], c) \in 0 .. NumEntries
  BY <1>1 DEF share
<1> HIDE DEF share
<1> QED BY <1>2, <1>3 DEF held, Tokens

(* A step of thread t changes only its share.                              *)
LEMMA HeldStep ==
  ASSUME th \in [Thread -> ThreadRecord], NEW t \in Thread, NEW s \in ThreadRecord, becomes(t, s),
         NEW c \in Channel
  PROVE  /\ Cardinality(held(c)) \in Nat /\ Cardinality(held(c)') \in Nat
         /\ Cardinality(held(c)') = Cardinality(held(c)) - share(th[t], c) + share(s, c)
         /\ share(th[t], c) <= Cardinality(held(c))
<1> DEFINE h == [u \in Thread |-> share(th[u], c)]
           g == [u \in Thread |-> share(th'[u], c)]
<1>1. th' \in [Thread -> ThreadRecord] /\ th'[t] = s /\ \A u \in Thread \ {t} : th'[u] = th[u]
  BY DEF becomes
<1>2. held(c) = Tokens(h) /\ h \in [Thread -> 0 .. NumEntries]
  BY HeldTokens
<1>3. held(c)' = Tokens(g) /\ g \in [Thread -> 0 .. NumEntries]
  <2>1. NumEntries \in Nat /\ NumEntries > 2
    BY Sizes
  <2>2. \A u \in Thread : holds(u, c)' = share(th'[u], c)
    BY DEF holds, share, at
  <2>3. \A u \in Thread : share(th'[u], c) \in 0 .. NumEntries
    BY <2>1 DEF share
  <2> HIDE DEF share
  <2> QED BY <2>2, <2>3 DEF held, Tokens
<1>4. h[t] = share(th[t], c) /\ g[t] = share(s, c) /\ \A u \in Thread \ {t} : g[u] = h[u]
  BY <1>1
<1> HIDE DEF h, g
<1>5. TokensOfOthers(g, t) = TokensOfOthers(h, t)
  BY <1>4 DEF TokensOfOthers, Tokens
<1>6. /\ Cardinality(Tokens(h)) \in Nat /\ Cardinality(TokensOfOthers(h, t)) \in Nat
      /\ Cardinality(Tokens(h)) = h[t] + Cardinality(TokensOfOthers(h, t))
  BY <1>2, TokenCount
<1>7. /\ Cardinality(Tokens(g)) \in Nat
      /\ Cardinality(Tokens(g)) = g[t] + Cardinality(TokensOfOthers(h, t))
  BY <1>3, <1>5, TokenCount
<1>8. h[t] \in Nat /\ g[t] \in Nat
  BY <1>2, <1>3, Sizes
<1> QED BY <1>2, <1>3, <1>4, <1>6, <1>7, <1>8

(* The shares of two threads.                                              *)
LEMMA HeldByTwo ==
  ASSUME th \in [Thread -> ThreadRecord], NEW t \in Thread, NEW u \in Thread \ {t},
         NEW c \in Channel
  PROVE  share(th[t], c) + share(th[u], c) <= Cardinality(held(c))
<1> DEFINE h == [x \in Thread |-> share(th[x], c)]
           g == [h EXCEPT ![t] = 0]
<1>1. held(c) = Tokens(h) /\ h \in [Thread -> 0 .. NumEntries]
  BY HeldTokens
<1>2. h[t] = share(th[t], c) /\ h[u] = share(th[u], c)
  OBVIOUS
<1> HIDE DEF h
<1>3. g \in [Thread -> 0 .. NumEntries] /\ g[t] = 0 /\ g[u] = h[u]
  BY <1>1, Sizes
<1>4. TokensOfOthers(g, t) = TokensOfOthers(h, t)
  BY <1>1 DEF TokensOfOthers, Tokens
<1>5. /\ Cardinality(Tokens(h)) = h[t] + Cardinality(TokensOfOthers(h, t))
      /\ Cardinality(TokensOfOthers(h, t)) \in Nat
  BY <1>1, TokenCount
<1>6. Cardinality(Tokens(g)) = 0 + Cardinality(TokensOfOthers(h, t))
  BY <1>3, <1>4, TokenCount
<1>7. /\ Cardinality(Tokens(g)) = g[u] + Cardinality(TokensOfOthers(g, u))
      /\ Cardinality(TokensOfOthers(g, u)) \in Nat
  BY <1>3, TokenCount
<1>8. h[t] \in Nat /\ h[u] \in Nat
  BY <1>1, Sizes
<1> QED BY <1>1, <1>2, <1>3, <1>5, <1>6, <1>7, <1>8

-----------------------------------------------------------------------------
(* The steps that leave the rings and the semaphores alone.                *)

(* A push that has its push info.                                          *)
committed(r) == r.pc \in {"acquire", "end"}

Keeps(r, s) ==
  /\ s.ch = r.ch
  /\ \A c \in Channel : share(s, c) = share(r, c)
  /\ committed(s) <=> committed(r)
  /\ s.ch # 0 => s.op = r.op
  /\ s.pc # "complete"

(* Nothing is added to the pushbuffer or taken from it.                    *)
BufferKeeps ==
  /\ pb' \in Buffer
  /\ pb'.pending = pb.pending /\ pb'.next_push_start = pb.next_push_start

Calm(t) ==
  /\ \E s \in ThreadRecord : Move(t, s) /\ Keeps(th[t], s)
  /\ BufferKeeps
  /\ fatal => fatal'
  /\ UNCHANGED <<ring, sem, released, executed>>

LEMMA QuietKeeps ==
  ASSUME Shape, NEW t \in Thread, QuietMove(t)
  PROVE  \E s \in ThreadRecord : Move(t, s) /\ Keeps(th[t], s)
<1>1. PICK s \in ThreadRecord : becomes(t, s) /\ Flow(s, fatal') /\ Quiet(th[t], s)
  BY DEF QuietMove
<1>2. s.ch # 0 => s.op = th[t].op
  <2>1. s.pc = "idle" => s = idle
    BY <1>1 DEF Flow, Located, phase, Progress
  <2>2. s.pc = "idle" => s.ch = 0
    BY <2>1 DEF idle
  <2> QED BY <1>1, <2>2 DEF Quiet
<1>3. Keeps(th[t], s)
  BY <1>1, <1>2 DEF Quiet, Keeps, share, committed, Apart
<1> QED BY <1>1, <1>3 DEF Move

LEMMA BufferSame ==
  ASSUME Shape, UNCHANGED pb
  PROVE  BufferKeeps
  BY DEF Shape, Others, BufferKeeps

(* A semaphore of the pushbuffer is downed or a chunk is claimed.          *)
LEMMA BufferSema ==
  ASSUME Shape, NEW n \in Int
  PROVE  LET q == [pb EXCEPT !.sema = n]
         IN  q \in Buffer /\ q.pending = pb.pending /\ q.next_push_start = pb.next_push_start
             /\ q.current_push = pb.current_push /\ q.idle = pb.idle /\ q.available = pb.available
  BY DEF Shape, Others, Buffer

LEMMA BufferClaim ==
  ASSUME Shape, NEW t \in Thread, NEW k \in PbChunk
  PROVE  LET q == claim_chunk(pb, k, t)
         IN  /\ q \in Buffer /\ q.pending = pb.pending /\ q.next_push_start = pb.next_push_start
             /\ q.sema = pb.sema /\ q.current_push = [pb.current_push EXCEPT ![k] = t]
             /\ q.idle = pb.idle \ {k} /\ q.available = pb.available \ {k}
<1> DEFINE p == [pb.current_push EXCEPT ![k] = t]
           i == pb.idle \ {k}
           a == pb.available \ {k}
           q == [pb EXCEPT !.current_push = p, !.idle = i, !.available = a]
<1>1. pb \in Buffer
  BY DEF Shape, Others
<1>2. p \in [PbChunk -> Thread \cup {NoPush}] /\ i \in SUBSET PbChunk /\ a \in SUBSET PbChunk
  BY <1>1 DEF Buffer
<1>3. claim_chunk(pb, k, t) = q
  BY DEF claim_chunk
<1> HIDE DEF p, i, a
<1>4. /\ q \in Buffer /\ q.pending = pb.pending /\ q.next_push_start = pb.next_push_start
      /\ q.sema = pb.sema /\ q.current_push = p /\ q.idle = i /\ q.available = a
  BY <1>1, <1>2 DEF Buffer
<1> QED BY <1>3, <1>4 DEF p, i, a

LEMMA CalmActions ==
  ASSUME SuspendsSafely, Shape, NEW t \in Thread,
         \/ Completed(t) \/ NoErrors(t) \/ CheckErrors(t) \/ ErrorFound(t) \/ ClaimFails(t)
         \/ ClaimFailsAgain(t) \/ Begin(t) \/ ClaimChunk(t) \/ NoChunk(t) \/ TrackerDone(t)
         \/ Suspend(t) \/ Wait(t) \/ Start(t)
  PROVE  Calm(t)
<1>0. ASSUME QuietMove(t), UNCHANGED <<ring, sem, released, executed, pb>>, fatal => fatal'
      PROVE  Calm(t)
  BY <1>0, QuietKeeps, BufferSame DEF Calm
<1>1. CASE Completed(t)
  BY <1>0, <1>1, CompletedMoves DEF Completed, gpu
<1>2. CASE NoErrors(t)
  BY <1>0, <1>2, NoErrorsMoves DEF NoErrors, gpu
<1>3. CASE CheckErrors(t)
  BY <1>0, <1>3, CheckErrorsMoves DEF CheckErrors, gpu
<1>4. CASE ErrorFound(t)
  BY <1>0, <1>4, ErrorFoundMoves DEF ErrorFound, gpu
<1>5. CASE ClaimFails(t)
  BY <1>0, <1>5, ClaimFailsMoves DEF ClaimFails, gpu
<1>6. CASE ClaimFailsAgain(t)
  BY <1>0, <1>6, ClaimFailsAgainMoves DEF ClaimFailsAgain, gpu
<1>7. CASE Begin(t)
  <2>1. PICK s \in ThreadRecord : Move(t, s) /\ Same(th[t], s) /\ s.pc = "chunk"
    BY <1>7, BeginMoves
  <2>2. th[t].pc = "begin" /\ fatal' = fatal
    BY <1>7, BeginMoves
  <2>3. Keeps(th[t], s)
    BY <2>1, <2>2 DEF Same, Keeps, share, committed
  <2>4. pb' = [pb EXCEPT !.sema = pb.sema - 1] /\ UNCHANGED <<ring, sem, released, executed>>
    BY <1>7 DEF Begin, gpu
  <2>5. pb.sema - 1 \in Int
    BY DEF Shape, Others, Buffer
  <2>6. BufferKeeps
    BY <2>4, <2>5, BufferSema DEF BufferKeeps
  <2> QED BY <2>1, <2>2, <2>3, <2>4, <2>6 DEF Calm
<1>8. CASE ClaimChunk(t)
  <2>1. th[t].pc = "chunk" /\ fatal' = fatal
    BY <1>8, ClaimChunkMoves
  <2>2. PICK k \in pick_chunks(pb), s \in ThreadRecord :
              /\ k \in PbChunk /\ pb' = claim_chunk(pb, k, t)
              /\ Move(t, s) /\ s.pc = IF th[t].ok THEN "info" ELSE "begin_failed"
              /\ s.k = k /\ s.op = th[t].op /\ s.ch = th[t].ch /\ s.tracked = th[t].tracked
              /\ s.acquires = th[t].acquires
    BY <1>8, ClaimChunkMoves
  <2>3. Keeps(th[t], s)
    BY <2>1, <2>2 DEF Keeps, share, committed
  <2>4. BufferKeeps
    BY <2>2, BufferClaim DEF BufferKeeps
  <2>5. UNCHANGED <<ring, sem, released, executed>>
    BY <1>8 DEF ClaimChunk, gpu
  <2> QED BY <2>1, <2>2, <2>3, <2>4, <2>5 DEF Calm
<1>9. CASE NoChunk(t)
  BY <1>0, <1>9, NoChunkMoves DEF NoChunk, gpu
<1>10. CASE TrackerDone(t)
  <2>1. UNCHANGED <<ring, sem, released, executed, pb>>
    BY <1>10 DEF TrackerDone, gpu
  <2>2. CASE at(t, "drain")
    BY <1>0, <1>10, <2>1, <2>2, DrainMoves
  <2>3. CASE at(t, "acquire")
    <3>1. PICK s \in ThreadRecord : Move(t, s) /\ Same(th[t], s) /\ s.pc = "end"
      BY <1>10, <2>3, AcquireMoves
    <3>2. th[t].pc = "acquire" /\ fatal' = fatal
      BY <1>10, <2>3, AcquireMoves
    <3>3. Keeps(th[t], s)
      BY <3>1, <3>2 DEF Same, Keeps, share, committed
    <3> QED BY <2>1, <3>1, <3>2, <3>3, BufferSame DEF Calm
  <2> QED BY <1>10, <2>2, <2>3 DEF TrackerDone, at
<1>11. CASE Suspend(t)
  <2>1. PICK s \in ThreadRecord : Move(t, s) /\ Same(th[t], s) /\ s.pc = "release"
    BY <1>11, SuspendMoves
  <2>2. th[t].pc = "suspend" /\ fatal' = fatal
    BY <1>11, SuspendMoves
  <2>3. Keeps(th[t], s)
    BY <2>1, <2>2 DEF Same, Keeps, share, committed
  <2>4. UNCHANGED <<ring, sem, released, executed, pb>>
    BY <1>11 DEF Suspend, gpu
  <2> QED BY <2>1, <2>2, <2>3, <2>4, BufferSame DEF Calm
<1>12. CASE Wait(t)
  BY <1>0, <1>12, WaitMoves DEF Wait, gpu
<1>13. CASE Start(t)
  <2>1. PICK s \in ThreadRecord : Move(t, s) /\ Starting(s)
    BY <1>13, StartMoves
  <2>2. th[t] = idle /\ unchanged
    BY <1>13, StartMoves
  <2>3. Keeps(th[t], s)
    <3>1. \A c \in Channel : c # 0
      BY Sizes
    <3> QED BY <2>1, <2>2, <3>1 DEF Starting, Keeps, share, committed, idle
  <2> QED BY <2>1, <2>2, <2>3, BufferSame DEF Calm, unchanged, gpu
<1> QED BY <1>1, <1>2, <1>3, <1>4, <1>5, <1>6, <1>7, <1>8, <1>9, <1>10, <1>11, <1>12, <1>13

-----------------------------------------------------------------------------
(* The accounts of the entries.                                            *)

Accounted(c) ==
  /\ Cardinality(held(c)) <= count[c]
  /\ count[c] = Cardinality(held(c)) \/ fatal
  /\ count[c] + pending(c) < NumEntries

Account == \A c \in Channel : Accounted(c)

LEMMA HeldType ==
  ASSUME th \in [Thread -> ThreadRecord], NEW c \in Channel
  PROVE  Cardinality(held(c)) \in Nat
<1>1. IsFiniteSet(Thread) /\ IsFiniteSet(1 .. NumEntries)
  BY Sizes, FS_Interval, ChannelAssumption
<1>2. IsFiniteSet(Thread \X (1 .. NumEntries))
  BY <1>1, FS_Product
<1>3. IsFiniteSet(held(c))
  BY <1>2, FS_Subset DEF held
<1> QED BY <1>3, FS_CardinalityType

(* No thread takes or gives an entry.                                      *)
LEMMA AccountKeeps ==
  ASSUME Shape, Account, NEW t \in Thread, NEW s \in ThreadRecord, becomes(t, s),
         \A c \in Channel : share(s, c) = share(th[t], c),
         count' = count, \A c \in Channel : pending(c)' \in Int /\ pending(c)' <= pending(c),
         fatal => fatal'
  PROVE  Account'
<1> SUFFICES ASSUME NEW c \in Channel
             PROVE  Accounted(c)'
  BY DEF Account
<1>1. Cardinality(held(c)') = Cardinality(held(c)) - share(th[t], c) + share(th[t], c)
      /\ Cardinality(held(c)) \in Nat
  BY HeldStep DEF Shape, Threads
<1>2. share(th[t], c) \in Int
  BY Sizes DEF share
<1>3. Cardinality(held(c)') = Cardinality(held(c))
  BY <1>1, <1>2
<1>4. count[c] \in Nat /\ pending(c) \in Int /\ pending(c)' \in Int /\ pending(c)' <= pending(c)
  <2>1. pending(c) \in 0 .. NumEntries - 1
    BY PendingType DEF Shape
  <2>2. count[c] \in Nat
    BY DEF Shape, Rings
  <2> QED BY <2>1, <2>2, Sizes
<1>5. Accounted(c)
  BY DEF Account
<1>6. count[c] + pending(c)' < NumEntries
  BY <1>4, <1>5, Sizes DEF Accounted
<1>7. Cardinality(held(c)') <= count'[c] /\ (count'[c] = Cardinality(held(c)') \/ fatal')
  BY <1>3, <1>5 DEF Accounted
<1> QED BY <1>6, <1>7 DEF Accounted

(* A thread takes or gives entries of channel c.                           *)
LEMMA AccountChange ==
  ASSUME Shape, Account, NEW t \in Thread, NEW s \in ThreadRecord, becomes(t, s),
         NEW c \in Channel, th[t].ch \in {0, c}, s.ch \in {0, c},
         NEW n \in Nat, count' = [count EXCEPT ![c] = n],
         LET m == count[c] - share(th[t], c) + share(s, c) IN n = m \/ (fatal' /\ n >= m),
         \A d \in Channel \ {c} : pending(d)' = pending(d),
         pending(c)' \in Int, n + pending(c)' < NumEntries, fatal => fatal'
  PROVE  Account'
<1> SUFFICES ASSUME NEW d \in Channel
             PROVE  Accounted(d)'
  BY DEF Account
<1>1. Cardinality(held(d)') = Cardinality(held(d)) - share(th[t], d) + share(s, d)
      /\ Cardinality(held(d)) \in Nat /\ share(th[t], d) <= Cardinality(held(d))
  BY HeldStep DEF Shape, Threads
<1>2. share(th[t], d) \in Int /\ share(s, d) \in Int
  BY Sizes DEF share
<1>3. Accounted(d) /\ count \in [Channel -> Nat]
  BY DEF Account, Shape, Rings
<1>4. CASE d = c
  <2>1. count'[d] = n
    BY <1>3, <1>4
  <2>2. Cardinality(held(d)') <= n /\ (n = Cardinality(held(d)') \/ fatal')
    <3> HIDE DEF share
    <3> QED BY <1>1, <1>2, <1>3, <1>4 DEF Accounted
  <2> QED BY <1>4, <2>1, <2>2 DEF Accounted
<1>5. CASE d # c
  <2>1. share(th[t], d) = 0 /\ share(s, d) = 0
    <3>1. d # 0
      BY Sizes
    <3> QED BY <1>5, <3>1 DEF share
  <2>2. Cardinality(held(d)') = Cardinality(held(d)) /\ count'[d] = count[d] /\ pending(d)' = pending(d)
    BY <1>1, <1>3, <1>5, <2>1
  <2> QED BY <1>3, <2>2 DEF Accounted
<1> QED BY <1>4, <1>5

(* A thread that holds entries of a channel finds room for them.           *)
LEMMA Room ==
  ASSUME Shape, Account, NEW t \in Thread, NEW c \in Channel
  PROVE  /\ share(th[t], c) <= count[c] /\ count[c] + pending(c) < NumEntries
         /\ count[c] \in Nat /\ pending(c) \in 0 .. NumEntries - 1
         /\ \A n \in 0 .. count[c] : (count[c] - n) % CountMod = count[c] - n
<1>1. /\ Cardinality(held(c)) \in Nat /\ share(th[t], c) <= Cardinality(held(c))
      /\ share(th[t], c) \in Int
  <2> DEFINE h == [u \in Thread |-> share(th[u], c)]
  <2>2. held(c) = Tokens(h) /\ h \in [Thread -> 0 .. NumEntries] /\ h[t] = share(th[t], c)
    BY HeldTokens DEF Shape, Threads
  <2> HIDE DEF h
  <2>3. /\ Cardinality(Tokens(h)) = h[t] + Cardinality(TokensOfOthers(h, t))
        /\ Cardinality(TokensOfOthers(h, t)) \in Nat /\ h[t] \in 0 .. NumEntries
    BY <2>2, TokenCount
  <2> QED BY <2>2, <2>3, Sizes
<1>2. Accounted(c) /\ count[c] \in Nat
  BY DEF Account, Shape, Rings
<1>3. pending(c) \in 0 .. NumEntries - 1
  BY PendingType DEF Shape
<1>4. NumEntries \in Nat /\ CountMod \in Nat \ {0} /\ NumEntries < CountMod
  BY Sizes
<1>5. ASSUME NEW n \in 0 .. count[c]
      PROVE  (count[c] - n) % CountMod = count[c] - n
  <2>1. count[c] - n \in 0 .. CountMod - 1
    BY <1>2, <1>3, <1>4 DEF Accounted
  <2> QED BY <1>4, <2>1, SmallRemainder
<1>6. share(th[t], c) <= count[c]
  BY <1>1, <1>2 DEF Accounted
<1> QED BY <1>2, <1>3, <1>5, <1>6 DEF Accounted

(* The pointers of a ring move by one entry.                               *)
LEMMA PutMoves ==
  ASSUME Shape, NEW c \in Channel, cpu_put' = [cpu_put EXCEPT ![c] = (cpu_put[c] + 1) % NumEntries],
         gpu_get' = gpu_get, pending(c) < NumEntries - 1
  PROVE  /\ cpu_put' \in [Channel -> Index] /\ cpu_put'[c] = Following(cpu_put[c])
         /\ pending(c)' = pending(c) + 1
         /\ \A d \in Channel \ {c} : pending(d)' = pending(d) /\ cpu_put'[d] = cpu_put[d]
<1>1. cpu_put \in [Channel -> Index] /\ gpu_get \in [Channel -> Index]
  BY DEF Shape, Rings
<1>2. (cpu_put[c] + 1) % NumEntries = Following(cpu_put[c])
  BY <1>1, Modulo
<1>3. Following(cpu_put[c]) \in Index
  BY <1>1, AheadFacts
<1>4. /\ cpu_put' \in [Channel -> Index] /\ cpu_put'[c] = Following(cpu_put[c])
      /\ \A d \in Channel \ {c} : cpu_put'[d] = cpu_put[d]
  BY <1>1, <1>2, <1>3
<1>5. pending(c) = Ahead(gpu_get[c], cpu_put[c])
  BY <1>1, Modulo DEF pending
<1>6. pending(c)' = Ahead(gpu_get[c], Following(cpu_put[c]))
  BY <1>1, <1>3, <1>4, Modulo DEF pending
<1>7. pending(c)' = pending(c) + 1
  BY <1>1, <1>5, <1>6, AheadFacts
<1>8. \A d \in Channel \ {c} : pending(d)' = pending(d)
  BY <1>4 DEF pending
<1> QED BY <1>4, <1>7, <1>8

LEMMA GetMoves ==
  ASSUME Shape, NEW c \in Channel, gpu_get' = [gpu_get EXCEPT ![c] = (gpu_get[c] + 1) % NumEntries],
         cpu_put' = cpu_put, gpu_get[c] # cpu_put[c]
  PROVE  /\ gpu_get' \in [Channel -> Index] /\ gpu_get'[c] = Following(gpu_get[c])
         /\ pending(c)' = pending(c) - 1
         /\ \A d \in Channel \ {c} : pending(d)' = pending(d) /\ gpu_get'[d] = gpu_get[d]
<1>1. cpu_put \in [Channel -> Index] /\ gpu_get \in [Channel -> Index]
  BY DEF Shape, Rings
<1>2. (gpu_get[c] + 1) % NumEntries = Following(gpu_get[c])
  BY <1>1, Modulo
<1>3. Following(gpu_get[c]) \in Index
  BY <1>1, AheadFacts
<1>4. /\ gpu_get' \in [Channel -> Index] /\ gpu_get'[c] = Following(gpu_get[c])
      /\ \A d \in Channel \ {c} : gpu_get'[d] = gpu_get[d]
  BY <1>1, <1>2, <1>3
<1>5. pending(c) = Ahead(gpu_get[c], cpu_put[c])
  BY <1>1, Modulo DEF pending
<1>6. pending(c)' = Ahead(Following(gpu_get[c]), cpu_put[c])
  BY <1>1, <1>3, <1>4, Modulo DEF pending
<1>7. pending(c)' = pending(c) - 1
  BY <1>1, <1>5, <1>6, AheadFacts
<1>8. \A d \in Channel \ {c} : pending(d)' = pending(d)
  BY <1>4 DEF pending
<1> QED BY <1>4, <1>7, <1>8

LEMMA AccountCalm ==
  ASSUME Shape, Account, NEW t \in Thread, Calm(t)
  PROVE  Account'
<1>1. PICK s \in ThreadRecord : Move(t, s) /\ Keeps(th[t], s)
  BY DEF Calm
<1>2. \A c \in Channel : pending(c)' = pending(c) /\ pending(c) \in Int
  BY PendingType, Sizes DEF Calm, ring, pending, Shape
<1>3. \A c \in Channel : pending(c)' \in Int /\ pending(c)' <= pending(c)
  BY <1>2
<1>4. count' = count /\ (fatal => fatal') /\ becomes(t, s)
      /\ \A c \in Channel : share(s, c) = share(th[t], c)
  BY <1>1 DEF Calm, ring, Move, Keeps
<1> QED BY <1>3, <1>4, AccountKeeps

LEMMA AccountClaim ==
  ASSUME SuspendsSafely, Shape, Account, NEW t \in Thread, Claim(t)
  PROVE  Account'
<1> DEFINE n == num_entries(t)
<1>0. PICK c \in Channel : c = th[t].up
  BY ClaimMoves
<1>1. c \in Channel /\ th[t].ch = 0 /\ n \in 1 .. NumEntries - 1 /\ fatal' = fatal
  BY ClaimMoves
<1>2. PICK s \in ThreadRecord :
        /\ Move(t, s)
        /\ \/ s = idle /\ fatal
           \/ /\ s.ch = c
              /\ \/ s.pc = "begin" /\ n = 1
                 \/ s.pc = "write" /\ n = 2
                 \/ s.pc = "suspend" /\ n = NumEntries - 1
  BY <1>0, ClaimMoves
<1>3. count' = [count EXCEPT ![c] = (count[c] + n) % CountMod] /\ may_claim(t, c)
  BY <1>0 DEF Claim
<1>4. /\ count[c] \in Nat /\ pending(c) \in 0 .. NumEntries - 1 /\ count[c] + pending(c) < NumEntries
  BY <1>1, Room
<1>5. NumEntries \in Nat /\ NumEntries > 2 /\ CountMod \in Nat \ {0} /\ NumEntries < CountMod
  BY Sizes
<1> HIDE DEF n
<1>6. available(c) = NumEntries - 1 - count[c] - pending(c)
  <2>1. NumEntries - 1 - count[c] - pending(c) \in 0 .. CountMod - 1
    BY <1>4, <1>5
  <2> QED BY <1>5, <2>1, SmallRemainder DEF available
<1>7. n <= NumEntries - 1 - count[c] - pending(c)
  BY <1>1, <1>3, <1>4, <1>5, <1>6 DEF may_claim, n
<1>8. count[c] + n \in 0 .. CountMod - 1 /\ count[c] + n + pending(c) < NumEntries
  BY <1>1, <1>4, <1>5, <1>7
<1>9. (count[c] + n) % CountMod = count[c] + n
  BY <1>5, <1>8, SmallRemainder
<1>10. \A d \in Channel : pending(d)' = pending(d)
  BY DEF Claim, pending
<1>11. share(th[t], c) = 0 /\ (share(s, c) = n \/ (share(s, c) = 0 /\ fatal))
  <2>1. c # 0
    BY <1>1, Sizes
  <2>2. CASE s = idle /\ fatal
    BY <1>1, <2>1, <2>2 DEF share, idle
  <2>3. CASE ~(s = idle /\ fatal)
    BY <1>1, <1>2, <1>5, <2>1, <2>3 DEF share
  <2> QED BY <2>2, <2>3
<1>12. s.ch \in {0, c}
  BY <1>2 DEF idle
<1> DEFINE m == count[c] + n
<1>13. m \in Nat /\ count' = [count EXCEPT ![c] = m] /\ m + pending(c) < NumEntries
  <2>1. m \in Nat /\ m + pending(c) < NumEntries
    BY <1>4, <1>5, <1>8
  <2>2. count' = [count EXCEPT ![c] = m]
    BY <1>3, <1>9, Zenon
  <2> QED BY <2>1, <2>2
<1>14. LET k == count[c] - share(th[t], c) + share(s, c) IN m = k \/ (fatal' /\ m >= k)
  BY <1>1, <1>4, <1>11
<1> HIDE DEF m
<1>15. pending(c)' \in Int /\ m + pending(c)' < NumEntries
  BY <1>1, <1>4, <1>5, <1>10, <1>13
<1> QED BY <1>1, <1>2, <1>10, <1>12, <1>13, <1>14, <1>15, AccountChange DEF Move

(* The number of entries of a channel a step gives back.                   *)
LEMMA AccountRelease ==
  ASSUME Shape, Account, NEW t \in Thread, NEW s \in ThreadRecord, becomes(t, s),
         NEW c \in Channel, th[t].ch = c, s.ch \in {0, c}, NEW k \in Nat,
         share(s, c) = share(th[t], c) - k, 0 <= share(s, c),
         count' = [count EXCEPT ![c] = (count[c] - k) % CountMod], fatal' = fatal,
         \A d \in Channel \ {c} : pending(d)' = pending(d),
         pending(c)' \in Int, pending(c)' <= pending(c) + k
  PROVE  Account'
<1>1. /\ share(th[t], c) <= count[c] /\ count[c] + pending(c) < NumEntries
      /\ count[c] \in Nat /\ pending(c) \in 0 .. NumEntries - 1
      /\ \A n \in 0 .. count[c] : (count[c] - n) % CountMod = count[c] - n
  BY Room
<1>2. share(th[t], c) \in Int /\ NumEntries \in Nat
  BY Sizes DEF share
<1>3. k \in 0 .. count[c]
  BY <1>1, <1>2
<1> DEFINE m == count[c] - k
<1>4. m \in Nat /\ count' = [count EXCEPT ![c] = m] /\ m + pending(c)' < NumEntries
  <2>1. (count[c] - k) % CountMod = m /\ m \in Nat
    BY <1>1, <1>3
  <2>2. m + pending(c)' < NumEntries
    BY <1>1, <1>2, <1>3
  <2> QED BY <2>1, <2>2
<1>5. m = count[c] - share(th[t], c) + share(s, c)
  BY <1>1, <1>2
<1> HIDE DEF m
<1> QED BY <1>4, <1>5, AccountChange

LEMMA AccountBeginFailed ==
  ASSUME Shape, Account, NEW t \in Thread, BeginFailed(t)
  PROVE  Account'
<1>0. PICK c \in Channel : c = th[t].ch /\ c # 0
  BY PushState, Sizes DEF Pushing, Pushes, BeginFailed, at
<1>1. th[t].pc = "begin_failed" /\ becomes(t, idle) /\ fatal' = fatal
      /\ count' = [count EXCEPT ![c] = (count[c] - 1) % CountMod]
  BY <1>0 DEF BeginFailed, at, returns
<1>2. c \in Channel /\ c # 0
  BY <1>0
<1>3. share(th[t], c) = 1 /\ share(idle, c) = 0 /\ idle.ch = 0
  BY <1>0, <1>1 DEF share, idle
<1>4. \A d \in Channel : pending(d)' = pending(d)
  BY DEF BeginFailed, pending
<1>5. pending(c) \in Int
  BY <1>2, PendingType, Sizes DEF Shape
<1>6. pending(c)' \in Int /\ pending(c)' <= pending(c) + 1
  BY <1>2, <1>4, <1>5
<1>7. 1 \in Nat /\ share(idle, c) = share(th[t], c) - 1 /\ 0 <= share(idle, c) /\ idle.ch \in {0, c}
  BY <1>3
<1> QED BY <1>0, <1>1, <1>4, <1>6, <1>7, AccountRelease, IdleRecord

(* The entry that a thread holds is there for it.                          *)
LEMMA SubmitRoom ==
  ASSUME Shape, Account, NEW t \in Thread, th[t].ch \in Channel, th[t].pc \in {"end", "write"}
  PROVE  pending(th[t].ch) < NumEntries - 1
<1> DEFINE c == th[t].ch
<1>1. /\ share(th[t], c) <= count[c] /\ count[c] + pending(c) < NumEntries
      /\ count[c] \in Nat /\ pending(c) \in 0 .. NumEntries - 1
  BY Room
<1>2. share(th[t], c) \in Nat /\ share(th[t], c) >= 1
  BY DEF share
<1> HIDE DEF c
<1>3. pending(c) < NumEntries - 1
  BY <1>1, <1>2, Sizes
<1> QED BY <1>3 DEF c

LEMMA AccountEndPush ==
  ASSUME Shape, Account, NEW t \in Thread, EndPush(t)
  PROVE  Account'
<1>0. PICK c \in Channel : c = th[t].ch /\ c # 0
  BY PushState, Sizes DEF Pushing, Pushes, EndPush, at
<1>1. th[t].pc = "end" /\ becomes(t, idle) /\ fatal' = fatal /\ gpu_get' = gpu_get
      /\ count' = [count EXCEPT ![c] = (count[c] - 1) % CountMod]
      /\ cpu_put' = [cpu_put EXCEPT ![c] = (cpu_put[c] + 1) % NumEntries]
  BY <1>0 DEF EndPush, at, returns
<1>3. share(th[t], c) = 1 /\ share(idle, c) = 0 /\ idle.ch = 0
  BY <1>0, <1>1 DEF share, idle
<1>4. pending(c) < NumEntries - 1 /\ pending(c) \in Int
  BY <1>0, <1>1, SubmitRoom, PendingType, Sizes DEF Shape
<1>5. pending(c)' = pending(c) + 1 /\ \A d \in Channel \ {c} : pending(d)' = pending(d)
  BY <1>0, <1>1, <1>4, PutMoves
<1>6. pending(c)' \in Int /\ pending(c)' <= pending(c) + 1
  BY <1>4, <1>5
<1>7. 1 \in Nat /\ share(idle, c) = share(th[t], c) - 1 /\ 0 <= share(idle, c) /\ idle.ch \in {0, c}
  BY <1>3
<1> QED BY <1>0, <1>1, <1>5, <1>6, <1>7, AccountRelease, IdleRecord

LEMMA AccountWriteCtrl ==
  ASSUME Shape, Account, NEW t \in Thread, WriteCtrl(t)
  PROVE  Account'
<1>0. PICK c \in Channel : c = th[t].ch
  BY WriteCtrlMoves DEF Pushes
<1>1. gpu_get' = gpu_get
      /\ count' = [count EXCEPT ![c] = (count[c] - 1) % CountMod]
      /\ cpu_put' = [cpu_put EXCEPT ![c] = (cpu_put[c] + 1) % NumEntries]
  BY <1>0 DEF WriteCtrl
<1>2. th[t].pc = "write" /\ fatal' = fatal
  BY WriteCtrlMoves
<1>3. PICK s \in ThreadRecord : Move(t, s) /\ Same(th[t], s) /\ s.pc = "begin"
  BY WriteCtrlMoves
<1>4. share(th[t], c) = 2 /\ share(s, c) = 1 /\ s.ch = c /\ becomes(t, s)
  BY <1>0, <1>2, <1>3 DEF share, Same, Move
<1>5. pending(c) < NumEntries - 1 /\ pending(c) \in Int
  BY <1>0, <1>2, SubmitRoom, PendingType, Sizes DEF Shape
<1>6. pending(c)' = pending(c) + 1 /\ \A d \in Channel \ {c} : pending(d)' = pending(d)
  BY <1>1, <1>2, <1>5, PutMoves
<1>7. pending(c)' \in Int /\ pending(c)' <= pending(c) + 1
  BY <1>5, <1>6
<1>8. 1 \in Nat /\ share(s, c) = share(th[t], c) - 1 /\ 0 <= share(s, c) /\ s.ch \in {0, c}
  BY <1>4
<1> QED BY <1>0, <1>1, <1>2, <1>4, <1>6, <1>7, <1>8, AccountRelease

LEMMA AccountSuspendRelease ==
  ASSUME SuspendsSafely, Shape, Account, NEW t \in Thread, SuspendRelease(t)
  PROVE  Account'
<1>0. PICK c \in Channel : c = th[t].ch
  BY SuspendReleaseMoves
<1>1. count' = [count EXCEPT ![c] = (count[c] - (NumEntries - 1)) % CountMod]
  BY <1>0 DEF SuspendRelease
<1>2. th[t].pc = "release" /\ fatal' = fatal /\ c # 0
  BY <1>0, SuspendReleaseMoves, Sizes
<1>3. PICK s \in ThreadRecord : Move(t, s) /\ s.ch = 0
  BY SuspendReleaseMoves
<1>4. NumEntries - 1 \in Nat
  BY Sizes
<1>5. share(th[t], c) = NumEntries - 1 /\ share(s, c) = 0 /\ becomes(t, s)
  BY <1>0, <1>2, <1>3 DEF share, Move
<1>6. \A d \in Channel : pending(d)' = pending(d)
  BY DEF SuspendRelease, pending
<1>7. pending(c) \in Int
  BY <1>2, PendingType, Sizes DEF Shape
<1>8. pending(c)' \in Int /\ pending(c)' <= pending(c) + (NumEntries - 1)
  BY <1>2, <1>4, <1>6, <1>7
<1>9. share(s, c) = share(th[t], c) - (NumEntries - 1) /\ 0 <= share(s, c)
  BY <1>4, <1>5
<1> QED BY <1>0, <1>1, <1>2, <1>3, <1>4, <1>5, <1>6, <1>8, <1>9, AccountRelease

(* The steps that neither reserve, submit nor release.                     *)
LEMMA AccountStays ==
  ASSUME Shape, Account, NEW t \in Thread, NEW s \in ThreadRecord, becomes(t, s),
         s.ch = th[t].ch, s.pc \notin {"write", "suspend", "release"},
         th[t].pc \notin {"write", "suspend", "release"},
         count' = count, cpu_put' = cpu_put, gpu_get' = gpu_get, fatal' = fatal
  PROVE  Account'
<1>1. \A c \in Channel : share(s, c) = share(th[t], c)
  BY DEF share
<1>2. \A c \in Channel : pending(c)' = pending(c) /\ pending(c) \in Int
  BY PendingType, Sizes DEF pending, Shape
<1>3. \A c \in Channel : pending(c)' \in Int /\ pending(c)' <= pending(c)
  BY <1>2
<1> QED BY <1>1, <1>3, AccountKeeps

LEMMA AccountComplete ==
  ASSUME Shape, Account, NEW t \in Thread, Complete(t)
  PROVE  Account'
<1>0. PICK c \in Channel : c = th[t].up
  BY CompleteMoves
<1>1. PICK s \in ThreadRecord : Move(t, s) /\ Same(th[t], s) /\ s.pc = "complete"
  BY CompleteMoves
<1>2. th[t].pc = "complete" /\ fatal' = fatal /\ gpu_get[c] # cpu_put[c]
  BY <1>0, CompleteMoves DEF retires
<1>3. /\ gpu_get' = [gpu_get EXCEPT ![c] = (gpu_get[c] + 1) % NumEntries]
      /\ cpu_put' = cpu_put /\ count' = count
  BY <1>0 DEF Complete
<1>4. pending(c)' = pending(c) - 1 /\ \A d \in Channel \ {c} : pending(d)' = pending(d)
  BY <1>2, <1>3, GetMoves
<1>5. \A d \in Channel : pending(d) \in Int
  BY PendingType, Sizes DEF Shape
<1>6. \A d \in Channel : pending(d)' \in Int /\ pending(d)' <= pending(d)
  BY <1>2, <1>4, <1>5
<1>7. \A d \in Channel : share(s, d) = share(th[t], d)
  BY <1>1, <1>2 DEF share, Same
<1> QED BY <1>1, <1>2, <1>3, <1>6, <1>7, AccountKeeps DEF Move

LEMMA AccountRun ==
  ASSUME SuspendsSafely, Shape, Account, NEW t \in Thread, Run(t) \/ Start(t)
  PROVE  Account'
<1>1. CASE \/ Completed(t) \/ NoErrors(t) \/ CheckErrors(t) \/ ErrorFound(t) \/ ClaimFails(t)
           \/ ClaimFailsAgain(t) \/ Begin(t) \/ ClaimChunk(t) \/ NoChunk(t) \/ TrackerDone(t)
           \/ Suspend(t) \/ Wait(t) \/ Start(t)
  BY <1>1, CalmActions, AccountCalm
<1>2. CASE UpdateValue(t)
  <2>1. PICK s \in ThreadRecord : Move(t, s) /\ Same(th[t], s) /\ s.pc = "complete"
    BY <1>2, UpdateValueMoves
  <2>2. th[t].pc = "value" /\ fatal' = fatal /\ UNCHANGED ring
    BY <1>2 DEF UpdateValue, at
  <2> QED BY <2>1, <2>2, AccountStays DEF ring, Move, Same
<1>3. CASE Complete(t)
  BY <1>3, AccountComplete
<1>4. CASE Claim(t)
  BY <1>4, AccountClaim
<1>5. CASE BeginFailed(t)
  BY <1>5, AccountBeginFailed
<1>6. CASE GetPushInfo(t)
  <2>1. PICK s \in ThreadRecord : Move(t, s) /\ Same(th[t], s) /\ s.pc \in {"acquire", "end"}
    BY <1>6, GetPushInfoMoves
  <2>2. th[t].pc = "info" /\ fatal' = fatal /\ UNCHANGED <<count, cpu_put, gpu_get>>
    BY <1>6 DEF GetPushInfo, at
  <2> QED BY <2>1, <2>2, AccountStays DEF Move, Same
<1>7. CASE TrackerEntry(t)
  <2>1. th[t].pc \in {"acquire", "drain"} /\ fatal' = fatal /\ UNCHANGED ring
    BY <1>7 DEF TrackerEntry
  <2>2. PICK s \in ThreadRecord : Move(t, s) /\ s.pc = th[t].pc /\ s.ch = th[t].ch
    BY <1>7, TrackerEntryMoves
  <2> QED BY <2>1, <2>2, AccountStays DEF ring, Move
<1>8. CASE EndPush(t)
  BY <1>8, AccountEndPush
<1>9. CASE WriteCtrl(t)
  BY <1>9, AccountWriteCtrl
<1>10. CASE SuspendRelease(t)
  BY <1>10, AccountSuspendRelease
<1> QED BY <1>1, <1>2, <1>3, <1>4, <1>5, <1>6, <1>7, <1>8, <1>9, <1>10 DEF Run

LEMMA AccountElse ==
  ASSUME Account, UNCHANGED <<count, cpu_put, gpu_get, fatal, th>>
  PROVE  Account'
  BY DEF Account, Accounted, held, holds, pending, at

-----------------------------------------------------------------------------
(* The rings of all channels.                                              *)

Ring(c) ==
  RingOf(entries[c], cpu_put[c], gpu_get[c], executed[c], queued[c], completed[c], released[c])

RingInv == \A c \in Channel : Ring(c)

(* What update_progress knows to be completed is completed.                *)
Values == \A t \in Thread : at(t, "complete") => th[t].value <= completed[th[t].up]

LEMMA RingTypes ==
  ASSUME Shape, NEW c \in Channel
  PROVE  IsRing(entries[c], cpu_put[c], gpu_get[c], executed[c], queued[c], completed[c], released[c])
  BY DEF Shape, Rings, Semaphores, IsRing

(* Reading the payload gives the value the GPU released last.              *)
LEMMA PayloadExact ==
  ASSUME Shape, RingInv, NEW c \in Channel
  PROVE  /\ extend(completed[c], payload(c)) = released[c]
         /\ completed[c] <= released[c] /\ completed[c] \in Nat /\ released[c] \in Nat
<1>1. completed[c] \in Nat /\ released[c] \in Nat /\ queued[c] \in Nat
  BY DEF Shape, Semaphores
<1>2. completed[c] <= released[c] /\ released[c] <= queued[c] /\ queued[c] - completed[c] < NumEntries
  BY RingTypes, RingSemaphore DEF RingInv, Ring
<1>3. released[c] - completed[c] < SemMod
  BY <1>1, <1>2, Sizes
<1>4. extend(completed[c], released[c] % SemMod) = released[c]
  BY <1>1, <1>2, <1>3, ExtendExact
<1> QED BY <1>1, <1>2, <1>4 DEF payload

(* A step that looks at the semaphore of channel c.                        *)
LEMMA RingLook ==
  ASSUME Shape, RingInv, NEW c \in Channel,
         completed' = completed \/ completed' = update_completed(c),
         UNCHANGED <<entries, cpu_put, gpu_get, executed, queued, released>>
  PROVE  RingInv' /\ completed' \in [Channel -> Nat] /\ \A d \in Channel : completed[d] <= completed'[d]
<1>1. completed \in [Channel -> Nat]
  BY DEF Shape, Semaphores
<1>2. CASE completed' = completed
  BY <1>1, <1>2 DEF RingInv, Ring
<1>3. CASE completed' = update_completed(c)
  <2>1. /\ completed' \in [Channel -> Nat] /\ completed'[c] = released[c]
        /\ \A d \in Channel \ {c} : completed'[d] = completed[d]
    BY <1>3, CompletedType, PayloadExact
  <2>2. completed[c] <= released[c] /\ released[c] \in Nat /\ completed[c] \in Nat
    BY PayloadExact
  <2>3. ASSUME NEW d \in Channel
        PROVE  Ring(d)' /\ completed[d] <= completed'[d]
    <3>1. CASE d = c
      <4>1. RingOf(entries[c], cpu_put[c], gpu_get[c], executed[c], queued[c], released[c], released[c])
        BY <2>2, RingTypes, RingCompleted DEF RingInv, Ring
      <4> QED BY <2>1, <2>2, <3>1, <4>1 DEF Ring
    <3>2. CASE d # c
      BY <1>1, <2>1, <3>2 DEF RingInv, Ring
    <3> QED BY <3>1, <3>2
  <2> QED BY <2>1, <2>3 DEF RingInv
<1> QED BY <1>2, <1>3

(* An entry of channel c is written.                                       *)
LEMMA EntryWritten ==
  ASSUME Shape, NEW c \in Channel, NEW i \in Index, NEW x \in Entry,
         entries' = [entries EXCEPT ![c][i] = x]
  PROVE  /\ entries' \in [Channel -> [Index -> Entry]] /\ entries'[c] = [entries[c] EXCEPT ![i] = x]
         /\ \A d \in Channel \ {c} : entries'[d] = entries[d]
<1>1. entries \in [Channel -> [Index -> Entry]]
  BY DEF Shape, Rings
<1>2. [entries[c] EXCEPT ![i] = x] \in [Index -> Entry]
  BY <1>1
<1>3. entries' = [entries EXCEPT ![c] = [entries[c] EXCEPT ![i] = x]]
  OBVIOUS
<1> QED BY <1>1, <1>2, <1>3

LEMMA NoEntry == no_entry \in Entry /\ no_entry.type = "none" /\ no_entry.p2p = FALSE
  BY DEF no_entry, Entry

(* The entry that ends a push.                                             *)
push_entry(t, c, size) ==
  [type |-> "NORMAL", value |-> queued[c] + 1, offset |-> push_offset(pb, th[t].k),
   size |-> size, acquires |-> th[t].acquires, p2p |-> th[t].op = "p2p"]

LEMMA PushEntry ==
  ASSUME Shape, NEW t \in Thread, NEW c \in Channel, NEW size \in PushSizes
  PROVE  /\ push_entry(t, c, size) \in Entry /\ push_entry(t, c, size).type = "NORMAL"
         /\ push_entry(t, c, size).value = queued[c] + 1
         /\ push_entry(t, c, size).offset = push_offset(pb, th[t].k)
         /\ push_entry(t, c, size).size = size
         /\ push_entry(t, c, size).acquires = th[t].acquires
         /\ push_entry(t, c, size).p2p = (th[t].op = "p2p")
<1>1. th[t].k \in PbChunk /\ th[t].acquires \in SUBSET (Channel \X Nat) /\ queued[c] \in Nat
  BY DEF Shape, Threads, ThreadRecord, Semaphores
<1>2. size \in Int
  BY ChannelAssumption, PushbufferAssumption
<1>3. push_offset(pb, th[t].k) \in Int
  BY <1>1, PushbufferAssumption, SMTT(40) DEF push_offset, chunk_get_offset, Shape, Others, Buffer, PbChunk
<1>4. (th[t].op = "p2p") \in BOOLEAN
  OBVIOUS
<1> HIDE DEF push_offset
<1> QED BY <1>1, <1>2, <1>3, <1>4 DEF push_entry, Entry

(* What EndPush does to the ring.                                          *)
LEMMA EndPushRing ==
  ASSUME Shape, Account, NEW t \in Thread, EndPush(t)
  PROVE  \E c \in Channel, size \in PushSizes :
           /\ c = th[t].ch /\ c # 0 /\ th[t].pc = "end" /\ Pushes(th[t]) /\ becomes(t, idle)
           /\ queued' = [queued EXCEPT ![c] = queued[c] + 1]
           /\ entries' = [entries EXCEPT ![c][cpu_put[c]] = push_entry(t, c, size)]
           /\ count' = [count EXCEPT ![c] = (count[c] - 1) % CountMod]
           /\ cpu_put' = [cpu_put EXCEPT ![c] = (cpu_put[c] + 1) % NumEntries]
           /\ pb' = pushbuffer_end_push(pb, entries', <<c, cpu_put[c]>>)
           /\ tracker' = IF th[t].tracked /\ tracker[c] < queued'[c]
                         THEN [tracker EXCEPT ![c] = queued'[c]] ELSE tracker
           /\ UNCHANGED <<gpu_get, infos, completed, gpu, suspended, lock, fatal>>
           /\ pending(c) < NumEntries - 1
<1>1. th[t].pc = "end" /\ becomes(t, idle)
  BY DEF EndPush, at, returns
<1>2. Pushes(th[t]) /\ th[t].ch \in Channel /\ th[t].ch # 0
  BY <1>1, PushState, Sizes DEF Pushing, Pushes
<1>3. pending(th[t].ch) < NumEntries - 1
  BY <1>1, <1>2, SubmitRoom
<1>4. PICK c \in Channel : c = th[t].ch
  BY <1>2
<1>5. PICK size \in PushSizes :
           /\ queued' = [queued EXCEPT ![c] = queued[c] + 1]
           /\ entries' = [entries EXCEPT ![c][cpu_put[c]] = push_entry(t, c, size)]
           /\ count' = [count EXCEPT ![c] = (count[c] - 1) % CountMod]
           /\ cpu_put' = [cpu_put EXCEPT ![c] = (cpu_put[c] + 1) % NumEntries]
           /\ pb' = pushbuffer_end_push(pb, entries', <<c, cpu_put[c]>>)
           /\ tracker' = IF th[t].tracked /\ tracker[c] < queued'[c]
                         THEN [tracker EXCEPT ![c] = queued'[c]] ELSE tracker
  BY <1>4, ZenonT(40) DEF EndPush, push_entry
<1>6. UNCHANGED <<gpu_get, infos, completed, gpu, suspended, lock, fatal>>
  BY DEF EndPush
<1> QED BY <1>1, <1>2, <1>3, <1>4, <1>5, <1>6

(* The entry write_ctrl_gpfifo writes.                                     *)
control_entry(c) == [no_entry EXCEPT !.type = "CONTROL", !.value = queued[c] + 1]

LEMMA ControlEntry ==
  ASSUME Shape, NEW c \in Channel
  PROVE  /\ control_entry(c) \in Entry /\ control_entry(c).type = "CONTROL"
         /\ control_entry(c).value = queued[c] + 1 /\ control_entry(c).p2p = FALSE
<1> DEFINE v == queued[c] + 1
           a == [no_entry EXCEPT !.type = "CONTROL"]
           b == [a EXCEPT !.value = v]
<1>1. v \in Nat
  BY DEF Shape, Semaphores
<1>2. no_entry \in Entry /\ no_entry.p2p = FALSE
  BY NoEntry
<1> HIDE DEF v
<1>3. a \in Entry /\ a.type = "CONTROL" /\ a.p2p = FALSE
  BY <1>2 DEF Entry
<1>4. b \in Entry /\ b.type = "CONTROL" /\ b.p2p = FALSE /\ b.value = v
  <2> HIDE DEF a
  <2> QED BY <1>1, <1>3 DEF Entry
<1>5. control_entry(c) = b
  BY DEF control_entry, v
<1> QED BY <1>4, <1>5 DEF v

LEMMA WriteCtrlRing ==
  ASSUME Shape, Account, NEW t \in Thread, WriteCtrl(t)
  PROVE  \E c \in Channel :
           /\ c = th[t].ch /\ c # 0 /\ th[t].pc = "write"
           /\ entries' = [entries EXCEPT ![c][cpu_put[c]] = control_entry(c)]
           /\ count' = [count EXCEPT ![c] = (count[c] - 1) % CountMod]
           /\ cpu_put' = [cpu_put EXCEPT ![c] = (cpu_put[c] + 1) % NumEntries]
           /\ UNCHANGED <<gpu_get, infos, sem, gpu, suspended, lock, pb, tracker, fatal>>
           /\ pending(c) < NumEntries - 1
<1>1. th[t].pc = "write" /\ th[t].ch \in Channel /\ th[t].ch # 0
  BY WriteCtrlMoves, Sizes DEF Pushes
<1>2. pending(th[t].ch) < NumEntries - 1
  BY <1>1, SubmitRoom
<1>3. PICK c \in Channel : c = th[t].ch
  BY <1>1
<1>4. /\ entries' = [entries EXCEPT ![c][cpu_put[c]] = control_entry(c)]
      /\ count' = [count EXCEPT ![c] = (count[c] - 1) % CountMod]
      /\ cpu_put' = [cpu_put EXCEPT ![c] = (cpu_put[c] + 1) % NumEntries]
      /\ UNCHANGED <<gpu_get, infos, sem, gpu, suspended, lock, pb, tracker, fatal>>
  BY <1>3, SMTT(40) DEF WriteCtrl, control_entry, control_value
<1> QED BY <1>1, <1>2, <1>3, <1>4

(* What Complete does to the ring.                                         *)
LEMMA CompleteRing ==
  ASSUME Shape, NEW t \in Thread, Complete(t)
  PROVE  \E c \in Channel :
           /\ c = th[t].up /\ th[t].pc = "complete" /\ gpu_get[c] # cpu_put[c]
           /\ entries[c][gpu_get[c]].value <= th[t].value
           /\ entries' = [entries EXCEPT ![c][gpu_get[c]] = no_entry]
           /\ gpu_get' = [gpu_get EXCEPT ![c] = (gpu_get[c] + 1) % NumEntries]
           /\ pb' = IF entries[c][gpu_get[c]].type = "NORMAL"
                    THEN pushbuffer_mark_completed(pb, entries, <<c, gpu_get[c]>>) ELSE pb
           /\ infos' = IF entries[c][gpu_get[c]].type = "NORMAL"
                       THEN [infos EXCEPT ![c] = infos[c] + 1] ELSE infos
           /\ lock' = [lock EXCEPT ![pool_of(c)] = t]
           /\ UNCHANGED <<cpu_put, count, sem, gpu, suspended, tracker, fatal>>
<1>1. th[t].up \in Channel /\ retires(t) /\ th[t].pc = "complete"
  BY CompleteMoves
<1>2. PICK c \in Channel : c = th[t].up
  BY <1>1
<1> QED BY <1>1, <1>2 DEF Complete, retires

LEMMA RingSame ==
  ASSUME RingInv, UNCHANGED <<entries, cpu_put, gpu_get, executed, queued, completed, released>>
  PROVE  RingInv'
  BY DEF RingInv, Ring

(* A thread moves; the completed values do not shrink.                     *)
LEMMA ValuesMove ==
  ASSUME Shape, Values, NEW t \in Thread, NEW s \in ThreadRecord, becomes(t, s),
         s.pc = "complete" => s.value <= completed'[s.up],
         completed' \in [Channel -> Nat], \A d \in Channel : completed[d] <= completed'[d]
  PROVE  Values'
<1>1. th \in [Thread -> ThreadRecord] /\ completed \in [Channel -> Nat]
  BY DEF Shape, Threads, Semaphores
<1>2. th'[t] = s /\ \A u \in Thread \ {t} : th'[u] = th[u]
  BY <1>1 DEF becomes
<1>3. ASSUME NEW u \in Thread \ {t}, th[u].pc = "complete"
      PROVE  th[u].value <= completed'[th[u].up]
  <2>1. th[u].up \in Channel /\ th[u].value \in Nat
    BY <1>1, <1>3 DEF Shape, Threads, Flow, Counted, Progress, ThreadRecord
  <2>2. th[u].value <= completed[th[u].up]
    BY <1>3 DEF Values, at
  <2> QED BY <1>1, <2>1, <2>2
<1> QED BY <1>2, <1>3 DEF Values, at

LEMMA ValuesSame ==
  ASSUME Shape, Values, NEW t \in Thread, NEW s \in ThreadRecord, becomes(t, s), s.pc # "complete",
         completed' = completed
  PROVE  Values'
<1>1. completed' \in [Channel -> Nat] /\ \A d \in Channel : completed[d] <= completed'[d]
  BY DEF Shape, Semaphores
<1> QED BY <1>1, ValuesMove

(* Which entry a submission writes, and where.                             *)
LEMMA RingSubmit ==
  ASSUME Shape, RingInv, NEW c \in Channel, NEW x \in Entry, x.type \in {"NORMAL", "CONTROL"},
         x.value = queued[c] + 1, pending(c) < NumEntries - 1,
         entries' = [entries EXCEPT ![c][cpu_put[c]] = x],
         cpu_put' = [cpu_put EXCEPT ![c] = (cpu_put[c] + 1) % NumEntries],
         queued' = IF x.type = "NORMAL" THEN [queued EXCEPT ![c] = queued[c] + 1] ELSE queued,
         UNCHANGED <<gpu_get, completed, released, executed>>
  PROVE  RingInv'
<1>1. /\ cpu_put[c] \in Index /\ gpu_get[c] \in Index
      /\ queued \in [Channel -> Nat] /\ cpu_put \in [Channel -> Index]
  BY DEF Shape, Rings, Semaphores
<1>2. /\ entries'[c] = [entries[c] EXCEPT ![cpu_put[c]] = x]
      /\ \A d \in Channel \ {c} : entries'[d] = entries[d]
  BY <1>1, EntryWritten
<1>3. /\ cpu_put'[c] = Following(cpu_put[c])
      /\ \A d \in Channel \ {c} : cpu_put'[d] = cpu_put[d]
  BY PutMoves
<1>4. Ahead(gpu_get[c], cpu_put[c]) < NumEntries - 1
  BY <1>1, Modulo DEF pending
<1>5. /\ queued'[c] = IF x.type = "NORMAL" THEN queued[c] + 1 ELSE queued[c]
      /\ \A d \in Channel \ {c} : queued'[d] = queued[d]
  BY <1>1
<1>6. RingOf([entries[c] EXCEPT ![cpu_put[c]] = x], Following(cpu_put[c]), gpu_get[c], executed[c],
             IF x.type = "NORMAL" THEN queued[c] + 1 ELSE queued[c], completed[c], released[c])
  BY <1>4, RingTypes, RingAppend DEF RingInv, Ring
<1>7. Ring(c)'
  BY <1>2, <1>3, <1>5, <1>6 DEF Ring
<1>8. \A d \in Channel \ {c} : Ring(d)'
  BY <1>2, <1>3, <1>5 DEF RingInv, Ring
<1> QED BY <1>7, <1>8 DEF RingInv

LEMMA RingComplete ==
  ASSUME Shape, RingInv, Values, NEW t \in Thread, Complete(t)
  PROVE  RingInv'
<1>1. PICK c \in Channel :
           /\ c = th[t].up /\ th[t].pc = "complete" /\ gpu_get[c] # cpu_put[c]
           /\ entries[c][gpu_get[c]].value <= th[t].value
           /\ entries' = [entries EXCEPT ![c][gpu_get[c]] = no_entry]
           /\ gpu_get' = [gpu_get EXCEPT ![c] = (gpu_get[c] + 1) % NumEntries]
           /\ UNCHANGED <<cpu_put, count, sem, gpu, suspended, tracker, fatal>>
  BY CompleteRing
<1>2. /\ gpu_get[c] \in Index /\ th[t].value \in Nat /\ completed[c] \in Nat
      /\ entries[c][gpu_get[c]].value \in Nat
  BY DEF Shape, Rings, Threads, ThreadRecord, Semaphores, Entry
<1>3. /\ entries'[c] = [entries[c] EXCEPT ![gpu_get[c]] = no_entry]
      /\ \A d \in Channel \ {c} : entries'[d] = entries[d]
  BY <1>1, <1>2, NoEntry, EntryWritten
<1>4. /\ gpu_get'[c] = Following(gpu_get[c])
      /\ \A d \in Channel \ {c} : gpu_get'[d] = gpu_get[d]
  BY <1>1, GetMoves
<1>5. th[t].value <= completed[c]
  BY <1>1 DEF Values, at
<1>6. entries[c][gpu_get[c]].value <= completed[c]
  BY <1>1, <1>2, <1>5
<1>7. RingOf([entries[c] EXCEPT ![gpu_get[c]] = no_entry], cpu_put[c], Following(gpu_get[c]),
             executed[c], queued[c], completed[c], released[c])
  BY <1>1, <1>6, RingTypes, RingRetire DEF RingInv, Ring
<1>8. UNCHANGED <<cpu_put, queued, completed, executed, released>>
  BY <1>1 DEF sem, gpu
<1>9. Ring(c)'
  BY <1>3, <1>4, <1>7, <1>8 DEF Ring
<1>10. \A d \in Channel \ {c} : Ring(d)'
  BY <1>3, <1>4, <1>8 DEF RingInv, Ring
<1> QED BY <1>9, <1>10 DEF RingInv

(* The GPU executes an entry.                                              *)
LEMMA RingGpu ==
  ASSUME Shape, RingInv, NEW c \in Channel, Execute(c)
  PROVE  /\ RingInv' /\ released' \in [Channel -> Nat] /\ executed' \in [Channel -> Index]
<1> DEFINE e == entries[c][executed[c]]
<1>1. /\ executed[c] # cpu_put[c]
      /\ released' = IF e.type = "NORMAL" THEN [released EXCEPT ![c] = e.value] ELSE released
      /\ executed' = [executed EXCEPT ![c] = (executed[c] + 1) % NumEntries]
      /\ UNCHANGED <<entries, cpu_put, gpu_get, queued, completed>>
  BY DEF Execute, ring, sem
<1>2. /\ executed \in [Channel -> Index] /\ released \in [Channel -> Nat] /\ e \in Entry
      /\ e.value \in Nat
  BY DEF Shape, Rings, Semaphores, Entry
<1> HIDE DEF e
<1>3. (executed[c] + 1) % NumEntries = Following(executed[c]) /\ Following(executed[c]) \in Index
  BY <1>2, Modulo, AheadFacts
<1>4. /\ executed' \in [Channel -> Index] /\ executed'[c] = Following(executed[c])
      /\ \A d \in Channel \ {c} : executed'[d] = executed[d]
  BY <1>1, <1>2, <1>3
<1>5. /\ released' \in [Channel -> Nat]
      /\ released'[c] = IF e.type = "NORMAL" THEN e.value ELSE released[c]
      /\ \A d \in Channel \ {c} : released'[d] = released[d]
  BY <1>1, <1>2
<1>6. RingOf(entries[c], cpu_put[c], gpu_get[c], Following(executed[c]), queued[c], completed[c],
             IF e.type = "NORMAL" THEN e.value ELSE released[c])
  BY <1>1, RingTypes, RingExecute DEF RingInv, Ring, e
<1>7. Ring(c)'
  BY <1>1, <1>4, <1>5, <1>6 DEF Ring
<1>8. \A d \in Channel \ {c} : Ring(d)'
  BY <1>1, <1>4, <1>5 DEF RingInv, Ring
<1> QED BY <1>4, <1>5, <1>7, <1>8 DEF RingInv

(* The rings and what threads know of them, after a step of a thread.      *)
LEMMA RingRun ==
  ASSUME SuspendsSafely, Shape, Account, RingInv, Values, NEW t \in Thread, Run(t) \/ Start(t)
  PROVE  RingInv' /\ Values'
<1>0. ASSUME NEW s \in ThreadRecord, Move(t, s), s.pc # "complete",
             UNCHANGED <<entries, cpu_put, gpu_get, executed, queued, completed, released>>
      PROVE  RingInv' /\ Values'
  BY <1>0, RingSame, ValuesSame DEF Move
<1>1. CASE \/ Completed(t) \/ NoErrors(t) \/ CheckErrors(t) \/ ErrorFound(t) \/ ClaimFails(t)
           \/ ClaimFailsAgain(t) \/ Begin(t) \/ ClaimChunk(t) \/ NoChunk(t) \/ TrackerDone(t)
           \/ Suspend(t) \/ Wait(t) \/ Start(t)
  <2>1. Calm(t)
    BY <1>1, CalmActions
  <2>2. PICK s \in ThreadRecord : Move(t, s) /\ Keeps(th[t], s)
    BY <2>1 DEF Calm
  <2>3. UNCHANGED <<entries, cpu_put, gpu_get, executed, queued, completed, released>>
    BY <2>1 DEF Calm, ring, sem
  <2> QED BY <1>0, <2>2, <2>3 DEF Keeps
<1>2. CASE UpdateValue(t)
  <2>1. PICK s \in ThreadRecord : /\ Move(t, s) /\ s.pc = "complete" /\ s.up = th[t].up
                                  /\ s.value = completed'[th[t].up]
    BY <1>2, UpdateValueMoves
  <2>2. th[t].up \in Channel /\ completed' = update_completed(th[t].up)
    BY <1>2, UpdateValueMoves
  <2>3. UNCHANGED <<entries, cpu_put, gpu_get, executed, queued, released>>
    BY <1>2 DEF UpdateValue, ring, gpu
  <2>4. /\ RingInv' /\ completed' \in [Channel -> Nat]
        /\ \A d \in Channel : completed[d] <= completed'[d]
    BY <2>2, <2>3, RingLook
  <2>5. s.value <= completed'[s.up]
    BY <2>1, <2>2, <2>4
  <2> QED BY <2>1, <2>4, <2>5, ValuesMove DEF Move
<1>3. CASE Complete(t)
  <2>1. RingInv'
    BY <1>3, RingComplete
  <2>2. PICK s \in ThreadRecord : /\ Move(t, s) /\ s.pc = "complete" /\ s.up = th[t].up
                                  /\ s.value = th[t].value
    BY <1>3, CompleteMoves
  <2>3. th[t].pc = "complete" /\ completed' = completed
    BY <1>3 DEF Complete, at, sem
  <2>4. /\ completed' \in [Channel -> Nat] /\ \A d \in Channel : completed[d] <= completed'[d]
        /\ s.value <= completed'[s.up]
    BY <2>2, <2>3 DEF Shape, Semaphores, Values, at
  <2> QED BY <2>1, <2>2, <2>4, ValuesMove DEF Move
<1>4. CASE Claim(t)
  <2>1. PICK s \in ThreadRecord : Move(t, s) /\ (s = idle \/ s.pc \in {"begin", "write", "suspend"})
    BY <1>4, ClaimMoves
  <2>2. UNCHANGED <<entries, cpu_put, gpu_get, executed, queued, completed, released>>
    BY <1>4 DEF Claim, sem, gpu
  <2>3. s.pc # "complete"
    BY <2>1 DEF idle
  <2> QED BY <1>0, <2>1, <2>2, <2>3
<1>5. CASE BeginFailed(t)
  <2>1. Move(t, idle)
    BY <1>5, ReturnMoves DEF BeginFailed, returns
  <2>2. UNCHANGED <<entries, cpu_put, gpu_get, executed, queued, completed, released>>
    BY <1>5 DEF BeginFailed, sem, gpu
  <2> QED BY <1>0, <2>1, <2>2, IdleRecord DEF idle
<1>6. CASE GetPushInfo(t)
  <2>1. PICK s \in ThreadRecord : Move(t, s) /\ s.pc \in {"acquire", "end"}
    BY <1>6, GetPushInfoMoves
  <2>2. UNCHANGED <<entries, cpu_put, gpu_get, executed, queued, completed, released>>
    BY <1>6 DEF GetPushInfo, sem, gpu
  <2> QED BY <1>0, <2>1, <2>2
<1>7. CASE TrackerEntry(t)
  <2>1. PICK c \in Channel :
             /\ completed' = looked_at(c, tracker[c])
             /\ \E s \in ThreadRecord : Move(t, s) /\ s.pc = th[t].pc
    BY <1>7, TrackerEntryMoves
  <2>2. PICK s \in ThreadRecord : Move(t, s) /\ s.pc = th[t].pc
    BY <2>1
  <2>3. th[t].pc \in {"acquire", "drain"}
    BY <1>7, TrackerEntryMoves
  <2>4. UNCHANGED <<entries, cpu_put, gpu_get, executed, queued, released>>
    BY <1>7 DEF TrackerEntry, ring, gpu
  <2>5. completed' = completed \/ completed' = update_completed(c)
    BY <2>1 DEF looked_at
  <2>6. /\ RingInv' /\ completed' \in [Channel -> Nat]
        /\ \A d \in Channel : completed[d] <= completed'[d]
    BY <2>4, <2>5, RingLook
  <2> QED BY <2>2, <2>3, <2>6, ValuesMove DEF Move
<1>8. CASE EndPush(t)
  <2>1. PICK c \in Channel, size \in PushSizes :
           /\ becomes(t, idle) /\ pending(c) < NumEntries - 1
           /\ queued' = [queued EXCEPT ![c] = queued[c] + 1]
           /\ entries' = [entries EXCEPT ![c][cpu_put[c]] = push_entry(t, c, size)]
           /\ cpu_put' = [cpu_put EXCEPT ![c] = (cpu_put[c] + 1) % NumEntries]
           /\ UNCHANGED <<gpu_get, infos, completed, gpu, suspended, lock, fatal>>
    BY <1>8, EndPushRing
  <2>2. /\ push_entry(t, c, size) \in Entry /\ push_entry(t, c, size).type = "NORMAL"
        /\ push_entry(t, c, size).value = queued[c] + 1
    BY PushEntry
  <2>3. UNCHANGED <<gpu_get, completed, released, executed>>
    BY <2>1 DEF gpu
  <2>4. RingInv'
    BY <2>1, <2>2, <2>3, RingSubmit
  <2>5. Values'
    BY <2>1, <2>3, IdleRecord, ValuesSame DEF idle
  <2> QED BY <2>4, <2>5
<1>9. CASE WriteCtrl(t)
  <2>1. PICK c \in Channel :
           /\ pending(c) < NumEntries - 1
           /\ entries' = [entries EXCEPT ![c][cpu_put[c]] = control_entry(c)]
           /\ cpu_put' = [cpu_put EXCEPT ![c] = (cpu_put[c] + 1) % NumEntries]
           /\ UNCHANGED <<gpu_get, infos, sem, gpu, suspended, lock, pb, tracker, fatal>>
    BY <1>9, WriteCtrlRing
  <2>2. /\ control_entry(c) \in Entry /\ control_entry(c).type = "CONTROL"
        /\ control_entry(c).value = queued[c] + 1
    BY ControlEntry
  <2>3. UNCHANGED <<gpu_get, completed, released, executed, queued>>
    BY <2>1 DEF gpu, sem
  <2>4. RingInv'
    BY <2>1, <2>2, <2>3, RingSubmit
  <2>5. PICK s \in ThreadRecord : Move(t, s) /\ s.pc = "begin"
    BY <1>9, WriteCtrlMoves
  <2>6. Values'
    BY <2>3, <2>5, ValuesSame DEF Move
  <2> QED BY <2>4, <2>6
<1>10. CASE SuspendRelease(t)
  <2>1. PICK s \in ThreadRecord : Move(t, s) /\ s.pc \in {"claim", "idle"}
    BY <1>10, SuspendReleaseMoves
  <2>2. UNCHANGED <<entries, cpu_put, gpu_get, executed, queued, completed, released>>
    BY <1>10 DEF SuspendRelease, sem, gpu
  <2> QED BY <1>0, <2>1, <2>2
<1> QED BY <1>1, <1>2, <1>3, <1>4, <1>5, <1>6, <1>7, <1>8, <1>9, <1>10 DEF Run

LEMMA ValuesElse ==
  ASSUME Values, UNCHANGED <<completed, th>>
  PROVE  Values'
  BY DEF Values, at

-----------------------------------------------------------------------------
(* The pushbuffer.                                                         *)

builds(r) == r.pc \in {"info", "acquire", "end"}

(* The lists of the chunks hold the pending pushes, which lie in order,    *)
(* and a push that is being built has a chunk of its own.                  *)
Listing == \A g \in Place : listed(pb, g) <=> entry_of(entries, g).type = "NORMAL"

Owning == \A t \in Thread : builds(th[t]) => pb.current_push[th[t].k] = t

Placed == ChunksInv(pb, entries) /\ Listing /\ Owning

LEMMA BufferTypes ==
  ASSUME Shape
  PROVE  /\ pb \in Buffers(Place, Thread) /\ Sized(entries, Place)
         /\ \A c \in Channel, i \in Index :
              entry_of(entries, <<c, i>>) = entries[c][i] /\ entries[c][i] \in Entry
         /\ Buffers(Place, Thread) = Buffer
<1>1. Buffers(Place, Thread) = Buffer
  BY DEF Buffer, Buffers
<1>2. \A c \in Channel, i \in Index :
        entry_of(entries, <<c, i>>) = entries[c][i] /\ entries[c][i] \in Entry
  BY DEF Shape, Rings, entry_of
<1>3. Sized(entries, Place)
  BY DEF Shape, Rings, Sized, Place, entry_of, Entry
<1> QED BY <1>1, <1>2, <1>3 DEF Shape, Others

(* The chunks and the places of the pushes stay as they are.               *)
PlacesKept ==
  /\ pb'.idle = pb.idle /\ pb'.available = pb.available /\ pb'.pending = pb.pending
  /\ pb'.current_push = pb.current_push /\ pb'.next_push_start = pb.next_push_start

LEMMA OwningMove ==
  ASSUME Shape, Owning, NEW t \in Thread, NEW s \in ThreadRecord, becomes(t, s),
         \A u \in Thread \ {t} : builds(th[u]) => pb'.current_push[th[u].k] = pb.current_push[th[u].k],
         builds(s) => pb'.current_push[s.k] = t
  PROVE  Owning'
<1>1. th'[t] = s /\ \A u \in Thread \ {t} : th'[u] = th[u]
  BY DEF becomes, Shape, Threads
<1> QED BY <1>1 DEF Owning

LEMMA PlacedKept ==
  ASSUME Shape, Placed, NEW t \in Thread, NEW s \in ThreadRecord, becomes(t, s),
         PlacesKept, entries' = entries, builds(s) => builds(th[t]) /\ s.k = th[t].k
  PROVE  Placed'
<1>1. ASSUME NEW k \in PbChunk
      PROVE  ChunkInv(pb', entries', k)
  <2>1. ChunkInv(pb, entries, k)
    BY DEF Placed, ChunksInv
  <2> QED BY <2>1, ChunkKeeps DEF PlacesKept
<1>2. Listing'
  BY DEF Placed, Listing, listed, PlacesKept
<1>3. Owning'
  BY OwningMove DEF Placed, Owning, PlacesKept
<1> QED BY <1>1, <1>2, <1>3 DEF Placed, ChunksInv

LEMMA PlacedClaimChunk ==
  ASSUME Shape, Placed, NEW t \in Thread, ClaimChunk(t)
  PROVE  Placed'
<1>1. PICK k \in pick_chunks(pb) : \E s \in ThreadRecord :
             /\ k \in PbChunk /\ pb' = claim_chunk(pb, k, t) /\ Move(t, s) /\ s.k = k
  BY ClaimChunkMoves
<1>2. PICK s \in ThreadRecord : Move(t, s) /\ s.k = k
  BY <1>1
<1>3. /\ pb'.pending = pb.pending /\ pb'.next_push_start = pb.next_push_start
      /\ pb'.current_push = [pb.current_push EXCEPT ![k] = t]
      /\ pb'.idle = pb.idle \ {k} /\ pb'.available = pb.available \ {k}
  BY <1>1, BufferClaim
<1>4. entries' = entries /\ pb \in Buffer /\ pb.current_push \in [PbChunk -> Thread \cup {NoPush}]
  BY DEF ClaimChunk, ring, Shape, Others, Buffer
<1>5. \A j \in PbChunk : ChunkInv(pb, entries, j)
  BY DEF Placed, ChunksInv
<1>6. k \in pb.available /\ pb.current_push[k] = NoPush
  BY <1>1, <1>4, <1>5, PickChunks DEF ChunkInv
<1>7. ASSUME NEW j \in PbChunk \ {k}
      PROVE  ChunkInv(pb', entries', j)
  <2>1. /\ pb'.current_push[j] = pb.current_push[j]
        /\ j \in pb'.available <=> j \in pb.available
        /\ j \in pb'.idle <=> j \in pb.idle
    BY <1>3, <1>4
  <2> QED BY <1>3, <1>4, <1>5, <2>1, ChunkKeeps
<1>8. ChunkInv(pb', entries', k)
  <2>1. push_offset(pb', k) = push_offset(pb, k)
    BY <1>3 DEF push_offset
  <2>2. k \notin pb'.available /\ k \notin pb'.idle
    BY <1>3
  <2> QED BY <1>1, <1>3, <1>4, <1>5, <1>6, <2>1, <2>2 DEF ChunkInv
<1>9. Listing'
  BY <1>3, <1>4 DEF Placed, Listing, listed
<1>10. Owning'
  <2>1. ASSUME NEW u \in Thread \ {t}, builds(th[u])
        PROVE  pb'.current_push[th[u].k] = pb.current_push[th[u].k]
    <3>1. pb.current_push[th[u].k] = u /\ th[u].k \in PbChunk
      BY <2>1 DEF Placed, Owning, Shape, Threads, ThreadRecord
    <3>2. th[u].k # k
      BY <1>6, <3>1, ChannelAssumption
    <3> QED BY <1>3, <1>4, <3>1, <3>2
  <2>2. pb'.current_push[s.k] = t
    BY <1>1, <1>2, <1>3, <1>4
  <2> QED BY <1>2, <2>1, <2>2, OwningMove DEF Placed, Move
<1> QED BY <1>1, <1>7, <1>8, <1>9, <1>10 DEF Placed, ChunksInv

(* A place that no pending entry has.                                      *)
LEMMA FreePlace ==
  ASSUME Shape, RingInv, NEW c \in Channel
  PROVE  entries[c][cpu_put[c]] = no_entry
<1>1. cpu_put[c] \in Index /\ gpu_get[c] \in Index /\ Ring(c)
  BY DEF Shape, Rings, RingInv
<1>2. Filled(entries[c], cpu_put[c], gpu_get[c])
  BY <1>1 DEF Ring, RingOf
<1>3. Ahead(gpu_get[c], cpu_put[c]) \in 0 .. NumEntries - 1
  BY <1>1, AheadFacts
<1>4. Ahead(gpu_get[c], cpu_put[c]) >= Ahead(gpu_get[c], cpu_put[c])
  BY <1>3, Sizes
<1> QED BY <1>1, <1>2, <1>4 DEF Filled

LEMMA ChunkSame ==
  ASSUME NEW k \in PbChunk, ChunkInv(pb, entries, k), UNCHANGED pb,
         \A l \in 1 .. Len(pb.pending[k]) :
           entry_of(entries', pb.pending[k][l]) = entry_of(entries, pb.pending[k][l])
  PROVE  ChunkInv(pb', entries', k)
  BY ChunkKeeps

(* An entry of channel c is written.                                       *)
LEMMA PlaceWritten ==
  ASSUME Shape, NEW c \in Channel, NEW i \in Index, NEW x \in Entry,
         entries' = [entries EXCEPT ![c][i] = x]
  PROVE  /\ \A g \in Place \ {<<c, i>>} : entry_of(entries', g) = entry_of(entries, g)
         /\ entry_of(entries', <<c, i>>) = x /\ entry_of(entries, <<c, i>>) = entries[c][i]
         /\ <<c, i>> \in Place
         /\ Sized(entries', Place)
<1>1. /\ entries' \in [Channel -> [Index -> Entry]] /\ entries'[c] = [entries[c] EXCEPT ![i] = x]
      /\ \A d \in Channel \ {c} : entries'[d] = entries[d]
  BY EntryWritten
<1>2. ASSUME NEW g \in Place, g # <<c, i>>
      PROVE  entry_of(entries', g) = entry_of(entries, g)
  <2>1. PICK d \in Channel, j \in Index : g = <<d, j>>
    BY DEF Place
  <2>2. entries'[d][j] = entries[d][j]
    BY <1>1, <1>2, <2>1 DEF Shape, Rings
  <2> QED BY <2>1, <2>2 DEF entry_of
<1>3. /\ entry_of(entries', <<c, i>>) = x /\ entry_of(entries, <<c, i>>) = entries[c][i]
      /\ <<c, i>> \in Place
  BY <1>1 DEF entry_of, Shape, Rings, Place
<1>4. ASSUME NEW g \in Place
      PROVE  entry_of(entries', g).offset \in Int /\ entry_of(entries', g).size \in Int
  <2>1. PICK d \in Channel, j \in Index : g = <<d, j>>
    BY DEF Place
  <2>2. entries'[d][j] \in Entry
    BY <1>1
  <2> QED BY <2>1, <2>2 DEF entry_of, Entry
<1> QED BY <1>2, <1>3, <1>4 DEF Sized

(* An entry that is no push is written over another one that is none.      *)
LEMMA PlacedWritten ==
  ASSUME Shape, Placed, NEW c \in Channel, NEW i \in Index, NEW x \in Entry, x.type # "NORMAL",
         entries[c][i].type # "NORMAL", entries' = [entries EXCEPT ![c][i] = x], UNCHANGED pb,
         NEW t \in Thread, NEW s \in ThreadRecord, becomes(t, s), ~builds(s)
  PROVE  Placed'
<1>2. \A g \in Place \ {<<c, i>>} : entry_of(entries', g) = entry_of(entries, g)
  BY PlaceWritten
<1>3. /\ entry_of(entries', <<c, i>>) = x /\ entry_of(entries, <<c, i>>) = entries[c][i]
      /\ <<c, i>> \in Place
  BY PlaceWritten, ZenonT(40)
<1>4. ~listed(pb, <<c, i>>)
  BY <1>3 DEF Placed, Listing
<1>5. ASSUME NEW k \in PbChunk
      PROVE  ChunkInv(pb', entries', k)
  <2>1. ChunkInv(pb, entries, k)
    BY DEF Placed, ChunksInv
  <2>2. ASSUME NEW l \in 1 .. Len(pb.pending[k])
        PROVE  entry_of(entries', pb.pending[k][l]) = entry_of(entries, pb.pending[k][l])
    <3>1. listed(pb, pb.pending[k][l])
      BY DEF listed, within
    <3>2. pb.pending[k] \in Seq(Place)
      BY DEF Shape, Others, Buffer
    <3>3. pb.pending[k][l] \in Place
      BY <3>2
    <3> QED BY <1>2, <1>4, <3>1, <3>3
  <2> QED BY <2>1, <2>2, ChunkSame
<1>6. Listing'
  <2>1. ASSUME NEW g \in Place
        PROVE  listed(pb, g) <=> entry_of(entries', g).type = "NORMAL"
    <3>1. CASE g = <<c, i>>
      BY <1>3, <1>4, <3>1
    <3>2. CASE g # <<c, i>>
      BY <1>2, <3>2 DEF Placed, Listing
    <3> QED BY <3>1, <3>2
  <2> QED BY <2>1 DEF Listing
<1>7. Owning'
  BY OwningMove DEF Placed
<1> QED BY <1>5, <1>6, <1>7 DEF Placed, ChunksInv

(* A push is retired, or a control entry.                                  *)
LEMMA PlacedComplete ==
  ASSUME Shape, Placed, NEW t \in Thread, Complete(t)
  PROVE  Placed' /\ pb' \in Buffer /\ pb'.sema = pb.sema
<1>1. PICK c \in Channel :
           /\ entries' = [entries EXCEPT ![c][gpu_get[c]] = no_entry]
           /\ pb' = IF entries[c][gpu_get[c]].type = "NORMAL"
                    THEN pushbuffer_mark_completed(pb, entries, <<c, gpu_get[c]>>) ELSE pb
  BY CompleteRing
<1>2. PICK s \in ThreadRecord : Move(t, s) /\ s.pc = "complete"
  BY CompleteMoves
<1>3. becomes(t, s) /\ ~builds(s)
  BY <1>2 DEF Move, builds
<1>4. no_entry \in Entry /\ no_entry.type = "none" /\ gpu_get[c] \in Index
  BY NoEntry DEF Shape, Rings
<1>5. CASE entries[c][gpu_get[c]].type # "NORMAL"
  BY <1>1, <1>3, <1>4, <1>5, PlacedWritten DEF Shape, Others
<1>6. CASE entries[c][gpu_get[c]].type = "NORMAL"
  <2> DEFINE g == <<c, gpu_get[c]>>
  <2>1. /\ \A h \in Place \ {g} : entry_of(entries', h) = entry_of(entries, h)
        /\ entry_of(entries', g) = no_entry /\ entry_of(entries, g).type = "NORMAL"
        /\ g \in Place
    BY <1>1, <1>4, <1>6, PlaceWritten
  <2>2. pb' = pushbuffer_mark_completed(pb, entries, g)
    BY <1>1, <1>6
  <2> HIDE DEF g
  <2>3. PICK k \in PbChunk : within(pb.pending[k], g)
    BY <2>1 DEF Placed, Listing, listed
  <2>4. PICK r \in 1 .. Len(pb.pending[k]) : pb.pending[k][r] = g
    BY <2>3 DEF within
  <2>5. pb \in Buffers(Place, Thread) /\ Sized(entries, Place) /\ ChunksInv(pb, entries)
        /\ Buffers(Place, Thread) = Buffer
    BY BufferTypes DEF Placed
  <2>6. Marked(pb, pb', Place, Thread, k, g) /\ ChunksInv(pb', entries')
    BY <2>1, <2>2, <2>4, <2>5, MarkCompletedChunks
  <2>7. \A h : listed(pb', h) <=> h # g /\ listed(pb, h)
    BY <2>1, <2>3, <2>5, <2>6, ListedMarked
  <2>8. Listing'
    <3>1. ASSUME NEW h \in Place
          PROVE  listed(pb', h) <=> entry_of(entries', h).type = "NORMAL"
      <4>1. CASE h = g
        BY <1>4, <2>1, <2>7, <4>1
      <4>2. CASE h # g
        BY <2>1, <2>7, <4>2 DEF Placed, Listing
      <4> QED BY <4>1, <4>2
    <3> QED BY <3>1 DEF Listing
  <2>9. pb'.current_push = pb.current_push /\ pb'.sema = pb.sema /\ pb' \in Buffer
    BY <2>5, <2>6 DEF Marked
  <2>10. Owning'
    BY <1>3, <2>9, OwningMove DEF Placed
  <2> QED BY <2>6, <2>8, <2>9, <2>10 DEF Placed
<1> QED BY <1>5, <1>6

(* A push is submitted: it joins the list of the chunk it was built in.    *)
LEMMA PlacedEndPush ==
  ASSUME Shape, Account, RingInv, Placed, NEW t \in Thread, EndPush(t)
  PROVE  Placed' /\ pb' \in Buffer /\ pb'.sema = pb.sema + 1
<1>1. PICK c \in Channel, size \in PushSizes :
           /\ th[t].pc = "end" /\ becomes(t, idle)
           /\ entries' = [entries EXCEPT ![c][cpu_put[c]] = push_entry(t, c, size)]
           /\ pb' = pushbuffer_end_push(pb, entries', <<c, cpu_put[c]>>)
  BY EndPushRing, ZenonT(40)
<1> DEFINE x == push_entry(t, c, size)
           g == <<c, cpu_put[c]>>
           k == th[t].k
<1>2. /\ x \in Entry /\ x.type = "NORMAL" /\ x.offset = push_offset(pb, k) /\ x.size = size
      /\ cpu_put[c] \in Index /\ size \in 1 .. MaxPushSize
  BY PushEntry, ChannelAssumption DEF Shape, Rings
<1>3. entries[c][cpu_put[c]] = no_entry /\ no_entry.type = "none"
  BY FreePlace, NoEntry
<1>4. k \in PbChunk /\ pb.current_push[k] = t /\ t # NoPush
  BY <1>1, ChannelAssumption DEF Placed, Owning, builds, Shape, Threads, ThreadRecord
<1> HIDE DEF x
<1>5. /\ \A h \in Place \ {g} : entry_of(entries', h) = entry_of(entries, h)
      /\ entry_of(entries', g) = x /\ entry_of(entries, g) = no_entry
      /\ g \in Place /\ Sized(entries', Place)
  BY <1>1, <1>2, <1>3, PlaceWritten DEF x
<1>6. pb' = pushbuffer_end_push(pb, entries', g)
  BY <1>1
<1> HIDE DEF g, k
<1>7. pb \in Buffers(Place, Thread) /\ Sized(entries, Place) /\ ChunksInv(pb, entries)
      /\ Buffers(Place, Thread) = Buffer
  BY BufferTypes DEF Placed
<1>8. ~listed(pb, g)
  BY <1>3, <1>5 DEF Placed, Listing
<1>9. ASSUME NEW j \in PbChunk, NEW i \in 1 .. Len(pb.pending[j])
      PROVE  entry_of(entries', pb.pending[j][i]) = entry_of(entries, pb.pending[j][i])
  <2>1. pb.pending[j] \in Seq(Place)
    BY <1>7 DEF Buffers
  <2>2. pb.pending[j][i] \in Place /\ listed(pb, pb.pending[j][i])
    BY <2>1 DEF listed, within
  <2> QED BY <1>5, <1>8, <2>2
<1>10. Ended(pb, pb', Place, Thread, k, g) /\ ChunksInv(pb', entries')
  <2> DEFINE fs == entries'
  <2>1. /\ Sized(fs, Place) /\ entry_of(fs, g).offset = push_offset(pb, k)
        /\ entry_of(fs, g).size \in 1 .. MaxPushSize
        /\ \A j \in PbChunk : \A i \in 1 .. Len(pb.pending[j]) :
             entry_of(fs, pb.pending[j][i]) = entry_of(entries, pb.pending[j][i])
    BY <1>2, <1>5, <1>9
  <2>2. pb' = pushbuffer_end_push(pb, fs, g) /\ g \in Place /\ pb.current_push[k] # NoPush
    BY <1>4, <1>5, <1>6
  <2> HIDE DEF fs
  <2>3. /\ Ended(pb, pushbuffer_end_push(pb, fs, g), Place, Thread, k, g)
        /\ ChunksInv(pushbuffer_end_push(pb, fs, g), fs)
    BY <1>4, <1>7, <2>1, <2>2, EndPushChunks
  <2> QED BY <2>2, <2>3 DEF fs
<1>11. \A h : listed(pb', h) <=> h = g \/ listed(pb, h)
  BY <1>4, <1>5, <1>7, <1>10, ListedEnded
<1>12. Listing'
  <2>1. ASSUME NEW h \in Place
        PROVE  listed(pb', h) <=> entry_of(entries', h).type = "NORMAL"
    <3>1. CASE h = g
      BY <1>2, <1>5, <1>11, <3>1
    <3>2. CASE h # g
      BY <1>5, <1>11, <3>2 DEF Placed, Listing
    <3> QED BY <3>1, <3>2
  <2> QED BY <2>1 DEF Listing
<1>13. Owning'
  <2>1. ASSUME NEW u \in Thread \ {t}, builds(th[u])
        PROVE  pb'.current_push[th[u].k] = pb.current_push[th[u].k]
    <3>1. pb.current_push[th[u].k] = u /\ th[u].k \in PbChunk
      BY <2>1 DEF Placed, Owning, Shape, Threads, ThreadRecord
    <3>2. th[u].k # k /\ pb.current_push \in [PbChunk -> Thread \cup {NoPush}]
      BY <1>4, <1>7, <3>1 DEF Buffers
    <3> QED BY <1>4, <1>10, <3>1, <3>2 DEF Ended
  <2>2. ~builds(idle)
    BY DEF builds, idle
  <2> QED BY <1>1, <2>1, <2>2, IdleRecord, OwningMove DEF Placed
<1> QED BY <1>7, <1>10, <1>12, <1>13 DEF Placed, Ended

LEMMA PlacedWriteCtrl ==
  ASSUME Shape, Account, RingInv, Placed, NEW t \in Thread, WriteCtrl(t)
  PROVE  Placed'
<1>1. PICK c \in Channel :
           /\ entries' = [entries EXCEPT ![c][cpu_put[c]] = control_entry(c)]
           /\ UNCHANGED <<gpu_get, infos, sem, gpu, suspended, lock, pb, tracker, fatal>>
  BY WriteCtrlRing
<1>2. PICK s \in ThreadRecord : Move(t, s) /\ s.pc = "begin"
  BY WriteCtrlMoves
<1>3. becomes(t, s) /\ ~builds(s)
  BY <1>2 DEF Move, builds
<1>4. control_entry(c) \in Entry /\ control_entry(c).type = "CONTROL" /\ cpu_put[c] \in Index
  BY ControlEntry DEF Shape, Rings
<1>5. entries[c][cpu_put[c]].type # "NORMAL"
  BY FreePlace, NoEntry
<1> QED BY <1>1, <1>3, <1>4, <1>5, PlacedWritten

(* The steps of a thread that leave the pushes where they are.             *)
LEMMA PlacedQuiet ==
  ASSUME SuspendsSafely, Shape, Placed, NEW t \in Thread,
         \/ Completed(t) \/ NoErrors(t) \/ CheckErrors(t) \/ ErrorFound(t) \/ ClaimFails(t)
         \/ ClaimFailsAgain(t) \/ NoChunk(t) \/ Wait(t) \/ (TrackerDone(t) /\ at(t, "drain"))
  PROVE  Placed'
<1>1. QuietMove(t)
  BY CompletedMoves, NoErrorsMoves, CheckErrorsMoves, ErrorFoundMoves, ClaimFailsMoves,
     ClaimFailsAgainMoves, NoChunkMoves, WaitMoves, DrainMoves
<1>2. entries' = entries /\ pb' = pb
  BY DEF Completed, NoErrors, CheckErrors, ErrorFound, ClaimFails, ClaimFailsAgain, NoChunk, Wait,
         TrackerDone, ring
<1>3. PICK s \in ThreadRecord : becomes(t, s) /\ Quiet(th[t], s)
  BY <1>1 DEF QuietMove
<1>4. ~builds(s)
  BY <1>3 DEF Quiet, builds, Apart
<1>5. PlacesKept
  BY <1>2 DEF PlacesKept
<1> QED BY <1>2, <1>3, <1>4, <1>5, PlacedKept

LEMMA PlacedRun ==
  ASSUME SuspendsSafely, Shape, Account, RingInv, Placed, NEW t \in Thread, Run(t) \/ Start(t)
  PROVE  Placed'
<1>0. ASSUME NEW s \in ThreadRecord, Move(t, s), pb' = pb, entries' = entries,
             builds(s) => builds(th[t]) /\ s.k = th[t].k
      PROVE  Placed'
  BY <1>0, PlacedKept DEF Move, PlacesKept
<1>1. CASE \/ Completed(t) \/ NoErrors(t) \/ CheckErrors(t) \/ ErrorFound(t) \/ ClaimFails(t)
           \/ ClaimFailsAgain(t) \/ NoChunk(t) \/ Wait(t) \/ (TrackerDone(t) /\ at(t, "drain"))
  BY <1>1, PlacedQuiet
<1>2. CASE Complete(t)
  BY <1>2, PlacedComplete
<1>3. CASE EndPush(t)
  BY <1>3, PlacedEndPush
<1>4. CASE WriteCtrl(t)
  BY <1>4, PlacedWriteCtrl
<1>5. CASE ClaimChunk(t)
  BY <1>5, PlacedClaimChunk
<1>6. CASE Begin(t)
  <2>1. PICK s \in ThreadRecord : Move(t, s) /\ s.pc = "chunk"
    BY <1>6, BeginMoves
  <2>2. entries' = entries /\ PlacesKept
    BY <1>6, BufferSema DEF Begin, ring, PlacesKept, Shape, Others, Buffer
  <2> QED BY <2>1, <2>2, PlacedKept DEF Move, builds
<1>7. CASE BeginFailed(t)
  <2>1. becomes(t, idle) /\ entries' = entries /\ PlacesKept
    BY <1>7, BufferSema DEF BeginFailed, returns, PlacesKept, Shape, Others, Buffer
  <2> QED BY <2>1, IdleRecord, PlacedKept DEF idle, builds
<1>8. CASE GetPushInfo(t)
  <2>1. PICK s \in ThreadRecord : Move(t, s) /\ Same(th[t], s)
    BY <1>8, GetPushInfoMoves
  <2>2. pb' = pb /\ entries' = entries /\ builds(th[t])
    BY <1>8 DEF GetPushInfo, at, builds
  <2> QED BY <1>0, <2>1, <2>2 DEF Same
<1>9. CASE TrackerEntry(t)
  <2>1. PICK s \in ThreadRecord : Move(t, s) /\ s.pc = th[t].pc /\ s.k = th[t].k
    BY <1>9, TrackerEntryMoves
  <2>2. pb' = pb /\ entries' = entries
    BY <1>9 DEF TrackerEntry, ring
  <2> QED BY <1>0, <2>1, <2>2 DEF builds
<1>10. CASE TrackerDone(t) /\ at(t, "acquire")
  <2>1. PICK s \in ThreadRecord : Move(t, s) /\ Same(th[t], s)
    BY <1>10, AcquireMoves
  <2>2. pb' = pb /\ entries' = entries /\ builds(th[t])
    BY <1>10 DEF TrackerDone, at, builds, ring
  <2> QED BY <1>0, <2>1, <2>2 DEF Same
<1>11. CASE UpdateValue(t)
  <2>1. PICK s \in ThreadRecord : Move(t, s) /\ s.pc = "complete"
    BY <1>11, UpdateValueMoves
  <2>2. pb' = pb /\ entries' = entries
    BY <1>11 DEF UpdateValue, ring
  <2> QED BY <1>0, <2>1, <2>2 DEF builds
<1>12. CASE Claim(t)
  <2>1. PICK s \in ThreadRecord : Move(t, s) /\ (s = idle \/ s.pc \in {"begin", "write", "suspend"})
    BY <1>12, ClaimMoves
  <2>2. pb' = pb /\ entries' = entries
    BY <1>12 DEF Claim
  <2>3. ~builds(s)
    BY <2>1 DEF builds, idle
  <2> QED BY <1>0, <2>1, <2>2, <2>3
<1>13. CASE Suspend(t)
  <2>1. PICK s \in ThreadRecord : Move(t, s) /\ s.pc = "release"
    BY <1>13, SuspendMoves
  <2>2. pb' = pb /\ entries' = entries
    BY <1>13 DEF Suspend, ring
  <2> QED BY <1>0, <2>1, <2>2 DEF builds
<1>14. CASE SuspendRelease(t)
  <2>1. PICK s \in ThreadRecord : Move(t, s) /\ s.pc \in {"claim", "idle"}
    BY <1>14, SuspendReleaseMoves
  <2>2. pb' = pb /\ entries' = entries
    BY <1>14 DEF SuspendRelease
  <2> QED BY <1>0, <2>1, <2>2 DEF builds
<1>15. CASE Start(t)
  <2>1. unchanged /\ \E s \in ThreadRecord : Move(t, s) /\ Starting(s)
    BY <1>15, StartMoves
  <2>2. PICK s \in ThreadRecord : Move(t, s) /\ Starting(s)
    BY <2>1
  <2>3. pb' = pb /\ entries' = entries
    BY <2>1 DEF unchanged, ring
  <2> QED BY <1>0, <2>2, <2>3 DEF builds, Starting
<1>16. TrackerDone(t) => at(t, "drain") \/ at(t, "acquire")
  BY DEF TrackerDone, at
<1> QED BY <1>1, <1>2, <1>3, <1>4, <1>5, <1>6, <1>7, <1>8, <1>9, <1>10, <1>11, <1>12, <1>13,
           <1>14, <1>15, <1>16 DEF Run

(* The threads and the GPU leave the pushes where they are.                *)
LEMMA PlacedElse ==
  ASSUME Placed, UNCHANGED <<pb, entries, th>>
  PROVE  Placed'
  BY DEF Placed, Listing, Owning

-----------------------------------------------------------------------------
(* The types, after a step of a thread.                                    *)

LEMMA MovesRun ==
  ASSUME SuspendsSafely, Shape, NEW t \in Thread, Run(t) \/ Start(t)
  PROVE  /\ \E s \in ThreadRecord : Move(t, s)
         /\ fatal' = fatal \/ (fatal' = TRUE /\ "rc" \in Faults)
<1>1. CASE ErrorFound(t)
  BY <1>1, ErrorFoundMoves DEF ErrorFound, QuietMove, Move
<1>2. CASE \/ Completed(t) \/ NoErrors(t) \/ CheckErrors(t) \/ ClaimFails(t)
           \/ ClaimFailsAgain(t) \/ Begin(t) \/ ClaimChunk(t) \/ NoChunk(t) \/ TrackerDone(t)
           \/ Suspend(t) \/ Wait(t) \/ Start(t)
  <2>1. Calm(t)
    BY <1>2, CalmActions
  <2>2. fatal' = fatal
    BY <1>2 DEF Completed, NoErrors, CheckErrors, ClaimFails, ClaimFailsAgain, Begin, ClaimChunk,
                NoChunk, TrackerDone, Suspend, Wait, Start, StartPush, StartCtrl, StartSuspend,
                StartWait, StartDrain, unchanged
  <2> QED BY <2>1, <2>2 DEF Calm
<1>3. CASE UpdateValue(t)
  BY <1>3, UpdateValueMoves
<1>4. CASE Complete(t)
  BY <1>4, CompleteMoves
<1>5. CASE Claim(t)
  BY <1>5, ClaimMoves, SMTT(40)
<1>6. CASE BeginFailed(t) \/ EndPush(t)
  BY <1>6, ReturnMoves, IdleRecord DEF BeginFailed, EndPush, returns
<1>7. CASE GetPushInfo(t)
  BY <1>7, GetPushInfoMoves
<1>8. CASE TrackerEntry(t)
  BY <1>8, TrackerEntryMoves
<1>9. CASE WriteCtrl(t)
  BY <1>9, WriteCtrlMoves
<1>10. CASE SuspendRelease(t)
  BY <1>10, SuspendReleaseMoves
<1> QED BY <1>1, <1>2, <1>3, <1>4, <1>5, <1>6, <1>7, <1>8, <1>9, <1>10 DEF Run

LEMMA ThreadsRun ==
  ASSUME SuspendsSafely, Shape, NEW t \in Thread, Run(t) \/ Start(t)
  PROVE  Threads' /\ fatal' \in BOOLEAN /\ (fatal' => "rc" \in Faults)
<1>1. PICK s \in ThreadRecord : Move(t, s)
  BY MovesRun
<1>2. fatal' = fatal \/ (fatal' = TRUE /\ "rc" \in Faults)
  BY MovesRun
<1>3. fatal \in BOOLEAN /\ (fatal => "rc" \in Faults)
  BY DEF Shape, Others
<1>4. Threads'
  BY <1>1, <1>2, ThreadStep DEF Shape, Move
<1>5. CASE fatal' = fatal
  BY <1>3, <1>4, <1>5
<1>6. CASE fatal' = TRUE /\ "rc" \in Faults
  BY <1>4, <1>6
<1> QED BY <1>2, <1>5, <1>6

(* A counter of a channel that wraps around.                               *)
LEMMA CountType ==
  ASSUME Rings, NEW c \in Channel, NEW n \in Int, count' = [count EXCEPT ![c] = n % CountMod]
  PROVE  count' \in [Channel -> Nat]
<1>1. n % CountMod \in Nat
  BY Sizes
<1> QED BY <1>1 DEF Rings

LEMMA RingsRun ==
  ASSUME SuspendsSafely, Shape, Account, NEW t \in Thread, Run(t) \/ Start(t)
  PROVE  Rings'
<1>0. Rings /\ NumEntries \in Int /\ \A c \in Channel : count[c] \in Int /\ infos[c] \in Int
  BY Sizes DEF Shape, Rings
<1>1. CASE \/ Completed(t) \/ NoErrors(t) \/ CheckErrors(t) \/ ErrorFound(t) \/ ClaimFails(t)
           \/ ClaimFailsAgain(t) \/ Begin(t) \/ ClaimChunk(t) \/ NoChunk(t) \/ TrackerDone(t)
           \/ Suspend(t) \/ Wait(t) \/ Start(t)
  BY <1>0, <1>1, CalmActions DEF Calm, ring, Rings
<1>2. CASE UpdateValue(t) \/ TrackerEntry(t)
  BY <1>0, <1>2 DEF UpdateValue, TrackerEntry, ring, Rings
<1>3. CASE Complete(t)
  <2>1. PICK c \in Channel :
           /\ gpu_get[c] # cpu_put[c]
           /\ entries' = [entries EXCEPT ![c][gpu_get[c]] = no_entry]
           /\ gpu_get' = [gpu_get EXCEPT ![c] = (gpu_get[c] + 1) % NumEntries]
           /\ infos' = IF entries[c][gpu_get[c]].type = "NORMAL"
                       THEN [infos EXCEPT ![c] = infos[c] + 1] ELSE infos
           /\ cpu_put' = cpu_put /\ count' = count
    BY <1>3, CompleteRing
  <2>2. gpu_get' \in [Channel -> Index]
    BY <2>1, GetMoves
  <2>3. entries' \in [Channel -> [Index -> Entry]]
    <3>1. gpu_get[c] \in Index
      BY <1>0 DEF Rings
    <3> QED BY <2>1, <3>1, EntryWritten, NoEntry
  <2>4. infos' \in [Channel -> Int]
    <3>1. infos[c] + 1 \in Int
      BY <1>0
    <3> QED BY <1>0, <2>1, <3>1 DEF Rings
  <2> QED BY <1>0, <2>1, <2>2, <2>3, <2>4 DEF Rings
<1>4. CASE Claim(t)
  <2>1. th[t].up \in Channel /\ num_entries(t) \in 1 .. NumEntries - 1
    BY <1>4, ClaimMoves
  <2>2. PICK c \in Channel : c = th[t].up
    BY <2>1
  <2>3. count' = [count EXCEPT ![c] = (count[c] + num_entries(t)) % CountMod]
    BY <1>4, <2>2 DEF Claim
  <2>4. count[c] + num_entries(t) \in Int
    BY <1>0, <2>1
  <2>5. count' \in [Channel -> Nat]
    BY <1>0, <2>3, <2>4, CountType
  <2> QED BY <1>0, <1>4, <2>5 DEF Claim, Rings
<1>5. CASE BeginFailed(t)
  <2>1. PICK c \in Channel : c = th[t].ch
    BY <1>5, PushState DEF BeginFailed, at, Pushing, Pushes
  <2>2. count' = [count EXCEPT ![c] = (count[c] - 1) % CountMod]
    BY <1>5, <2>1 DEF BeginFailed
  <2>3. count[c] - 1 \in Int
    BY <1>0
  <2>4. count' \in [Channel -> Nat]
    BY <1>0, <2>2, <2>3, CountType
  <2> QED BY <1>0, <1>5, <2>4 DEF BeginFailed, Rings
<1>6. CASE GetPushInfo(t)
  <2>1. PICK c \in Channel : c = th[t].ch
    BY <1>6, GetPushInfoMoves DEF Pushes
  <2>2. infos' = [infos EXCEPT ![c] = infos[c] - 1]
    BY <1>6, <2>1 DEF GetPushInfo
  <2>3. infos[c] - 1 \in Int
    BY <1>0
  <2> QED BY <1>0, <1>6, <2>2, <2>3 DEF GetPushInfo, Rings
<1>7. ASSUME NEW c \in Channel, NEW x \in Entry, entries' = [entries EXCEPT ![c][cpu_put[c]] = x],
             count' = [count EXCEPT ![c] = (count[c] - 1) % CountMod],
             cpu_put' = [cpu_put EXCEPT ![c] = (cpu_put[c] + 1) % NumEntries],
             gpu_get' = gpu_get, infos' = infos, pending(c) < NumEntries - 1
      PROVE  Rings'
  <2>1. cpu_put[c] \in Index
    BY <1>0 DEF Rings
  <2>2. entries' \in [Channel -> [Index -> Entry]]
    BY <1>7, <2>1, EntryWritten
  <2>3. cpu_put' \in [Channel -> Index]
    BY <1>7, PutMoves
  <2>4. count[c] - 1 \in Int
    BY <1>0
  <2>5. count' \in [Channel -> Nat]
    BY <1>0, <1>7, <2>4, CountType
  <2> QED BY <1>0, <1>7, <2>2, <2>3, <2>5 DEF Rings
<1>8. CASE EndPush(t)
  <2>1. PICK c \in Channel, size \in PushSizes :
           /\ entries' = [entries EXCEPT ![c][cpu_put[c]] = push_entry(t, c, size)]
           /\ count' = [count EXCEPT ![c] = (count[c] - 1) % CountMod]
           /\ cpu_put' = [cpu_put EXCEPT ![c] = (cpu_put[c] + 1) % NumEntries]
           /\ gpu_get' = gpu_get /\ infos' = infos
           /\ pending(c) < NumEntries - 1
    BY <1>8, EndPushRing
  <2>2. push_entry(t, c, size) \in Entry
    BY PushEntry
  <2> QED BY <1>7, <2>1, <2>2
<1>9. CASE WriteCtrl(t)
  <2>1. PICK c \in Channel :
           /\ entries' = [entries EXCEPT ![c][cpu_put[c]] = control_entry(c)]
           /\ count' = [count EXCEPT ![c] = (count[c] - 1) % CountMod]
           /\ cpu_put' = [cpu_put EXCEPT ![c] = (cpu_put[c] + 1) % NumEntries]
           /\ gpu_get' = gpu_get /\ infos' = infos
           /\ pending(c) < NumEntries - 1
    BY <1>9, WriteCtrlRing
  <2>2. control_entry(c) \in Entry
    BY ControlEntry
  <2> QED BY <1>7, <2>1, <2>2
<1>10. CASE SuspendRelease(t)
  <2>1. PICK c \in Channel : c = th[t].ch
    BY <1>10, SuspendReleaseMoves
  <2>2. count' = [count EXCEPT ![c] = (count[c] - (NumEntries - 1)) % CountMod]
    BY <1>10, <2>1 DEF SuspendRelease
  <2>3. count[c] - (NumEntries - 1) \in Int
    BY <1>0
  <2>4. count' \in [Channel -> Nat]
    BY <1>0, <2>2, <2>3, CountType
  <2> QED BY <1>0, <1>10, <2>4 DEF SuspendRelease, Rings
<1> QED BY <1>1, <1>2, <1>3, <1>4, <1>5, <1>6, <1>8, <1>9, <1>10 DEF Run

LEMMA SemaphoresRun ==
  ASSUME SuspendsSafely, Shape, Account, RingInv, NEW t \in Thread, Run(t) \/ Start(t)
  PROVE  Semaphores'
<1>0. /\ Semaphores /\ [c \in Channel |-> 0] \in [Channel -> Nat]
      /\ \A c \in Channel : [tracker EXCEPT ![c] = 0] \in [Channel -> Nat]
  BY DEF Shape, Semaphores
<1>1. CASE \/ Completed(t) \/ NoErrors(t) \/ CheckErrors(t) \/ ErrorFound(t) \/ ClaimFails(t)
           \/ ClaimFailsAgain(t) \/ Begin(t) \/ ClaimChunk(t) \/ NoChunk(t) \/ TrackerDone(t)
           \/ Suspend(t) \/ Wait(t) \/ Start(t)
  <2>1. UNCHANGED <<queued, completed, released, executed>>
    BY <1>1, CalmActions, SMTT(40) DEF Calm, sem
  <2>2. tracker' = tracker \/ tracker' = [c \in Channel |-> 0]
    BY <1>1 DEF Completed, NoErrors, CheckErrors, ErrorFound, ClaimFails, ClaimFailsAgain, Begin,
                ClaimChunk, NoChunk, TrackerDone, Suspend, Wait, Start, StartPush, StartCtrl,
                StartSuspend, StartWait, StartDrain, unchanged, clear_tracker
  <2> QED BY <1>0, <2>1, <2>2 DEF Semaphores
<1>2. CASE UpdateValue(t)
  <2>1. th[t].up \in Channel /\ completed' = update_completed(th[t].up)
    BY <1>2, UpdateValueMoves
  <2>2. completed' \in [Channel -> Nat]
    BY <2>1, CompletedType
  <2> QED BY <1>0, <1>2, <2>2 DEF UpdateValue, gpu, Semaphores
<1>3. CASE TrackerEntry(t)
  <2>1. PICK c \in Channel :
             /\ completed' = looked_at(c, tracker[c])
             /\ tracker' = IF is_value_completed(c, tracker[c]) THEN [tracker EXCEPT ![c] = 0]
                           ELSE tracker
    BY <1>3, TrackerEntryMoves
  <2>2. completed' \in [Channel -> Nat]
    BY <1>0, <2>1, CompletedType DEF looked_at, Semaphores
  <2>3. tracker' \in [Channel -> Nat]
    BY <1>0, <2>1, SMTT(40) DEF Semaphores
  <2> QED BY <1>0, <1>3, <2>2, <2>3 DEF TrackerEntry, gpu, Semaphores
<1>4. CASE Complete(t) \/ Claim(t) \/ BeginFailed(t) \/ GetPushInfo(t) \/ WriteCtrl(t) \/ SuspendRelease(t)
  BY <1>0, <1>4 DEF Complete, Claim, BeginFailed, GetPushInfo, WriteCtrl, SuspendRelease, sem, gpu,
                    Semaphores
<1>5. CASE EndPush(t)
  <2>1. PICK c \in Channel, size \in PushSizes :
           /\ queued' = [queued EXCEPT ![c] = queued[c] + 1]
           /\ tracker' = IF th[t].tracked /\ tracker[c] < queued'[c]
                         THEN [tracker EXCEPT ![c] = queued'[c]] ELSE tracker
           /\ UNCHANGED <<gpu_get, infos, completed, gpu, suspended, lock, fatal>>
    BY <1>5, EndPushRing
  <2>2. queued' \in [Channel -> Nat]
    BY <1>0, <2>1 DEF Semaphores
  <2>3. tracker' \in [Channel -> Nat]
    <3>1. tracker' = tracker \/ tracker' = [tracker EXCEPT ![c] = queued'[c]]
      BY <2>1
    <3>2. queued'[c] \in Nat
      BY <2>2
    <3> QED BY <1>0, <3>1, <3>2 DEF Semaphores
  <2> QED BY <1>0, <2>1, <2>2, <2>3 DEF gpu, Semaphores
<1> QED BY <1>1, <1>2, <1>3, <1>4, <1>5 DEF Run

LEMMA OthersRun ==
  ASSUME SuspendsSafely, Shape, Account, RingInv, Placed, NEW t \in Thread, Run(t) \/ Start(t)
  PROVE  Others'
<1>0. /\ Others /\ fatal' \in BOOLEAN /\ (fatal' => "rc" \in Faults)
  BY ThreadsRun, SMTT(40) DEF Shape
<1>1. error' = error
  BY DEF Run, Completed, NoErrors, CheckErrors, ErrorFound, ClaimFails, ClaimFailsAgain, Begin,
         ClaimChunk, NoChunk, TrackerDone, Suspend, Wait, Start, StartPush, StartCtrl,
         StartSuspend, StartWait, StartDrain, unchanged, UpdateValue, Complete, Claim, BeginFailed,
         GetPushInfo, TrackerEntry, EndPush, WriteCtrl, SuspendRelease, gpu
<1>2. pb' \in Buffer
  <2>1. CASE \/ Completed(t) \/ NoErrors(t) \/ CheckErrors(t) \/ ErrorFound(t) \/ ClaimFails(t)
             \/ ClaimFailsAgain(t) \/ Begin(t) \/ ClaimChunk(t) \/ NoChunk(t) \/ TrackerDone(t)
             \/ Suspend(t) \/ Wait(t) \/ Start(t)
    BY <2>1, CalmActions DEF Calm, BufferKeeps
  <2>2. CASE Complete(t)
    BY <2>2, PlacedComplete
  <2>3. CASE EndPush(t)
    BY <2>3, PlacedEndPush
  <2>4. CASE BeginFailed(t)
    <3>1. pb.sema + 1 \in Int /\ pb' = [pb EXCEPT !.sema = pb.sema + 1]
      BY <1>0, <2>4 DEF BeginFailed, Others, Buffer
    <3> QED BY <3>1, BufferSema
  <2>5. CASE UpdateValue(t) \/ Claim(t) \/ GetPushInfo(t) \/ TrackerEntry(t) \/ WriteCtrl(t) \/ SuspendRelease(t)
    BY <1>0, <2>5 DEF UpdateValue, Claim, GetPushInfo, TrackerEntry, WriteCtrl, SuspendRelease, Others
  <2> QED BY <2>1, <2>2, <2>3, <2>4, <2>5 DEF Run
<1>3. suspended' \in [Channel -> BOOLEAN]
  <2>1. CASE Suspend(t)
    BY <1>0, <2>1 DEF Suspend, Others
  <2>2. CASE SuspendRelease(t)
    BY <1>0, <2>2, SuspendReleaseMoves DEF Others
  <2>3. CASE ~Suspend(t) /\ ~SuspendRelease(t)
    <3>1. suspended' = suspended
      BY <2>3 DEF Run, Completed, NoErrors, CheckErrors, ErrorFound, ClaimFails, ClaimFailsAgain,
           Begin, ClaimChunk, NoChunk, TrackerDone, Wait, Start, StartPush, StartCtrl,
           StartSuspend, StartWait, StartDrain, unchanged, UpdateValue, Complete, Claim,
           BeginFailed, GetPushInfo, TrackerEntry, EndPush, WriteCtrl
    <3> QED BY <1>0, <3>1 DEF Others
  <2> QED BY <2>1, <2>2, <2>3
<1>4. lock' \in [Pool -> Thread \cup {NoThread}]
  <2>1. CASE Complete(t)
    BY <1>0, <2>1 DEF Complete, Others
  <2>2. CASE Completed(t)
    BY <1>0, <2>2 DEF Completed, Others
  <2>3. CASE ~Complete(t) /\ ~Completed(t)
    <3>1. lock' = lock
      BY <2>3 DEF Run, NoErrors, CheckErrors, ErrorFound, ClaimFails, ClaimFailsAgain,
           Begin, ClaimChunk, NoChunk, TrackerDone, Wait, Start, StartPush, StartCtrl, Suspend,
           StartSuspend, StartWait, StartDrain, unchanged, UpdateValue, Claim, SuspendRelease,
           BeginFailed, GetPushInfo, TrackerEntry, EndPush, WriteCtrl
    <3> QED BY <1>0, <3>1 DEF Others
  <2> QED BY <2>1, <2>2, <2>3
<1> QED BY <1>0, <1>1, <1>2, <1>3, <1>4 DEF Others

LEMMA ShapeRun ==
  ASSUME SuspendsSafely, Shape, Account, RingInv, Placed, NEW t \in Thread, Run(t) \/ Start(t)
  PROVE  Shape'
  BY RingsRun, SemaphoresRun, OthersRun, ThreadsRun DEF Shape

-----------------------------------------------------------------------------
(* The push infos.                                                         *)

(* Two finite sets that differ in one element at most.                     *)
LEMMA OneElement ==
  ASSUME NEW S, IsFiniteSet(S), NEW T, NEW x, \A y : y # x => (y \in T <=> y \in S)
  PROVE  /\ IsFiniteSet(T) /\ Cardinality(S) \in Nat /\ Cardinality(T) \in Nat
         /\ (x \in S <=> x \in T) => Cardinality(T) = Cardinality(S)
         /\ x \in S /\ x \notin T => Cardinality(T) = Cardinality(S) - 1
         /\ x \notin S /\ x \in T => Cardinality(T) = Cardinality(S) + 1
<1>1. CASE x \in S <=> x \in T
  <2>1. T = S
    BY <1>1
  <2> QED BY <1>1, <2>1, FS_CardinalityType
<1>2. CASE x \in S /\ x \notin T
  <2>1. T = S \ {x}
    BY <1>2
  <2>2. IsFiniteSet(T) /\ Cardinality(T) = Cardinality(S) - 1
    BY <1>2, <2>1, FS_RemoveElement
  <2> QED BY <1>2, <2>2, FS_CardinalityType
<1>3. CASE x \notin S /\ x \in T
  <2>1. T = S \cup {x}
    BY <1>3
  <2>2. IsFiniteSet(T) /\ Cardinality(T) = Cardinality(S) + 1
    BY <1>3, <2>1, FS_AddElement
  <2> QED BY <1>3, <2>2, FS_CardinalityType
<1> QED BY <1>1, <1>2, <1>3

(* The pending pushes of a channel, and those that have their push info.   *)
busy(c) == {g \in live : g[1] = c}

sending(c) == {t \in building : th[t].ch = c /\ ~at(t, "info")}

Infos == \A c \in Channel : infos[c] = NumEntries - Cardinality(busy(c)) - Cardinality(sending(c))

LEMMA InfosFinite ==
  ASSUME NEW c \in Channel
  PROVE  /\ IsFiniteSet(busy(c)) /\ IsFiniteSet(sending(c))
         /\ Cardinality(busy(c)) \in Nat /\ Cardinality(sending(c)) \in Nat
<1>1. IsFiniteSet(Channel) /\ IsFiniteSet(Index)
  BY Sizes, FS_Interval DEF Index
<1>2. IsFiniteSet(Channel \X Index) /\ IsFiniteSet(Thread)
  BY <1>1, FS_Product, ChannelAssumption
<1>3. busy(c) \in SUBSET (Channel \X Index) /\ sending(c) \in SUBSET Thread
  BY DEF busy, sending, live, building
<1>4. IsFiniteSet(busy(c)) /\ IsFiniteSet(sending(c))
  BY <1>2, <1>3, FS_Subset
<1> QED BY <1>4, FS_CardinalityType

(* A thread joins or leaves those that have a push info of channel c.      *)
sends(r, c) == committed(r) /\ r.ch = c

LEMMA SendingStep ==
  ASSUME Shape, NEW t \in Thread, NEW s \in ThreadRecord, becomes(t, s), NEW c \in Channel
  PROVE  /\ \A u : u # t => (u \in sending(c)' <=> u \in sending(c))
         /\ t \in sending(c) <=> sends(th[t], c)
         /\ t \in sending(c)' <=> sends(s, c)
<1>1. th'[t] = s /\ \A u \in Thread \ {t} : th'[u] = th[u]
  BY DEF becomes, Shape, Threads
<1>2. \A u \in Thread : u \in sending(c) <=> sends(th[u], c)
  BY DEF sending, building, at, sends, committed
<1>3. \A u \in Thread : u \in sending(c)' <=> sends(th'[u], c)
  BY DEF sending, building, at, sends, committed
<1>4. \A u : (u \in sending(c) => u \in Thread) /\ (u \in sending(c)' => u \in Thread)
  BY DEF sending, building
<1> QED BY <1>1, <1>2, <1>3, <1>4

(* An entry of channel c is written.                                       *)
LEMMA BusyStep ==
  ASSUME Shape, NEW c \in Channel, NEW i \in Index, NEW x \in Entry,
         entries' = [entries EXCEPT ![c][i] = x], NEW d \in Channel
  PROVE  /\ \A g : g # <<c, i>> => (g \in busy(d)' <=> g \in busy(d))
         /\ <<c, i>> \in busy(d) <=> d = c /\ entries[c][i].type = "NORMAL"
         /\ <<c, i>> \in busy(d)' <=> d = c /\ x.type = "NORMAL"
<1>1. /\ \A g \in Place \ {<<c, i>>} : entry_of(entries', g) = entry_of(entries, g)
      /\ entry_of(entries', <<c, i>>) = x /\ entry_of(entries, <<c, i>>) = entries[c][i]
      /\ <<c, i>> \in Place
  BY PlaceWritten
<1>2. \A g : g \in busy(d) <=> g \in Place /\ entry_of(entries, g).type = "NORMAL" /\ g[1] = d
  BY DEF busy, live, Place
<1>3. \A g : g \in busy(d)' <=> g \in Place /\ entry_of(entries', g).type = "NORMAL" /\ g[1] = d
  BY DEF busy, live, Place
<1>4. <<c, i>>[1] = c
  OBVIOUS
<1> QED BY <1>1, <1>2, <1>3, <1>4

(* Nothing changes.                                                        *)
LEMMA InfosKeep ==
  ASSUME Shape, Infos, NEW t \in Thread, NEW s \in ThreadRecord, becomes(t, s),
         \A c \in Channel : sends(s, c) <=> sends(th[t], c),
         infos' = infos, \A c \in Channel : busy(c)' = busy(c)
  PROVE  Infos'
<1>1. ASSUME NEW c \in Channel
      PROVE  sending(c)' = sending(c)
  BY <1>1, SendingStep
<1> QED BY <1>1 DEF Infos

LEMMA BusySame ==
  ASSUME entries' = entries, NEW c
  PROVE  busy(c)' = busy(c)
  BY DEF busy, live

(* A push takes its info.                                                  *)
LEMMA InfosGet ==
  ASSUME Shape, Infos, NEW t \in Thread, GetPushInfo(t)
  PROVE  Infos'
<1>1. PICK s \in ThreadRecord : Move(t, s) /\ Same(th[t], s) /\ s.pc \in {"acquire", "end"}
  BY GetPushInfoMoves
<1>2. PICK c \in Channel : c = th[t].ch /\ th[t].pc = "info"
  BY GetPushInfoMoves DEF Pushes
<1>3. infos' = [infos EXCEPT ![c] = infos[c] - 1] /\ entries' = entries
  BY <1>2 DEF GetPushInfo
<1>4. ASSUME NEW d \in Channel
      PROVE  infos'[d] = NumEntries - Cardinality(busy(d)') - Cardinality(sending(d)')
  <2>1. /\ \A u : u # t => (u \in sending(d)' <=> u \in sending(d))
        /\ t \in sending(d) <=> sends(th[t], d)
        /\ t \in sending(d)' <=> sends(s, d)
    BY <1>1, SendingStep DEF Move
  <2>2. IsFiniteSet(sending(d)) /\ Cardinality(busy(d)) \in Nat
    BY InfosFinite
  <2>3. ~sends(th[t], d) /\ (sends(s, d) <=> d = c)
    BY <1>1, <1>2 DEF sends, committed, Same
  <2>4. /\ Cardinality(sending(d)) \in Nat
        /\ Cardinality(sending(d)') = Cardinality(sending(d)) + IF d = c THEN 1 ELSE 0
    BY <2>1, <2>2, <2>3, OneElement
  <2>5. busy(d)' = busy(d) /\ infos[d] = NumEntries - Cardinality(busy(d)) - Cardinality(sending(d))
    BY <1>3, BusySame DEF Infos
  <2>6. infos'[d] = IF d = c THEN infos[d] - 1 ELSE infos[d]
    BY <1>3 DEF Shape, Rings
  <2> QED BY <2>2, <2>4, <2>5, <2>6, Sizes
<1> QED BY <1>4 DEF Infos

(* The push is submitted with its info.                                    *)
LEMMA InfosEndPush ==
  ASSUME Shape, Account, RingInv, Infos, NEW t \in Thread, EndPush(t)
  PROVE  Infos'
<1>1. PICK c \in Channel, size \in PushSizes :
           /\ c = th[t].ch /\ th[t].pc = "end" /\ becomes(t, idle)
           /\ entries' = [entries EXCEPT ![c][cpu_put[c]] = push_entry(t, c, size)]
           /\ pb' = pushbuffer_end_push(pb, entries', <<c, cpu_put[c]>>)
  BY EndPushRing
<1>i. infos' = infos
  BY DEF EndPush
<1>2. push_entry(t, c, size) \in Entry /\ push_entry(t, c, size).type = "NORMAL"
  BY PushEntry
<1>3. cpu_put[c] \in Index /\ entries[c][cpu_put[c]].type # "NORMAL"
  BY FreePlace, NoEntry DEF Shape, Rings
<1>4. ASSUME NEW d \in Channel
      PROVE  infos'[d] = NumEntries - Cardinality(busy(d)') - Cardinality(sending(d)')
  <2>1. /\ \A u : u # t => (u \in sending(d)' <=> u \in sending(d))
        /\ t \in sending(d) <=> sends(th[t], d)
        /\ t \in sending(d)' <=> sends(idle, d)
    BY <1>1, IdleRecord, SendingStep
  <2>2. IsFiniteSet(sending(d)) /\ IsFiniteSet(busy(d))
    BY InfosFinite
  <2>3. (sends(th[t], d) <=> d = c) /\ ~sends(idle, d)
    BY <1>1 DEF sends, committed, idle
  <2>4. /\ Cardinality(sending(d)) \in Nat
        /\ Cardinality(sending(d)') = Cardinality(sending(d)) - IF d = c THEN 1 ELSE 0
    BY <2>1, <2>2, <2>3, OneElement
  <2> DEFINE g == <<c, cpu_put[c]>>
  <2>5. /\ \A h : h # g => (h \in busy(d)' <=> h \in busy(d))
        /\ g \notin busy(d) /\ (g \in busy(d)' <=> d = c)
    BY <1>1, <1>2, <1>3, BusyStep, ZenonT(40)
  <2> HIDE DEF g
  <2>6. /\ Cardinality(busy(d)) \in Nat
        /\ Cardinality(busy(d)') = Cardinality(busy(d)) + IF d = c THEN 1 ELSE 0
    BY <2>2, <2>5, OneElement
  <2>7. infos[d] = NumEntries - Cardinality(busy(d)) - Cardinality(sending(d)) /\ infos'[d] = infos[d]
    BY <1>i DEF Infos
  <2> QED BY <2>4, <2>6, <2>7, Sizes
<1> QED BY <1>4 DEF Infos

(* A retired push gives its info back.                                     *)
LEMMA InfosComplete ==
  ASSUME Shape, Infos, NEW t \in Thread, Complete(t)
  PROVE  Infos'
<1>1. PICK c \in Channel :
           /\ th[t].pc = "complete"
           /\ entries' = [entries EXCEPT ![c][gpu_get[c]] = no_entry]
           /\ infos' = IF entries[c][gpu_get[c]].type = "NORMAL"
                       THEN [infos EXCEPT ![c] = infos[c] + 1] ELSE infos
  BY CompleteRing
<1>2. PICK s \in ThreadRecord : Move(t, s) /\ s.pc = "complete"
  BY CompleteMoves
<1>3. gpu_get[c] \in Index /\ no_entry \in Entry /\ no_entry.type = "none"
  BY NoEntry DEF Shape, Rings
<1>4. ASSUME NEW d \in Channel
      PROVE  infos'[d] = NumEntries - Cardinality(busy(d)') - Cardinality(sending(d)')
  <2> DEFINE gone == d = c /\ entries[c][gpu_get[c]].type = "NORMAL"
             g == <<c, gpu_get[c]>>
  <2>1. sending(d)' = sending(d)
    BY <1>1, <1>2, SendingStep DEF Move, sends, committed
  <2>2. IsFiniteSet(busy(d)) /\ Cardinality(sending(d)) \in Nat
    BY InfosFinite
  <2>3. /\ \A h : h # g => (h \in busy(d)' <=> h \in busy(d))
        /\ g \notin busy(d)' /\ (g \in busy(d) <=> gone)
    <3> DEFINE x == no_entry
    <3>1. x \in Entry /\ x.type # "NORMAL" /\ entries' = [entries EXCEPT ![c][gpu_get[c]] = x]
      BY <1>1, <1>3
    <3> HIDE DEF x
    <3>2. /\ \A h : h # g => (h \in busy(d)' <=> h \in busy(d))
          /\ g \in busy(d) <=> d = c /\ entries[c][gpu_get[c]].type = "NORMAL"
          /\ g \in busy(d)' <=> d = c /\ x.type = "NORMAL"
      BY <1>3, <3>1, BusyStep, ZenonT(40)
    <3> QED BY <3>1, <3>2, Zenon
  <2>4. /\ Cardinality(busy(d)) \in Nat
        /\ Cardinality(busy(d)') = Cardinality(busy(d)) - IF gone THEN 1 ELSE 0
    <3> HIDE DEF g, gone
    <3> QED BY <2>2, <2>3, OneElement
  <2>5. infos'[d] = infos[d] + IF gone THEN 1 ELSE 0
    BY <1>1 DEF Shape, Rings
  <2>6. infos[d] = NumEntries - Cardinality(busy(d)) - Cardinality(sending(d))
    BY DEF Infos
  <2> HIDE DEF gone
  <2> QED BY <2>1, <2>2, <2>4, <2>5, <2>6, Sizes
<1> QED BY <1>4 DEF Infos

LEMMA InfosWriteCtrl ==
  ASSUME Shape, Account, RingInv, Infos, NEW t \in Thread, WriteCtrl(t)
  PROVE  Infos'
<1>1. PICK c \in Channel :
           /\ th[t].pc = "write"
           /\ entries' = [entries EXCEPT ![c][cpu_put[c]] = control_entry(c)]
           /\ infos' = infos
  BY WriteCtrlRing
<1>2. PICK s \in ThreadRecord : Move(t, s) /\ s.pc = "begin"
  BY WriteCtrlMoves
<1>3. control_entry(c) \in Entry /\ control_entry(c).type = "CONTROL" /\ cpu_put[c] \in Index
  BY ControlEntry DEF Shape, Rings
<1>4. entries[c][cpu_put[c]].type # "NORMAL"
  BY FreePlace, NoEntry
<1>5. ASSUME NEW d \in Channel
      PROVE  busy(d)' = busy(d)
  <2> DEFINE g == <<c, cpu_put[c]>>
  <2>1. /\ \A h : h # g => (h \in busy(d)' <=> h \in busy(d))
        /\ g \notin busy(d) /\ g \notin busy(d)'
    BY <1>1, <1>3, <1>4, BusyStep, ZenonT(40)
  <2> HIDE DEF g
  <2> QED BY <2>1
<1>6. \A d \in Channel : sends(s, d) <=> sends(th[t], d)
  BY <1>1, <1>2 DEF sends, committed
<1> QED BY <1>1, <1>2, <1>5, <1>6, InfosKeep DEF Move

LEMMA InfosRun ==
  ASSUME SuspendsSafely, Shape, Account, RingInv, Infos, NEW t \in Thread, Run(t) \/ Start(t)
  PROVE  Infos'
<1>0. ASSUME NEW s \in ThreadRecord, Move(t, s), infos' = infos, entries' = entries,
             committed(s) <=> committed(th[t]), committed(s) => s.ch = th[t].ch
      PROVE  Infos'
  <2>1. \A c \in Channel : sends(s, c) <=> sends(th[t], c)
    BY <1>0 DEF sends
  <2> QED BY <1>0, <2>1, InfosKeep, BusySame DEF Move
<1>1. CASE \/ Completed(t) \/ NoErrors(t) \/ CheckErrors(t) \/ ErrorFound(t) \/ ClaimFails(t)
           \/ ClaimFailsAgain(t) \/ Begin(t) \/ ClaimChunk(t) \/ NoChunk(t) \/ TrackerDone(t)
           \/ Suspend(t) \/ Wait(t) \/ Start(t)
  <2>1. Calm(t)
    BY <1>1, CalmActions
  <2>2. PICK s \in ThreadRecord : Move(t, s) /\ Keeps(th[t], s)
    BY <2>1 DEF Calm
  <2>3. infos' = infos /\ entries' = entries
    BY <2>1 DEF Calm, ring
  <2> QED BY <1>0, <2>2, <2>3 DEF Keeps
<1>2. CASE UpdateValue(t)
  <2>1. PICK s \in ThreadRecord : Move(t, s) /\ s.pc = "complete"
    BY <1>2, UpdateValueMoves
  <2>2. infos' = infos /\ entries' = entries /\ th[t].pc = "value"
    BY <1>2 DEF UpdateValue, ring, at
  <2> QED BY <1>0, <2>1, <2>2 DEF committed
<1>3. CASE TrackerEntry(t)
  <2>1. PICK s \in ThreadRecord : Move(t, s) /\ s.pc = th[t].pc /\ s.ch = th[t].ch
    BY <1>3, TrackerEntryMoves
  <2>2. infos' = infos /\ entries' = entries
    BY <1>3 DEF TrackerEntry, ring
  <2> QED BY <1>0, <2>1, <2>2 DEF committed
<1>4. CASE Claim(t)
  <2>1. PICK s \in ThreadRecord : Move(t, s) /\ (s = idle \/ s.pc \in {"begin", "write", "suspend"})
    BY <1>4, ClaimMoves
  <2>2. infos' = infos /\ entries' = entries /\ th[t].pc \in {"claim", "claim_again"}
    BY <1>4 DEF Claim
  <2>3. ~committed(s) /\ ~committed(th[t])
    BY <2>1, <2>2 DEF committed, idle
  <2> QED BY <1>0, <2>1, <2>2, <2>3
<1>5. CASE BeginFailed(t)
  <2>1. Move(t, idle) /\ infos' = infos /\ entries' = entries /\ th[t].pc = "begin_failed"
    BY <1>5, ReturnMoves DEF BeginFailed, returns, at
  <2> QED BY <1>0, <2>1, IdleRecord DEF committed, idle
<1>6. CASE SuspendRelease(t)
  <2>1. PICK s \in ThreadRecord : Move(t, s) /\ s.pc \in {"claim", "idle"}
    BY <1>6, SuspendReleaseMoves
  <2>2. infos' = infos /\ entries' = entries /\ th[t].pc = "release"
    BY <1>6 DEF SuspendRelease, at
  <2> QED BY <1>0, <2>1, <2>2 DEF committed
<1> QED BY <1>1, <1>2, <1>3, <1>4, <1>5, <1>6, InfosGet, InfosEndPush, InfosComplete, InfosWriteCtrl
        DEF Run

LEMMA InfosElse ==
  ASSUME Infos, UNCHANGED <<infos, entries, th>>
  PROVE  Infos'
  BY DEF Infos, busy, live, sending, building, at

-----------------------------------------------------------------------------
(* The joint invariant.                                                    *)

Inv == Shape /\ Account /\ RingInv /\ Values /\ Infos /\ Placed

LEMMA InitShape ==
  ASSUME Init
  PROVE  Shape
<1>1. 0 \in Index /\ no_entry \in Entry
  BY Sizes, NoEntry DEF Index
<1>2. Rings
  BY <1>1, Sizes DEF Init, Rings
<1>3. Semaphores
  BY <1>1 DEF Init, Semaphores
<1>4. pushbuffer_create \in Buffer
  <2>1. /\ [k \in PbChunk |-> <<>>] \in [PbChunk -> Seq(Place)]
        /\ [k \in PbChunk |-> NoPush] \in [PbChunk -> Thread \cup {NoPush}]
        /\ [k \in PbChunk |-> 0] \in [PbChunk -> Int]
        /\ NumChunks \in Int
    BY PushbufferAssumption
  <2> QED BY <2>1 DEF pushbuffer_create, Buffer
<1>5. Others
  BY <1>4 DEF Init, Others
<1>6. Threads
  BY IdleRecord, IdleFlow DEF Init, Threads
<1> QED BY <1>2, <1>3, <1>5, <1>6 DEF Shape

LEMMA InitAccount ==
  ASSUME Init
  PROVE  Account
<1>1. ASSUME NEW c \in Channel
      PROVE  Accounted(c)
  <2>1. th \in [Thread -> ThreadRecord] /\ \A t \in Thread : th[t] = idle
    BY IdleRecord DEF Init
  <2>2. \A t \in Thread : holds(t, c) = 0
    BY <2>1, Sizes DEF holds, idle
  <2>3. held(c) = {}
    BY <2>2, Sizes DEF held
  <2>4. count[c] = 0 /\ cpu_put[c] = 0 /\ gpu_get[c] = 0 /\ 0 \in Index
    BY Sizes DEF Init, Index
  <2>5. pending(c) = Ahead(0, 0) /\ Ahead(0, 0) = 0
    BY <2>4, Modulo, AheadFacts DEF pending
  <2> QED BY <2>3, <2>4, <2>5, FS_EmptySet, Sizes DEF Accounted
<1> QED BY <1>1 DEF Account

LEMMA InitRing ==
  ASSUME Init
  PROVE  RingInv /\ Values
<1>1. ASSUME NEW c \in Channel
      PROVE  Ring(c)
  <2> DEFINE e == entries[c]
  <2>1. /\ cpu_put[c] = 0 /\ gpu_get[c] = 0 /\ executed[c] = 0 /\ queued[c] = 0
        /\ completed[c] = 0 /\ released[c] = 0 /\ 0 \in Index
        /\ \A i \in Index : e[i] = no_entry
    BY Sizes DEF Init, Index
  <2>2. /\ Ahead(0, 0) = 0 /\ \A i \in Index : Ahead(0, i) \in 0 .. NumEntries - 1
        /\ \A i \in Index : Ahead(0, i) = 0 => i = 0
    BY <2>1, AheadFacts
  <2>3. \A i \in Index : Ahead(0, i) >= 0 /\ ~(Ahead(0, i) < 0) /\ (Ahead(0, i) <= 0 => i = 0)
    BY <2>2, Sizes
  <2> HIDE DEF e
  <2>4. Filled(e, 0, 0)
    BY <2>1, <2>2, <2>3 DEF Filled
  <2>5. Stepping(e, 0, 0, 0)
    BY <2>2, <2>3 DEF Stepping
  <2>6. value_at(e, 0, 0, 0) = 1
    BY DEF value_at
  <2>7. Growing(e, 0, 0, 0)
    <3>1. ASSUME NEW i \in Index, NEW j \in Index,
                 Ahead(0, i) <= Ahead(0, j), Ahead(0, j) <= Ahead(0, 0)
          PROVE  i = 0 /\ j = 0
      <4>1. j = 0
        BY <2>2, <2>3, <3>1
      <4> QED BY <2>2, <2>3, <3>1, <4>1
    <3>2. ASSUME NEW i \in Index, NEW j \in Index,
                 Ahead(0, i) <= Ahead(0, j), Ahead(0, j) <= Ahead(0, 0)
          PROVE  /\ value_at(e, 0, 0, i) <= value_at(e, 0, 0, j)
                 /\ value_at(e, 0, 0, j) <= value_at(e, 0, 0, i) + Ahead(0, j) - Ahead(0, i)
      BY <2>2, <2>6, <3>1, <3>2
    <3> QED BY <3>2 DEF Growing
  <2>8. Executing(e, 0, 0, 0, 0, 0, 0)
    BY <2>2, <2>6 DEF Executing
  <2> QED BY <2>1, <2>4, <2>5, <2>7, <2>8 DEF Ring, RingOf, e
<1>2. Values
  BY DEF Init, Values, at, idle
<1> QED BY <1>1, <1>2 DEF RingInv

LEMMA InitInfos ==
  ASSUME Init
  PROVE  Infos
<1>1. ASSUME NEW c \in Channel
      PROVE  busy(c) = {} /\ sending(c) = {} /\ infos[c] = NumEntries
  <2>1. \A g \in Channel \X Index : entry_of(entries, g) = no_entry
    BY DEF Init, entry_of
  <2>2. busy(c) = {}
    BY <2>1, NoEntry DEF busy, live
  <2>3. sending(c) = {}
    BY DEF Init, sending, building, idle
  <2> QED BY <2>2, <2>3 DEF Init
<1>2. Cardinality({}) = 0 /\ NumEntries - 0 - 0 = NumEntries
  BY FS_EmptySet, Sizes
<1>3. ASSUME NEW c \in Channel
      PROVE  infos[c] = NumEntries - Cardinality(busy(c)) - Cardinality(sending(c))
  BY <1>1, <1>2
<1> QED BY <1>3 DEF Infos

LEMMA InitPlaced ==
  ASSUME Init
  PROVE  Placed
<1>1. /\ pb.idle = PbChunk /\ pb.available = PbChunk
      /\ \A k \in PbChunk : /\ pb.pending[k] = <<>> /\ pb.current_push[k] = NoPush
                            /\ pb.next_push_start[k] = 0
  BY DEF Init, pushbuffer_create
<1>2. ASSUME NEW k \in PbChunk
      PROVE  ChunkInv(pb, entries, k)
  <2>1. chunk_get_offset(k) \in Int /\ MaxPushSize \in Int /\ ChunkSize \in Int /\ MaxPushSize <= ChunkSize
    BY ChunkOffset, PushbufferAssumption
  <2>2. Len(pb.pending[k]) = 0 /\ push_offset(pb, k) = chunk_get_offset(k)
    BY <1>1, <2>1 DEF push_offset
  <2>3. Orderly(entries, pb.pending[k], k)
    BY <2>2 DEF Orderly, Areas, lows, highs
  <2>4. Roomy(entries, pb.pending[k], k, push_offset(pb, k))
    BY <2>1, <2>2 DEF Roomy, Fits
  <2> QED BY <1>1, <2>3, <2>4 DEF ChunkInv
<1>3. Listing
  <2>1. \A g \in Place : entry_of(entries, g) = no_entry
    BY DEF Init, entry_of, Place
  <2>2. \A g \in Place : ~listed(pb, g)
    BY <1>1 DEF listed, within
  <2> QED BY <2>1, <2>2, NoEntry DEF Listing
<1>4. Owning
  BY DEF Init, Owning, builds, idle
<1> QED BY <1>2, <1>3, <1>4 DEF Placed, ChunksInv

LEMMA InitInv == Init => Inv
  BY InitShape, InitAccount, InitRing, InitInfos, InitPlaced DEF Inv

LEMMA NextInv ==
  ASSUME SuspendsSafely, Inv, [Next]_vars
  PROVE  Inv'
<1>0. Shape /\ Account /\ RingInv /\ Values /\ Infos /\ Placed
  BY DEF Inv
<1>1. ASSUME NEW t \in Thread, Run(t) \/ Start(t)
      PROVE  Inv'
  BY <1>0, <1>1, ShapeRun, AccountRun, RingRun, InfosRun, PlacedRun DEF Inv
<1>2. ASSUME NEW c \in Channel, Execute(c)
      PROVE  Inv'
  <2>1. RingInv' /\ released' \in [Channel -> Nat] /\ executed' \in [Channel -> Index]
    BY <1>0, <1>2, RingGpu
  <2>2. UNCHANGED <<ring, sem, error, suspended, lock, pb, tracker, fatal, th>>
    BY <1>2 DEF Execute
  <2>3. UNCHANGED <<entries, cpu_put, gpu_get, count, infos, queued, completed>>
    BY <2>2 DEF ring, sem
  <2>4. Shape'
    BY <1>0, <2>1, <2>2, <2>3 DEF Shape, Rings, Semaphores, Others, Threads
  <2>5. Account'
    BY <1>0, <2>2, <2>3, AccountElse
  <2>6. Values' /\ Infos' /\ Placed'
    BY <1>0, <2>2, <2>3, ValuesElse, InfosElse, PlacedElse
  <2> QED BY <2>1, <2>4, <2>5, <2>6 DEF Inv
<1>3. ASSUME UNCHANGED <<ring, sem, released, executed, lock, pb, tracker, fatal, th>>,
             error' \in [Channel -> BOOLEAN], suspended' \in [Channel -> BOOLEAN],
             \A c \in Channel : error'[c] => "rc" \in Faults
      PROVE  Inv'
  <2>1. UNCHANGED <<entries, cpu_put, gpu_get, count, infos, queued, completed>>
    BY <1>3 DEF ring, sem
  <2>2. Shape'
    BY <1>0, <1>3, <2>1 DEF Shape, Rings, Semaphores, Others, Threads
  <2>3. Account'
    BY <1>0, <1>3, <2>1, AccountElse
  <2>4. RingInv' /\ Values' /\ Infos' /\ Placed'
    BY <1>0, <1>3, <2>1, RingSame, ValuesElse, InfosElse, PlacedElse
  <2> QED BY <2>2, <2>3, <2>4 DEF Inv
<1>4. /\ error \in [Channel -> BOOLEAN] /\ suspended \in [Channel -> BOOLEAN]
      /\ \A c \in Channel : error[c] => "rc" \in Faults
  BY <1>0 DEF Shape, Others
<1>5. ASSUME NEW c \in Channel, ChannelError(c)
      PROVE  Inv'
  <2>1. error' \in [Channel -> BOOLEAN] /\ \A d \in Channel : error'[d] => "rc" \in Faults
    BY <1>4, <1>5 DEF ChannelError
  <2> QED BY <1>3, <1>4, <1>5, <2>1 DEF ChannelError
<1>6. CASE ResumeP2P
  <2>1. PICK P \in Pool : suspended' = [c \in Channel |-> suspended[c] /\ c \notin P]
    BY <1>6 DEF ResumeP2P
  <2>2. suspended' \in [Channel -> BOOLEAN]
    BY <2>1
  <2>3. error' = error /\ UNCHANGED <<ring, sem, released, executed, lock, pb, tracker, fatal, th>>
    BY <1>6 DEF ResumeP2P, gpu
  <2> QED BY <1>3, <1>4, <2>2, <2>3
<1>7. CASE UNCHANGED vars
  BY <1>3, <1>4, <1>7 DEF vars, gpu
<1> QED BY <1>1, <1>2, <1>5, <1>6, <1>7 DEF Next

(* The joint invariant holds of every behaviour in which a suspension      *)
(* cannot fail.                                                            *)
THEOREM ChannelInvariant ==
  ASSUME SuspendsSafely
  PROVE  Spec => []Inv
<1>1. Init => Inv
  BY InitInv
<1>2. Inv /\ [Next]_vars => Inv'
  BY NextInv
<1> QED BY <1>1, <1>2, PTL DEF Spec

-----------------------------------------------------------------------------
(* What the joint invariant means.                                         *)

(* However the reads of the payload, its wrap around and the GPU           *)
(* interleave, uvm_gpu_tracking_semaphore_update_completed_value neither   *)
(* runs ahead of the GPU nor falls so far behind that it misses a wrap     *)
(* around.                                                                 *)
THEOREM SemaphoreSound ==
  ASSUME SuspendsSafely
  PROVE  Spec => []SemaphoreTracks
<1>1. Inv => SemaphoreTracks
  <2> SUFFICES ASSUME Inv PROVE SemaphoreTracks
    OBVIOUS
  <2>1. Shape /\ RingInv /\ Values
    BY DEF Inv
  <2>2. ASSUME NEW c \in Channel
        PROVE  /\ completed[c] <= released[c] /\ released[c] <= queued[c]
               /\ queued[c] - completed[c] < NumEntries
    BY <2>1, RingTypes, RingSemaphore DEF RingInv, Ring
  <2> QED BY <2>1, <2>2 DEF SemaphoreTracks, Values
<1> QED BY <1>1, ChannelInvariant, PTL

(* uvm_channel_update_progress retires an entry, a control entry too, only *)
(* after the GPU executed it.                                              *)
THEOREM RetiredSound ==
  ASSUME SuspendsSafely
  PROVE  Spec => []RetiredAfterExecution
<1>1. Inv => RetiredAfterExecution
  <2> SUFFICES ASSUME Inv, NEW c \in Channel
               PROVE  (executed[c] - gpu_get[c]) % NumEntries <= pending(c)
    BY DEF RetiredAfterExecution
  <2>1. executed[c] \in Index /\ gpu_get[c] \in Index /\ cpu_put[c] \in Index
    BY DEF Inv, Shape, Rings, Semaphores
  <2>2. Ahead(gpu_get[c], executed[c]) <= Ahead(gpu_get[c], cpu_put[c])
    BY DEF Inv, RingInv, Ring, RingOf, Executing
  <2> QED BY <2>1, <2>2, Modulo DEF pending
<1> QED BY <1>1, ChannelInvariant, PTL

(* The pushbuffer never hands out memory of a push that the GPU has not    *)
(* finished, or of another push that is being built.                       *)
THEOREM PushesSound ==
  ASSUME SuspendsSafely
  PROVE  Spec => []PushesApart
<1>1. Inv => PushesApart
  <2> SUFFICES ASSUME Inv PROVE PushesApart
    OBVIOUS
  <2>1. /\ pb \in Buffers(Place, Thread) /\ Sized(entries, Place) /\ ChunksInv(pb, entries)
        /\ Listing /\ Owning /\ th \in [Thread -> ThreadRecord]
    BY BufferTypes DEF Inv, Placed, Shape, Threads
  <2>2. \A g \in live : /\ g \in Place /\ listed(pb, g)
                        /\ entry_of(entries, g).offset \in Int /\ entry_of(entries, g).size \in Int
    BY <2>1 DEF live, Listing, Place, Sized
  <2>3. ASSUME NEW t \in building
        PROVE  /\ t \in Thread /\ th[t].k \in PbChunk /\ pb.current_push[th[t].k] = t /\ t # NoPush
               /\ push_offset(pb, th[t].k) \in Int /\ pb.next_push_start[th[t].k] \in Int
               /\ pb.next_push_start[th[t].k] + MaxPushSize <= ChunkSize
               /\ 0 <= pb.next_push_start[th[t].k]
    <3>1. t \in Thread /\ builds(th[t])
      BY DEF building, builds
    <3>2. th[t].k \in PbChunk /\ pb.current_push[th[t].k] = t /\ t # NoPush
      BY <2>1, <3>1, ChannelAssumption DEF Owning, ThreadRecord
    <3> DEFINE k == th[t].k
    <3>3. Roomy(entries, pb.pending[k], k, push_offset(pb, k))
      BY <2>1, <3>2 DEF ChunksInv, ChunkInv
    <3>4. chunk_get_offset(k) <= push_offset(pb, k)
          /\ push_offset(pb, k) + MaxPushSize <= chunk_get_offset(k) + ChunkSize
      BY <3>3 DEF Roomy, Fits
    <3>5. /\ chunk_get_offset(k) \in Int /\ pb.next_push_start[k] \in Int
          /\ MaxPushSize \in Int /\ ChunkSize \in Int
      BY <2>1, <3>2, ChunkOffset, PushbufferAssumption DEF Buffers
    <3> HIDE DEF k
    <3>6. push_offset(pb, k) = chunk_get_offset(k) + pb.next_push_start[k]
      BY DEF push_offset
    <3> QED BY <3>1, <3>2, <3>4, <3>5, <3>6 DEF k
  <2>4. ASSUME NEW g \in live, NEW h \in live, g # h
        PROVE  area(g) \cap area(h) = {}
    <3>1. \/ entry_of(entries, g).offset + entry_of(entries, g).size <= entry_of(entries, h).offset
          \/ entry_of(entries, h).offset + entry_of(entries, h).size <= entry_of(entries, g).offset
      BY <2>1, <2>2, <2>4, PushesDisjoint
    <3> QED BY <2>2, <3>1 DEF area
  <2>5. ASSUME NEW t \in building, NEW g \in live
        PROVE  space(t) \cap area(g) = {}
    <3> DEFINE n == push_offset(pb, th[t].k)
    <3>1. \/ n + MaxPushSize <= entry_of(entries, g).offset
          \/ entry_of(entries, g).offset + entry_of(entries, g).size <= n
      BY <2>1, <2>2, <2>3, SpaceDisjoint
    <3>2. n \in Int /\ MaxPushSize \in Int
      BY <2>3, PushbufferAssumption
    <3>3. space(t) = n .. n + MaxPushSize - 1
      BY DEF space
    <3> HIDE DEF n
    <3> QED BY <2>2, <3>1, <3>2, <3>3 DEF area
  <2>6. ASSUME NEW t \in building, NEW u \in building, t # u
        PROVE  space(t) \cap space(u) = {}
    <3> DEFINE j == th[t].k
               k == th[u].k
               a == pb.next_push_start[j]
               b == pb.next_push_start[k]
    <3>1. j # k
      BY <2>3, <2>6
    <3>2. /\ j \in PbChunk /\ k \in PbChunk /\ chunk_get_offset(j) \in Int /\ chunk_get_offset(k) \in Int
          /\ MaxPushSize \in Int /\ ChunkSize \in Int
      BY <2>3, ChunkOffset, PushbufferAssumption
    <3>3. \/ chunk_get_offset(k) + ChunkSize <= chunk_get_offset(j)
          \/ chunk_get_offset(j) + ChunkSize <= chunk_get_offset(k)
      BY <3>1, <3>2, ChunksApart
    <3>4. /\ a \in Int /\ b \in Int /\ 0 <= a /\ 0 <= b
          /\ a + MaxPushSize <= ChunkSize /\ b + MaxPushSize <= ChunkSize
      BY <2>3
    <3>5. /\ space(t) = chunk_get_offset(j) + a .. chunk_get_offset(j) + a + MaxPushSize - 1
          /\ space(u) = chunk_get_offset(k) + b .. chunk_get_offset(k) + b + MaxPushSize - 1
      BY DEF space, push_offset
    <3> HIDE DEF j, k, a, b
    <3> QED BY <3>2, <3>3, <3>4, <3>5
  <2> QED BY <2>3, <2>4, <2>5, <2>6 DEF PushesApart
<1> QED BY <1>1, ChannelInvariant, PTL

(* Reserved and pending entries never fill the ring, every reserved entry  *)
(* has its thread, and every push has its push info.                       *)
THEOREM EntriesSound ==
  ASSUME SuspendsSafely
  PROVE  Spec => []EntriesAccounted
<1>1. Inv => EntriesAccounted
  <2> SUFFICES ASSUME Inv, NEW c \in Channel
               PROVE  /\ count[c] = Cardinality(held(c)) \/ (fatal /\ count[c] > Cardinality(held(c)))
                      /\ count[c] + pending(c) < NumEntries
                      /\ infos[c] = NumEntries - Cardinality({g \in live : g[1] = c})
                                    - Cardinality({t \in building : th[t].ch = c /\ ~at(t, "info")})
    BY DEF EntriesAccounted
  <2>1. Accounted(c) /\ count[c] \in Nat /\ Cardinality(held(c)) \in Nat
    BY HeldType DEF Inv, Account, Shape, Rings, Threads
  <2>2. count[c] = Cardinality(held(c)) \/ count[c] > Cardinality(held(c))
    BY <2>1 DEF Accounted
  <2>3. infos[c] = NumEntries - Cardinality(busy(c)) - Cardinality(sending(c))
    BY DEF Inv, Infos
  <2> QED BY <2>1, <2>2, <2>3 DEF Accounted, busy, sending
<1> QED BY <1>1, ChannelInvariant, PTL

(* The assertion of uvm_channel_release holds whenever a suspension cannot *)
(* fail: the run that violates it needs both a channel error and a         *)
(* suspension.                                                             *)
THEOREM ReleaseSound ==
  ASSUME SuspendsSafely
  PROVE  Spec => []ReleasesReserved
<1>1. Inv => ReleasesReserved
  <2> SUFFICES ASSUME Inv, NEW t \in Thread
               PROVE  /\ at(t, "release") => count[th[t].ch] >= NumEntries - 1
                      /\ at(t, "begin_failed") => count[th[t].ch] >= 1
    BY DEF ReleasesReserved
  <2>1. Shape /\ Account /\ Flow(th[t], fatal)
    BY DEF Inv, Shape, Threads
  <2>2. ASSUME th[t].pc \in {"release", "begin_failed"}
        PROVE  th[t].ch \in Channel
    BY <2>1, <2>2 DEF Flow, Located, phase, Progress, Pushing
  <2>3. ASSUME at(t, "release")
        PROVE  count[th[t].ch] >= NumEntries - 1
    <3>1. PICK c \in Channel : c = th[t].ch
      BY <2>2, <2>3 DEF at
    <3>2. share(th[t], c) = NumEntries - 1 /\ share(th[t], c) <= count[c] /\ count[c] \in Nat
      BY <2>1, <2>3, <3>1, Room DEF share, at
    <3> QED BY <3>1, <3>2, Sizes
  <2>4. ASSUME at(t, "begin_failed")
        PROVE  count[th[t].ch] >= 1
    <3>1. PICK c \in Channel : c = th[t].ch
      BY <2>2, <2>4 DEF at
    <3>2. share(th[t], c) = 1 /\ share(th[t], c) <= count[c] /\ count[c] \in Nat
      BY <2>1, <2>4, <3>1, Room DEF share, at
    <3> QED BY <3>1, <3>2
  <2> QED BY <2>3, <2>4
<1> QED BY <1>1, ChannelInvariant, PTL

-----------------------------------------------------------------------------
(* The suspension of P2P.                                                  *)

(* A step that adds no P2P push to a channel where P2P is suspended, and   *)
(* suspends no other channel.                                              *)
LEMMA QuiescedKeeps ==
  ASSUME Shape, P2PQuiesced, NEW t \in Thread, NEW s \in ThreadRecord, becomes(t, s),
         \A c \in Channel : s.ch = c /\ s.op = "p2p" =>
           ~suspended[c] \/ (th[t].ch = c /\ th[t].op = "p2p"),
         \A c \in Channel, i \in Index : entries'[c][i].p2p => entries[c][i].p2p \/ ~suspended[c],
         \A c \in Channel : suspended'[c] => suspended[c]
  PROVE  P2PQuiesced'
<1>1. th'[t] = s /\ \A u \in Thread \ {t} : th'[u] = th[u]
  BY DEF becomes, Shape, Threads
<1>2. ASSUME NEW c \in Channel, suspended'[c]
      PROVE  /\ \A i \in Index : ~entries'[c][i].p2p
             /\ \A u \in Thread : ~(th'[u].ch = c /\ th'[u].op = "p2p")
  <2>1. /\ suspended[c] /\ \A i \in Index : ~entries[c][i].p2p
        /\ \A u \in Thread : ~(th[u].ch = c /\ th[u].op = "p2p")
    BY <1>2 DEF P2PQuiesced
  <2>2. \A i \in Index : ~entries'[c][i].p2p
    BY <2>1
  <2>3. ~(s.ch = c /\ s.op = "p2p")
    BY <2>1
  <2> QED BY <1>1, <2>1, <2>2, <2>3
<1> QED BY <1>2 DEF P2PQuiesced

(* The thread that suspends a channel holds every entry of it: nobody else *)
(* is in a push and nothing is pending.                                    *)
LEMMA SuspenderAlone ==
  ASSUME Inv, NEW t \in Thread, th[t].pc = "suspend", NEW c \in Channel, th[t].ch = c
  PROVE  /\ \A u \in Thread \ {t} : th[u].ch # c
         /\ \A i \in Index : entries[c][i] = no_entry
<1>1. Shape /\ Account /\ RingInv /\ th \in [Thread -> ThreadRecord]
  BY DEF Inv, Shape, Threads
<1>2. share(th[t], c) = NumEntries - 1 /\ NumEntries \in Nat
  BY Sizes DEF share
<1>3. /\ share(th[t], c) <= count[c] /\ count[c] + pending(c) < NumEntries
      /\ count[c] \in Nat /\ pending(c) \in 0 .. NumEntries - 1
  BY <1>1, Room
<1>4. Cardinality(held(c)) <= count[c] /\ Cardinality(held(c)) \in Nat
  BY <1>1, HeldType DEF Account, Accounted
<1>5. pending(c) = 0 /\ count[c] = NumEntries - 1
  BY <1>2, <1>3
<1>6. ASSUME NEW u \in Thread \ {t}, th[u].ch = c
      PROVE  FALSE
  <2>1. share(th[t], c) + share(th[u], c) <= Cardinality(held(c))
    BY <1>1, HeldByTwo
  <2>2. share(th[u], c) \in Nat /\ share(th[u], c) >= 1
    BY <1>6, Sizes DEF share
  <2> QED BY <1>2, <1>4, <1>5, <2>1, <2>2
<1>7. cpu_put[c] \in Index /\ gpu_get[c] \in Index
  BY <1>1 DEF Shape, Rings
<1>8. Ahead(gpu_get[c], cpu_put[c]) = 0
  BY <1>5, <1>7, Modulo DEF pending
<1>9. Filled(entries[c], cpu_put[c], gpu_get[c])
  BY <1>1 DEF RingInv, Ring, RingOf
<1>10. ASSUME NEW i \in Index
       PROVE  entries[c][i] = no_entry
  <2>1. Ahead(gpu_get[c], i) \in 0 .. NumEntries - 1
    BY <1>7, AheadFacts
  <2>2. Ahead(gpu_get[c], i) >= Ahead(gpu_get[c], cpu_put[c])
    BY <1>2, <1>8, <2>1
  <2> QED BY <1>9, <2>2 DEF Filled
<1> QED BY <1>6, <1>10

LEMMA QuiescedSuspend ==
  ASSUME Inv, P2PQuiesced, NEW t \in Thread, Suspend(t)
  PROVE  P2PQuiesced'
<1>1. Shape
  BY DEF Inv
<1>2. PICK s \in ThreadRecord : Move(t, s) /\ Same(th[t], s)
  BY <1>1, SuspendMoves
<1>3. PICK c \in Channel : c = th[t].ch /\ th[t].pc = "suspend" /\ th[t].op = "suspend"
  BY <1>1, SuspendMoves
<1>4. suspended' = [suspended EXCEPT ![c] = TRUE] /\ entries' = entries
  BY <1>3 DEF Suspend, ring
<1>5. (\A u \in Thread \ {t} : th[u].ch # c) /\ \A i \in Index : entries[c][i] = no_entry
  BY <1>3, SuspenderAlone
<1>6. th'[t] = s /\ \A u \in Thread \ {t} : th'[u] = th[u]
  BY <1>1, <1>2 DEF Move, becomes, Shape, Threads
<1>7. ASSUME NEW d \in Channel, suspended'[d]
      PROVE  /\ \A i \in Index : ~entries'[d][i].p2p
             /\ \A u \in Thread : ~(th'[u].ch = d /\ th'[u].op = "p2p")
  <2>1. CASE d = c
    BY <1>2, <1>3, <1>4, <1>5, <1>6, <2>1, NoEntry DEF Same
  <2>2. CASE d # c
    <3>1. suspended[d]
      BY <1>1, <1>4, <1>7, <2>2 DEF Shape, Others
    <3>2. /\ \A i \in Index : ~entries[d][i].p2p
          /\ \A u \in Thread : ~(th[u].ch = d /\ th[u].op = "p2p")
      BY <3>1 DEF P2PQuiesced
    <3> QED BY <1>2, <1>4, <1>6, <3>2 DEF Same
  <2> QED BY <2>1, <2>2
<1> QED BY <1>7 DEF P2PQuiesced

LEMMA QuiescedRun ==
  ASSUME SuspendsSafely, Inv, P2PQuiesced, NEW t \in Thread, Run(t) \/ Start(t)
  PROVE  P2PQuiesced'
<1>0. Shape /\ Account /\ RingInv
  BY DEF Inv
<1>k. ASSUME NEW s \in ThreadRecord, Move(t, s), suspended' = suspended, entries' = entries,
             s.ch # 0 => s.ch = th[t].ch /\ s.op = th[t].op
      PROVE  P2PQuiesced'
  <2>1. \A c \in Channel : s.ch = c /\ s.op = "p2p" => th[t].ch = c /\ th[t].op = "p2p"
    BY <1>k, Sizes
  <2> QED BY <1>0, <1>k, <2>1, QuiescedKeeps DEF Move
<1>1. CASE \/ Completed(t) \/ NoErrors(t) \/ CheckErrors(t) \/ ErrorFound(t) \/ ClaimFails(t)
           \/ ClaimFailsAgain(t) \/ Begin(t) \/ ClaimChunk(t) \/ NoChunk(t) \/ TrackerDone(t)
           \/ Wait(t) \/ Start(t)
  <2>1. Calm(t)
    BY <1>0, <1>1, CalmActions
  <2>2. PICK s \in ThreadRecord : Move(t, s) /\ Keeps(th[t], s)
    BY <2>1 DEF Calm
  <2>3. entries' = entries
    BY <2>1, SMTT(40) DEF Calm, ring
  <2>4. suspended' = suspended
    BY <1>1 DEF Completed, NoErrors, CheckErrors, ErrorFound, ClaimFails, ClaimFailsAgain,
                Begin, ClaimChunk, NoChunk, TrackerDone, Wait, Start, StartPush, StartCtrl,
                StartSuspend, StartWait, StartDrain, unchanged
  <2> QED BY <1>k, <2>2, <2>3, <2>4 DEF Keeps
<1>2. CASE Suspend(t)
  BY <1>2, QuiescedSuspend
<1>3. CASE UpdateValue(t)
  <2>1. PICK s \in ThreadRecord : Move(t, s) /\ Same(th[t], s)
    BY <1>0, <1>3, UpdateValueMoves
  <2>2. suspended' = suspended /\ entries' = entries
    BY <1>3 DEF UpdateValue, ring
  <2> QED BY <1>k, <2>1, <2>2 DEF Same
<1>4. CASE Complete(t)
  <2>1. PICK s \in ThreadRecord : Move(t, s) /\ Same(th[t], s)
    BY <1>0, <1>4, CompleteMoves
  <2>2. PICK c \in Channel : entries' = [entries EXCEPT ![c][gpu_get[c]] = no_entry]
    BY <1>0, <1>4, CompleteRing
  <2>3. suspended' = suspended
    BY <1>4 DEF Complete
  <2>4. gpu_get[c] \in Index /\ no_entry \in Entry /\ no_entry.p2p = FALSE
    BY <1>0, NoEntry DEF Shape, Rings
  <2>5. /\ entries'[c] = [entries[c] EXCEPT ![gpu_get[c]] = no_entry]
        /\ \A d \in Channel \ {c} : entries'[d] = entries[d]
    BY <1>0, <2>2, <2>4, EntryWritten
  <2>6. \A d \in Channel, i \in Index : entries'[d][i].p2p => entries[d][i].p2p
    BY <1>0, <2>4, <2>5 DEF Shape, Rings
  <2> QED BY <1>0, <2>1, <2>3, <2>6, QuiescedKeeps DEF Move, Same
<1>5. CASE Claim(t)
  <2>1. PICK s \in ThreadRecord :
             Move(t, s) /\ (s = idle \/ (s.ch = th[t].up /\ s.op = th[t].op))
    BY <1>0, <1>5, ClaimMoves
  <2>2. suspended' = suspended /\ entries' = entries /\ (th[t].op = "p2p" => ~suspended[th[t].up])
    BY <1>5 DEF Claim, may_claim
  <2>3. \A c \in Channel : s.ch = c /\ s.op = "p2p" => ~suspended[c]
    BY <2>1, <2>2 DEF idle
  <2> QED BY <1>0, <2>1, <2>2, <2>3, QuiescedKeeps DEF Move
<1>6. CASE BeginFailed(t)
  <2>1. Move(t, idle) /\ suspended' = suspended /\ entries' = entries
    BY <1>6, ReturnMoves DEF BeginFailed, returns
  <2> QED BY <1>k, <2>1, IdleRecord DEF idle
<1>7. CASE GetPushInfo(t)
  <2>1. PICK s \in ThreadRecord : Move(t, s) /\ Same(th[t], s)
    BY <1>0, <1>7, GetPushInfoMoves
  <2>2. suspended' = suspended /\ entries' = entries
    BY <1>7 DEF GetPushInfo
  <2> QED BY <1>k, <2>1, <2>2 DEF Same
<1>8. CASE TrackerEntry(t)
  <2>1. PICK s \in ThreadRecord : Move(t, s) /\ s.op = th[t].op /\ s.ch = th[t].ch
    BY <1>0, <1>8, TrackerEntryMoves
  <2>2. suspended' = suspended /\ entries' = entries
    BY <1>8 DEF TrackerEntry, ring
  <2> QED BY <1>k, <2>1, <2>2
<1>9. ASSUME NEW c \in Channel, NEW x \in Entry, NEW s \in ThreadRecord, Move(t, s),
             s.ch # 0 => s.ch = th[t].ch /\ s.op = th[t].op,
             entries' = [entries EXCEPT ![c][cpu_put[c]] = x],
             x.p2p => th[t].ch = c /\ th[t].op = "p2p", suspended' = suspended
      PROVE  P2PQuiesced'
  <2>1. cpu_put[c] \in Index
    BY <1>0 DEF Shape, Rings
  <2>2. /\ entries'[c] = [entries[c] EXCEPT ![cpu_put[c]] = x]
        /\ \A d \in Channel \ {c} : entries'[d] = entries[d]
    BY <1>0, <1>9, <2>1, EntryWritten
  <2>3. x.p2p => ~suspended[c]
    BY <1>9 DEF P2PQuiesced
  <2>4. \A d \in Channel, i \in Index : entries'[d][i].p2p => entries[d][i].p2p \/ ~suspended[d]
    BY <1>0, <2>2, <2>3 DEF Shape, Rings
  <2>5. \A d \in Channel : s.ch = d /\ s.op = "p2p" => th[t].ch = d /\ th[t].op = "p2p"
    BY <1>9, Sizes
  <2> QED BY <1>0, <1>9, <2>4, <2>5, QuiescedKeeps DEF Move
<1>10. CASE EndPush(t)
  <2>1. PICK c \in Channel, size \in PushSizes :
           /\ c = th[t].ch /\ th[t].pc = "end" /\ becomes(t, idle)
           /\ entries' = [entries EXCEPT ![c][cpu_put[c]] = push_entry(t, c, size)]
           /\ pb' = pushbuffer_end_push(pb, entries', <<c, cpu_put[c]>>)
    BY <1>0, <1>10, EndPushRing
  <2>2. push_entry(t, c, size) \in Entry /\ push_entry(t, c, size).p2p = (th[t].op = "p2p")
    BY <1>0, PushEntry
  <2>3. suspended' = suspended /\ Move(t, idle) /\ idle.ch = 0
    BY <1>10, <2>1, ReturnMoves DEF EndPush, idle
  <2> QED BY <1>9, <2>1, <2>2, <2>3, IdleRecord
<1>11. CASE WriteCtrl(t)
  <2>1. PICK c \in Channel : entries' = [entries EXCEPT ![c][cpu_put[c]] = control_entry(c)]
    BY <1>0, <1>11, WriteCtrlRing
  <2>2. control_entry(c) \in Entry /\ control_entry(c).p2p = FALSE
    BY <1>0, ControlEntry
  <2>3. PICK s \in ThreadRecord : Move(t, s) /\ Same(th[t], s)
    BY <1>0, <1>11, WriteCtrlMoves
  <2>4. suspended' = suspended
    BY <1>11 DEF WriteCtrl
  <2> QED BY <1>9, <2>1, <2>2, <2>3, <2>4 DEF Same
<1>12. CASE SuspendRelease(t)
  <2>1. suspended' = suspended /\ entries' = entries
    BY <1>0, <1>12, SuspendReleaseMoves DEF SuspendRelease
  <2>2. PICK s \in ThreadRecord : Move(t, s) /\ s.ch = 0
    BY <1>0, <1>12, SuspendReleaseMoves
  <2> QED BY <1>k, <2>1, <2>2
<1> QED BY <1>1, <1>2, <1>3, <1>4, <1>5, <1>6, <1>7, <1>8, <1>10, <1>11, <1>12 DEF Run

(* While P2P is suspended on a channel, no P2P push is pending there or on *)
(* its way: channel_suspend_p2p reserves every entry before it sets the    *)
(* flag, and try_claim_channel_locked looks at the flag.                   *)
THEOREM P2PSound ==
  ASSUME SuspendsSafely
  PROVE  Spec => []P2PQuiesced
<1>1. Init => P2PQuiesced
  BY DEF Init, P2PQuiesced
<1>2. Inv /\ P2PQuiesced /\ [Next]_vars => P2PQuiesced'
  <2> SUFFICES ASSUME Inv, P2PQuiesced, [Next]_vars PROVE P2PQuiesced'
    OBVIOUS
  <2>1. ASSUME NEW t \in Thread, Run(t) \/ Start(t)
        PROVE  P2PQuiesced'
    BY <2>1, QuiescedRun
  <2>2. ASSUME NEW c \in Channel, Execute(c) \/ ChannelError(c)
        PROVE  P2PQuiesced'
    BY <2>2 DEF Execute, ChannelError, ring, P2PQuiesced
  <2>3. CASE ResumeP2P
    <3>1. PICK P \in Pool : suspended' = [c \in Channel |-> suspended[c] /\ c \notin P]
      BY <2>3 DEF ResumeP2P
    <3>2. \A c \in Channel : suspended'[c] => suspended[c]
      BY <3>1
    <3> QED BY <2>3, <3>2 DEF ResumeP2P, ring, P2PQuiesced
  <2>4. CASE UNCHANGED vars
    BY <2>4 DEF vars, ring, P2PQuiesced
  <2> QED BY <2>1, <2>2, <2>3, <2>4 DEF Next
<1> QED BY <1>1, <1>2, ChannelInvariant, PTL DEF Spec

-----------------------------------------------------------------------------
(* The bounds of the types.                                                *)

(* A push that is on its way, and the threads that have one.               *)
wants(r) == r.op \in {"push", "p2p", "ctrl"} /\ r.pc # "idle"

wanting == {t \in Thread : wants(th[t])}

(* No more pushes are begun than may be queued.                            *)
Queueing == \A c \in Channel : queued[c] + Cardinality(wanting) <= MaxQueued

(* A thread that has downed concurrent_pushes_sema and not upped it again. *)
inside(r) == r.ch # 0 /\ r.pc \notin {"begin", "write", "suspend", "release"}

downers == {t \in Thread : inside(th[t])}

Downed == pb.sema >= 0 /\ pb.sema + Cardinality(downers) = NumChunks

Tracked == \A c \in Channel : tracker[c] <= queued[c]

Seen == Channel \X (1 .. MaxQueued)

Acquired == \A t \in Thread : th[t].acquires \subseteq Seen

EntryBound(e, q) ==
  /\ e.value <= q + 1 /\ e.size \in 0 .. MaxPushSize /\ e.acquires \subseteq Seen
  /\ e.type # "NORMAL" => e.offset = 0

Bounded == \A c \in Channel, i \in Index : EntryBound(entries[c][i], queued[c])

InfosLeft == \A c \in Channel : infos[c] >= 0

Bounds == Queueing /\ Downed /\ Tracked /\ Acquired /\ Bounded /\ InfosLeft

(* A thread's record changes.                                              *)
LEMMA WantingStep ==
  ASSUME Shape, NEW t \in Thread, NEW s \in ThreadRecord, becomes(t, s)
  PROVE  /\ Cardinality(wanting) \in Nat /\ Cardinality(wanting') \in Nat
         /\ (wants(s) => wants(th[t])) => Cardinality(wanting') <= Cardinality(wanting)
         /\ wants(th[t]) /\ ~wants(s) => Cardinality(wanting') = Cardinality(wanting) - 1
         /\ Cardinality(wanting') <= Cardinality(wanting) + 1
<1>1. th'[t] = s /\ \A u \in Thread \ {t} : th'[u] = th[u]
  BY DEF becomes, Shape, Threads
<1>2. IsFiniteSet(wanting)
  <2>1. wanting \in SUBSET Thread
    BY DEF wanting
  <2> QED BY <2>1, ChannelAssumption, FS_Subset
<1>3. /\ \A u : u # t => (u \in wanting' <=> u \in wanting)
      /\ t \in wanting <=> wants(th[t])
      /\ t \in wanting' <=> wants(s)
  BY <1>1 DEF wanting
<1>4. /\ Cardinality(wanting) \in Nat /\ Cardinality(wanting') \in Nat
      /\ (t \in wanting <=> t \in wanting') => Cardinality(wanting') = Cardinality(wanting)
      /\ t \in wanting /\ t \notin wanting' => Cardinality(wanting') = Cardinality(wanting) - 1
      /\ t \notin wanting /\ t \in wanting' => Cardinality(wanting') = Cardinality(wanting) + 1
  BY <1>2, <1>3, OneElement
<1> QED BY <1>3, <1>4

LEMMA DownersStep ==
  ASSUME Shape, NEW t \in Thread, NEW s \in ThreadRecord, becomes(t, s)
  PROVE  /\ Cardinality(downers) \in Nat
         /\ (inside(s) <=> inside(th[t])) => Cardinality(downers') = Cardinality(downers)
         /\ inside(th[t]) /\ ~inside(s) => Cardinality(downers') = Cardinality(downers) - 1
         /\ ~inside(th[t]) /\ inside(s) => Cardinality(downers') = Cardinality(downers) + 1
<1>1. th'[t] = s /\ \A u \in Thread \ {t} : th'[u] = th[u]
  BY DEF becomes, Shape, Threads
<1>2. IsFiniteSet(downers)
  <2>1. downers \in SUBSET Thread
    BY DEF downers
  <2> QED BY <2>1, ChannelAssumption, FS_Subset
<1>3. /\ \A u : u # t => (u \in downers' <=> u \in downers)
      /\ t \in downers <=> inside(th[t])
      /\ t \in downers' <=> inside(s)
  BY <1>1 DEF downers
<1>4. /\ Cardinality(downers) \in Nat /\ Cardinality(downers') \in Nat
      /\ (t \in downers <=> t \in downers') => Cardinality(downers') = Cardinality(downers)
      /\ t \in downers /\ t \notin downers' => Cardinality(downers') = Cardinality(downers) - 1
      /\ t \notin downers /\ t \in downers' => Cardinality(downers') = Cardinality(downers) + 1
  BY <1>2, <1>3, OneElement
<1> QED BY <1>3, <1>4

LEMMA BoundTypes ==
  ASSUME Shape, Queueing
  PROVE  /\ MaxQueued \in Nat /\ NumChunks \in Nat /\ pb.sema \in Int /\ pb \in Buffer
         /\ \A c \in Channel : /\ queued[c] \in Nat /\ tracker[c] \in Nat /\ completed[c] \in Nat
                               /\ infos[c] \in Int /\ queued[c] <= MaxQueued
<1>1. /\ MaxQueued \in Nat /\ NumChunks \in Nat /\ pb.sema \in Int /\ pb \in Buffer
      /\ \A c \in Channel : /\ queued[c] \in Nat /\ tracker[c] \in Nat /\ completed[c] \in Nat
                            /\ infos[c] \in Int
  BY Sizes, PushbufferAssumption DEF Shape, Semaphores, Others, Buffer, Rings
<1>2. Cardinality(wanting) \in Nat
  <2>1. wanting \in SUBSET Thread
    BY DEF wanting
  <2>2. IsFiniteSet(wanting)
    BY <2>1, ChannelAssumption, FS_Subset
  <2> QED BY <2>2, FS_CardinalityType
<1>3. ASSUME NEW c \in Channel
      PROVE  queued[c] <= MaxQueued
  BY <1>1, <1>2 DEF Queueing
<1> QED BY <1>1, <1>3

(* A step that queues nothing and looks at the trackers at most.           *)
LEMMA BoundsMove ==
  ASSUME Shape, Queueing, Tracked, Acquired, NEW t \in Thread, NEW s \in ThreadRecord, becomes(t, s),
         wants(s) => wants(th[t]), s.acquires \subseteq Seen, queued' = queued,
         \A c \in Channel : tracker'[c] = tracker[c] \/ tracker'[c] = 0
  PROVE  Queueing' /\ Tracked' /\ Acquired'
<1>0. \A c \in Channel : queued[c] \in Nat /\ tracker[c] \in Nat
  BY BoundTypes
<1>1. /\ Cardinality(wanting) \in Nat /\ Cardinality(wanting') \in Nat
      /\ Cardinality(wanting') <= Cardinality(wanting)
  BY WantingStep
<1>2. Queueing'
  <2>1. ASSUME NEW c \in Channel
        PROVE  queued'[c] + Cardinality(wanting') <= MaxQueued
    <3>1. queued[c] + Cardinality(wanting) <= MaxQueued /\ queued'[c] = queued[c]
      BY DEF Queueing
    <3> QED BY <1>0, <1>1, <3>1, Sizes
  <2> QED BY <2>1 DEF Queueing
<1>3. Tracked'
  BY <1>0 DEF Tracked
<1>4. th'[t] = s /\ \A u \in Thread \ {t} : th'[u] = th[u]
  BY DEF becomes, Shape, Threads
<1>5. Acquired'
  BY <1>4 DEF Acquired, Seen
<1> QED BY <1>2, <1>3, <1>5

LEMMA DownedMove ==
  ASSUME Shape, Downed, NEW t \in Thread, NEW s \in ThreadRecord, becomes(t, s),
         \/ (inside(s) <=> inside(th[t])) /\ pb'.sema = pb.sema
         \/ inside(s) /\ ~inside(th[t]) /\ pb.sema > 0 /\ pb'.sema = pb.sema - 1
         \/ ~inside(s) /\ inside(th[t]) /\ pb'.sema = pb.sema + 1
  PROVE  Downed'
<1>1. pb.sema \in Int
  BY DEF Shape, Others, Buffer
<1>2. /\ Cardinality(downers) \in Nat
      /\ (inside(s) <=> inside(th[t])) => Cardinality(downers') = Cardinality(downers)
      /\ inside(th[t]) /\ ~inside(s) => Cardinality(downers') = Cardinality(downers) - 1
      /\ ~inside(th[t]) /\ inside(s) => Cardinality(downers') = Cardinality(downers) + 1
  BY DownersStep
<1>3. pb'.sema + Cardinality(downers') = pb.sema + Cardinality(downers) /\ pb'.sema >= 0
  BY <1>1, <1>2 DEF Downed
<1> QED BY <1>3 DEF Downed

LEMMA BoundedSame ==
  ASSUME Bounded, UNCHANGED <<entries, queued>>
  PROVE  Bounded'
  BY DEF Bounded, EntryBound, Seen

(* A quiet move leaves the push on its way, and the semaphore, as it is.   *)
LEMMA QuietBounds ==
  ASSUME NEW r, NEW s, Quiet(r, s), r.acquires \subseteq Seen
  PROVE  (wants(s) => wants(r)) /\ (inside(s) <=> inside(r)) /\ s.acquires \subseteq Seen
  BY DEF Quiet, wants, inside, Apart

(* The steps that touch neither the entries nor the semaphore.             *)
LEMMA BoundsSteady ==
  ASSUME Shape, Bounds, NEW t \in Thread, NEW s \in ThreadRecord, becomes(t, s),
         wants(s) => wants(th[t]), inside(s) <=> inside(th[t]), s.acquires \subseteq Seen,
         pb'.sema = pb.sema, UNCHANGED <<queued, entries, infos>>,
         \A c \in Channel : tracker'[c] = tracker[c] \/ tracker'[c] = 0
  PROVE  Bounds'
<1>1. Queueing /\ Downed /\ Tracked /\ Acquired /\ Bounded /\ InfosLeft
  BY DEF Bounds
<1>2. Queueing' /\ Tracked' /\ Acquired'
  BY <1>1, BoundsMove
<1>3. Downed'
  BY <1>1, DownedMove
<1>4. Bounded' /\ InfosLeft'
  BY <1>1, BoundedSame DEF InfosLeft
<1> QED BY <1>2, <1>3, <1>4 DEF Bounds

LEMMA BoundsQuiet ==
  ASSUME Shape, Bounds, NEW t \in Thread, QuietMove(t), UNCHANGED <<ring, sem, pb>>,
         tracker' = tracker \/ tracker' = [c \in Channel |-> 0]
  PROVE  Bounds'
<1>1. PICK s \in ThreadRecord : becomes(t, s) /\ Quiet(th[t], s)
  BY DEF QuietMove
<1>2. th[t].acquires \subseteq Seen
  BY DEF Bounds, Acquired
<1>3. (wants(s) => wants(th[t])) /\ (inside(s) <=> inside(th[t])) /\ s.acquires \subseteq Seen
  BY <1>1, <1>2, QuietBounds
<1>4. UNCHANGED <<queued, entries, infos>> /\ pb'.sema = pb.sema
  BY DEF ring, sem
<1>5. \A c \in Channel : tracker'[c] = tracker[c] \/ tracker'[c] = 0
  OBVIOUS
<1> QED BY <1>1, <1>3, <1>4, <1>5, BoundsSteady

LEMMA BoundsCalm ==
  ASSUME SuspendsSafely, Shape, Bounds, NEW t \in Thread,
         \/ Completed(t) \/ NoErrors(t) \/ CheckErrors(t) \/ ErrorFound(t) \/ ClaimFails(t)
         \/ ClaimFailsAgain(t) \/ NoChunk(t) \/ Wait(t) \/ (TrackerDone(t) /\ at(t, "drain"))
  PROVE  Bounds'
<1>1. QuietMove(t)
  BY CompletedMoves, NoErrorsMoves, CheckErrorsMoves, ErrorFoundMoves, ClaimFailsMoves,
     ClaimFailsAgainMoves, NoChunkMoves, WaitMoves, DrainMoves
<1>2. UNCHANGED <<ring, sem, pb>>
  BY DEF Completed, NoErrors, CheckErrors, ErrorFound, ClaimFails, ClaimFailsAgain, NoChunk, Wait,
         TrackerDone
<1>3. tracker' = tracker \/ tracker' = [c \in Channel |-> 0]
  BY DEF Completed, NoErrors, CheckErrors, ErrorFound, ClaimFails, ClaimFailsAgain, NoChunk, Wait,
         TrackerDone, clear_tracker
<1> QED BY <1>1, <1>2, <1>3, BoundsQuiet

(* The thread takes the semaphore and a chunk.                             *)
LEMMA BoundsBegin ==
  ASSUME Shape, Bounds, NEW t \in Thread, Begin(t)
  PROVE  Bounds'
<1>0. Queueing /\ Downed /\ Tracked /\ Acquired /\ Bounded /\ InfosLeft
  BY DEF Bounds
<1>1. PICK s \in ThreadRecord : Move(t, s) /\ Same(th[t], s) /\ s.pc = "chunk"
  BY BeginMoves
<1>2. th[t].pc = "begin" /\ th[t].ch \in Channel /\ th[t].ch # 0
  BY BeginMoves, Sizes DEF Pushes
<1>3. /\ pb.sema > 0 /\ pb' = [pb EXCEPT !.sema = pb.sema - 1] /\ UNCHANGED <<queued, entries, infos, tracker>>
  BY DEF Begin, ring, sem
<1>4. pb'.sema = pb.sema - 1
  BY <1>3 DEF Shape, Others, Buffer
<1>5. wants(s) => wants(th[t])
  BY <1>1, <1>2 DEF wants, Same
<1>6. inside(s) /\ ~inside(th[t]) /\ s.acquires \subseteq Seen
  BY <1>0, <1>1, <1>2 DEF inside, Same, Acquired
<1>7. Queueing' /\ Tracked' /\ Acquired'
  BY <1>0, <1>1, <1>3, <1>5, <1>6, BoundsMove DEF Move
<1>8. Downed'
  BY <1>0, <1>1, <1>3, <1>4, <1>6, DownedMove DEF Move
<1>9. Bounded' /\ InfosLeft'
  BY <1>0, <1>3, BoundedSame DEF InfosLeft
<1> QED BY <1>7, <1>8, <1>9 DEF Bounds

LEMMA BoundsClaimChunk ==
  ASSUME Shape, Bounds, NEW t \in Thread, ClaimChunk(t)
  PROVE  Bounds'
<1>1. PICK k \in pick_chunks(pb), s \in ThreadRecord :
              /\ k \in PbChunk /\ pb' = claim_chunk(pb, k, t)
              /\ Move(t, s) /\ s.pc = IF th[t].ok THEN "info" ELSE "begin_failed"
              /\ s.op = th[t].op /\ s.ch = th[t].ch /\ s.acquires = th[t].acquires
  BY ClaimChunkMoves
<1>2. th[t].pc = "chunk" /\ UNCHANGED <<queued, entries, infos, tracker>>
  BY DEF ClaimChunk, at, ring, sem
<1>3. pb'.sema = pb.sema
  BY <1>1, BufferClaim
<1>4. (wants(s) => wants(th[t])) /\ (inside(s) <=> inside(th[t]))
  BY <1>1, <1>2 DEF wants, inside
<1>5. s.acquires \subseteq Seen
  BY <1>1 DEF Bounds, Acquired
<1> QED BY <1>1, <1>2, <1>3, <1>4, <1>5, BoundsSteady DEF Move

(* The thread goes on with what it has.                                    *)
LEMMA BoundsSame ==
  ASSUME Shape, Bounds, NEW t \in Thread, NEW s \in ThreadRecord, Move(t, s), Same(th[t], s),
         <<th[t].pc, s.pc>> \in {<<"acquire", "end">>, <<"suspend", "release">>, <<"value", "complete">>},
         UNCHANGED <<queued, entries, infos, tracker, pb>>
  PROVE  Bounds'
<1>1. (wants(s) => wants(th[t])) /\ (inside(s) <=> inside(th[t]))
  BY DEF wants, inside, Same
<1>2. s.acquires \subseteq Seen
  BY DEF Bounds, Acquired, Same
<1> QED BY <1>1, <1>2, BoundsSteady DEF Move

(* A value that a push acquires was queued and is not completed.           *)
LEMMA BoundsTrackerEntry ==
  ASSUME Shape, Bounds, NEW t \in Thread, TrackerEntry(t)
  PROVE  Bounds'
<1>0. Queueing /\ Tracked /\ Acquired
  BY DEF Bounds
<1>1. PICK c \in Channel, s \in ThreadRecord :
         /\ tracker' = IF is_value_completed(c, tracker[c]) THEN [tracker EXCEPT ![c] = 0] ELSE tracker
         /\ Move(t, s) /\ s.pc = th[t].pc /\ s.op = th[t].op /\ s.ch = th[t].ch
         /\ \/ s.acquires = th[t].acquires
            \/ /\ s.acquires = th[t].acquires \cup {<<c, tracker[c]>>}
               /\ ~is_value_completed(c, tracker[c])
  BY TrackerEntryMoves
<1>2. UNCHANGED <<queued, entries, infos, pb>>
  BY DEF TrackerEntry, ring
<1>3. tracker \in [Channel -> Nat]
  BY DEF Shape, Semaphores
<1>4. \A d \in Channel : tracker'[d] = tracker[d] \/ tracker'[d] = 0
  BY <1>1, <1>3
<1>5. s.acquires \subseteq Seen
  <2>1. CASE s.acquires = th[t].acquires
    BY <1>0, <2>1 DEF Acquired
  <2>2. CASE /\ s.acquires = th[t].acquires \cup {<<c, tracker[c]>>}
             /\ ~is_value_completed(c, tracker[c])
    <3>1. ~(completed[c] >= tracker[c])
      BY <2>2 DEF is_value_completed
    <3>2. /\ queued[c] \in Nat /\ tracker[c] \in Nat /\ completed[c] \in Nat
          /\ queued[c] <= MaxQueued /\ MaxQueued \in Nat /\ tracker[c] <= queued[c]
      BY <1>0, BoundTypes DEF Tracked
    <3>3. tracker[c] \in 1 .. MaxQueued
      BY <3>1, <3>2
    <3> QED BY <1>0, <2>2, <3>3 DEF Acquired, Seen
  <2> QED BY <1>1, <2>1, <2>2
<1>6. (wants(s) => wants(th[t])) /\ (inside(s) <=> inside(th[t]))
  BY <1>1 DEF wants, inside
<1> QED BY <1>1, <1>2, <1>4, <1>5, <1>6, BoundsSteady DEF Move

LEMMA BoundsClaim ==
  ASSUME SuspendsSafely, Shape, Bounds, NEW t \in Thread, Claim(t)
  PROVE  Bounds'
<1>1. th[t].pc \in {"claim", "claim_again"} /\ th[t].ch = 0
  BY ClaimMoves
<1>2. PICK s \in ThreadRecord :
        /\ Move(t, s) /\ s.acquires = {}
        /\ s = idle \/ (s.op = th[t].op /\ s.pc \in {"begin", "write", "suspend"})
  BY ClaimMoves
<1>3. UNCHANGED <<queued, entries, infos, pb, tracker>>
  BY DEF Claim, sem
<1>4. (wants(s) => wants(th[t])) /\ (inside(s) <=> inside(th[t]))
  BY <1>1, <1>2 DEF wants, inside, idle
<1> QED BY <1>2, <1>3, <1>4, BoundsSteady DEF Move

LEMMA BoundsSuspendRelease ==
  ASSUME SuspendsSafely, Shape, Bounds, NEW t \in Thread, SuspendRelease(t)
  PROVE  Bounds'
<1>1. PICK s \in ThreadRecord :
        /\ Move(t, s) /\ s.ch = 0 /\ s.pc \in {"claim", "idle"} /\ s.acquires = {}
        /\ s.pc = "claim" => s.op = "suspend"
  BY SuspendReleaseMoves
<1>2. th[t].pc = "release" /\ UNCHANGED <<queued, entries, infos, pb, tracker>>
  BY DEF SuspendRelease, at, sem
<1>3. (wants(s) => wants(th[t])) /\ (inside(s) <=> inside(th[t]))
  BY <1>1, <1>2 DEF wants, inside
<1> QED BY <1>1, <1>2, <1>3, BoundsSteady DEF Move

(* may_push leaves room for the push, and for those of the other threads.  *)
LEMMA BoundsStart ==
  ASSUME Shape, Bounds, NEW t \in Thread, Start(t)
  PROVE  Bounds'
<1>0. Queueing /\ Downed /\ Tracked /\ Acquired /\ Bounded /\ InfosLeft
  BY DEF Bounds
<1>1. PICK s \in ThreadRecord : Move(t, s) /\ Starting(s)
  BY StartMoves
<1>2. th[t] = idle /\ UNCHANGED <<queued, entries, infos, pb, tracker>>
  BY StartMoves DEF unchanged, ring, sem
<1>3. (inside(s) <=> inside(th[t])) /\ ~wants(th[t]) /\ s.acquires \subseteq Seen
  BY <1>1, <1>2 DEF inside, idle, Starting, wants
<1>4. CASE ~wants(s)
  BY <1>1, <1>2, <1>3, <1>4, BoundsSteady DEF Move
<1>5. CASE wants(s)
  <2>1. may_push
    BY <1>1, <1>5 DEF Starting, wants
  <2> DEFINE Busy == {u \in Thread : th[u].pc # "idle"}
  <2>2. IsFiniteSet(Busy) /\ wanting \in SUBSET Busy
    <3>1. Busy \in SUBSET Thread
      OBVIOUS
    <3>2. wanting \in SUBSET Busy
      BY DEF wanting, wants
    <3> QED BY <3>1, <3>2, ChannelAssumption, FS_Subset
  <2>3. \A c \in Channel : queued[c] + Cardinality(Busy) < MaxQueued
    BY <2>1 DEF may_push
  <2> HIDE DEF Busy
  <2>4. Cardinality(wanting) <= Cardinality(Busy) /\ Cardinality(Busy) \in Nat
    BY <2>2, FS_Subset, FS_CardinalityType
  <2>5. /\ Cardinality(wanting) \in Nat /\ Cardinality(wanting') \in Nat
        /\ Cardinality(wanting') <= Cardinality(wanting) + 1
    BY <1>1, WantingStep DEF Move
  <2>6. Queueing'
    <3>1. ASSUME NEW c \in Channel
          PROVE  queued'[c] + Cardinality(wanting') <= MaxQueued
      <4>1. queued'[c] = queued[c] /\ queued[c] \in Nat /\ MaxQueued \in Nat
            /\ queued[c] + Cardinality(Busy) < MaxQueued
        BY <1>0, <1>2, <2>3, BoundTypes
      <4> QED BY <2>4, <2>5, <4>1
    <3> QED BY <3>1 DEF Queueing
  <2>7. th'[t] = s /\ \A u \in Thread \ {t} : th'[u] = th[u]
    BY <1>1 DEF becomes, Shape, Threads, Move
  <2>8. Acquired'
    BY <1>0, <1>3, <2>7 DEF Acquired, Seen
  <2>9. Downed'
    BY <1>0, <1>1, <1>2, <1>3, DownedMove DEF Move
  <2>10. Tracked' /\ Bounded' /\ InfosLeft'
    BY <1>0, <1>2, BoundedSame DEF Tracked, InfosLeft
  <2> QED BY <2>6, <2>8, <2>9, <2>10 DEF Bounds
<1> QED BY <1>4, <1>5

(* The push ends before it began: the semaphore is upped.                  *)
LEMMA BoundsBeginFailed ==
  ASSUME Shape, Bounds, NEW t \in Thread, BeginFailed(t)
  PROVE  Bounds'
<1>0. Queueing /\ Downed /\ Tracked /\ Acquired /\ Bounded /\ InfosLeft
  BY DEF Bounds
<1>1. th[t].pc = "begin_failed" /\ becomes(t, idle) /\ idle \in ThreadRecord
  BY IdleRecord DEF BeginFailed, at, returns
<1>2. th[t].ch # 0
  BY <1>1, PushState, Sizes DEF Pushing, Pushes
<1>3. pb' = [pb EXCEPT !.sema = pb.sema + 1] /\ UNCHANGED <<queued, entries, infos, tracker>>
  BY DEF BeginFailed, sem
<1>4. pb'.sema = pb.sema + 1
  BY <1>3 DEF Shape, Others, Buffer
<1>5. ~wants(idle) /\ ~inside(idle) /\ inside(th[t]) /\ idle.acquires \subseteq Seen
  BY <1>1, <1>2 DEF wants, inside, idle
<1>6. Queueing' /\ Tracked' /\ Acquired'
  BY <1>0, <1>1, <1>3, <1>5, BoundsMove
<1>7. Downed'
  BY <1>0, <1>1, <1>4, <1>5, DownedMove
<1>8. Bounded' /\ InfosLeft'
  BY <1>0, <1>3, BoundedSame DEF InfosLeft
<1> QED BY <1>6, <1>7, <1>8 DEF Bounds

LEMMA BoundsGetPushInfo ==
  ASSUME Shape, Bounds, NEW t \in Thread, GetPushInfo(t)
  PROVE  Bounds'
<1>0. Queueing /\ Downed /\ Tracked /\ Acquired /\ Bounded /\ InfosLeft
  BY DEF Bounds
<1>1. PICK s \in ThreadRecord : Move(t, s) /\ Same(th[t], s) /\ s.pc \in {"acquire", "end"}
  BY GetPushInfoMoves
<1>2. th[t].pc = "info" /\ th[t].ch \in Channel /\ UNCHANGED <<queued, entries, pb, tracker>>
  BY GetPushInfoMoves DEF GetPushInfo, sem, Pushes
<1>3. PICK c \in Channel : infos[c] > 0 /\ infos' = [infos EXCEPT ![c] = infos[c] - 1]
  BY <1>2 DEF GetPushInfo
<1>4. (wants(s) => wants(th[t])) /\ (inside(s) <=> inside(th[t])) /\ s.acquires \subseteq Seen
  BY <1>0, <1>1, <1>2 DEF wants, inside, Same, Acquired
<1>5. Queueing' /\ Tracked' /\ Acquired'
  BY <1>0, <1>1, <1>2, <1>4, BoundsMove DEF Move
<1>6. Downed'
  BY <1>0, <1>1, <1>2, <1>4, DownedMove DEF Move
<1>7. infos \in [Channel -> Int]
  BY DEF Shape, Rings
<1>8. InfosLeft'
  BY <1>0, <1>3, <1>7 DEF InfosLeft
<1> QED BY <1>0, <1>2, <1>5, <1>6, <1>8, BoundedSame DEF Bounds

(* An entry of channel c is written; its value is queued, or the next one. *)
LEMMA BoundedWritten ==
  ASSUME Shape, Queueing, Bounded, NEW c \in Channel, NEW i \in Index, NEW x \in Entry,
         entries' = [entries EXCEPT ![c][i] = x],
         queued' = queued \/ queued' = [queued EXCEPT ![c] = queued[c] + 1],
         EntryBound(x, queued'[c])
  PROVE  Bounded'
<1>1. /\ entries'[c] = [entries[c] EXCEPT ![i] = x]
      /\ \A d \in Channel \ {c} : entries'[d] = entries[d]
  BY EntryWritten
<1>2. entries \in [Channel -> [Index -> Entry]] /\ queued \in [Channel -> Nat]
  BY DEF Shape, Rings, Semaphores
<1>3. \A d \in Channel : queued'[d] \in Nat /\ queued[d] \in Nat /\ queued[d] <= queued'[d]
  BY <1>2
<1>4. ASSUME NEW d \in Channel, NEW j \in Index
      PROVE  EntryBound(entries'[d][j], queued'[d])
  <2>1. CASE d = c /\ j = i
    BY <1>1, <1>2, <2>1
  <2>2. CASE ~(d = c /\ j = i)
    <3>1. entries'[d][j] = entries[d][j]
      BY <1>1, <1>2, <2>2
    <3>2. EntryBound(entries[d][j], queued[d]) /\ entries[d][j].value \in Nat
      BY <1>2 DEF Bounded, Entry
    <3>3. entries[d][j].value <= queued'[d] + 1
      BY <1>3, <3>2 DEF EntryBound
    <3> QED BY <3>1, <3>2, <3>3 DEF EntryBound
  <2> QED BY <2>1, <2>2
<1> QED BY <1>4 DEF Bounded, EntryBound, Seen

LEMMA BoundsEndPush ==
  ASSUME Shape, Account, RingInv, Placed, Bounds, NEW t \in Thread, EndPush(t)
  PROVE  Bounds'
<1>0. Queueing /\ Downed /\ Tracked /\ Acquired /\ Bounded /\ InfosLeft
  BY DEF Bounds
<1>1. PICK c \in Channel, size \in PushSizes :
           /\ c = th[t].ch /\ c # 0 /\ th[t].pc = "end" /\ Pushes(th[t]) /\ becomes(t, idle)
           /\ queued' = [queued EXCEPT ![c] = queued[c] + 1]
           /\ entries' = [entries EXCEPT ![c][cpu_put[c]] = push_entry(t, c, size)]
           /\ count' = [count EXCEPT ![c] = (count[c] - 1) % CountMod]
           /\ cpu_put' = [cpu_put EXCEPT ![c] = (cpu_put[c] + 1) % NumEntries]
           /\ pb' = pushbuffer_end_push(pb, entries', <<c, cpu_put[c]>>)
           /\ tracker' = IF th[t].tracked /\ tracker[c] < queued'[c]
                         THEN [tracker EXCEPT ![c] = queued'[c]] ELSE tracker
           /\ UNCHANGED <<gpu_get, infos, completed, gpu, suspended, lock, fatal>>
           /\ pending(c) < NumEntries - 1
  BY EndPushRing, Zenon
<1>2. wants(th[t]) /\ ~wants(idle) /\ inside(th[t]) /\ ~inside(idle) /\ idle.acquires = {}
      /\ idle \in ThreadRecord
  BY <1>1, IdleRecord DEF wants, inside, idle, Pushes
<1>3. queued \in [Channel -> Nat] /\ tracker \in [Channel -> Nat] /\ MaxQueued \in Nat
      /\ cpu_put[c] \in Index
  BY Sizes DEF Shape, Semaphores, Rings
<1>4. /\ queued' \in [Channel -> Nat] /\ queued'[c] = queued[c] + 1
      /\ \A d \in Channel \ {c} : queued'[d] = queued[d]
  BY <1>1, <1>3
<1>5. Queueing'
  <2>1. /\ Cardinality(wanting) \in Nat /\ Cardinality(wanting') = Cardinality(wanting) - 1
    BY <1>1, <1>2, WantingStep
  <2>2. ASSUME NEW d \in Channel
        PROVE  queued'[d] + Cardinality(wanting') <= MaxQueued
    <3>1. queued[d] \in Nat /\ queued'[d] <= queued[d] + 1 /\ queued'[d] \in Nat
      BY <1>3, <1>4
    <3>2. queued[d] + Cardinality(wanting) <= MaxQueued
      BY <1>0 DEF Queueing
    <3> QED BY <1>3, <2>1, <3>1, <3>2
  <2> QED BY <2>2 DEF Queueing
<1>6. Downed'
  BY <1>0, <1>1, <1>2, PlacedEndPush, DownedMove
<1>7. Tracked'
  <2>1. ASSUME NEW d \in Channel
        PROVE  tracker'[d] <= queued'[d]
    <3>1. tracker[d] <= queued[d] /\ queued[d] <= queued'[d] /\ tracker[d] \in Nat
          /\ queued[d] \in Nat /\ queued'[d] \in Nat
      BY <1>0, <1>3, <1>4 DEF Tracked
    <3>2. tracker'[d] = tracker[d] \/ tracker'[d] = queued'[d]
      BY <1>1, <1>3
    <3> QED BY <3>1, <3>2
  <2> QED BY <2>1 DEF Tracked
<1>8. Acquired'
  <2>1. th'[t] = idle /\ \A u \in Thread \ {t} : th'[u] = th[u]
    BY <1>1 DEF becomes, Shape, Threads
  <2> QED BY <1>0, <1>2, <2>1 DEF Acquired, Seen
<1>9. Bounded'
  <2> DEFINE x == push_entry(t, c, size)
  <2>1. /\ x \in Entry /\ x.type = "NORMAL" /\ x.value = queued[c] + 1 /\ x.size = size
        /\ x.acquires = th[t].acquires
    BY PushEntry
  <2>2. size \in 0 .. MaxPushSize
    BY ChannelAssumption, PushbufferAssumption
  <2> HIDE DEF x
  <2>3. x.value <= queued'[c] + 1
    BY <1>3, <1>4, <2>1
  <2>4. EntryBound(x, queued'[c])
    BY <1>0, <2>1, <2>2, <2>3 DEF EntryBound, Acquired
  <2>5. entries' = [entries EXCEPT ![c][cpu_put[c]] = x]
    BY <1>1 DEF x
  <2> QED BY <1>0, <1>1, <1>3, <2>1, <2>4, <2>5, BoundedWritten
<1>10. InfosLeft'
  BY <1>0, <1>1 DEF InfosLeft
<1> QED BY <1>5, <1>6, <1>7, <1>8, <1>9, <1>10 DEF Bounds

LEMMA BoundsWriteCtrl ==
  ASSUME Shape, Account, Bounds, NEW t \in Thread, WriteCtrl(t)
  PROVE  Bounds'
<1>0. Queueing /\ Downed /\ Tracked /\ Acquired /\ Bounded /\ InfosLeft
  BY DEF Bounds
<1>1. PICK c \in Channel :
           /\ th[t].pc = "write"
           /\ entries' = [entries EXCEPT ![c][cpu_put[c]] = control_entry(c)]
           /\ UNCHANGED <<gpu_get, infos, sem, gpu, suspended, lock, pb, tracker, fatal>>
  BY WriteCtrlRing
<1>2. PICK s \in ThreadRecord : Move(t, s) /\ Same(th[t], s) /\ s.pc = "begin"
  BY WriteCtrlMoves
<1>3. UNCHANGED <<infos, queued, pb, tracker>>
  BY <1>1 DEF sem
<1>4. (wants(s) => wants(th[t])) /\ (inside(s) <=> inside(th[t])) /\ s.acquires \subseteq Seen
  BY <1>0, <1>1, <1>2 DEF wants, inside, Same, Acquired
<1>5. Queueing' /\ Tracked' /\ Acquired'
  BY <1>0, <1>2, <1>3, <1>4, BoundsMove DEF Move
<1>6. Downed'
  BY <1>0, <1>2, <1>3, <1>4, DownedMove DEF Move
<1>7. Bounded'
  <2> DEFINE x == control_entry(c)
  <2>1. x \in Entry /\ x.type = "CONTROL" /\ x.value = queued[c] + 1 /\ queued[c] \in Nat
    BY ControlEntry DEF Shape, Semaphores
  <2>2. x.size = 0 /\ x.acquires = {} /\ x.offset = 0
    BY DEF control_entry, no_entry
  <2> HIDE DEF x
  <2>3. 0 \in 0 .. MaxPushSize /\ cpu_put[c] \in Index
    BY PushbufferAssumption DEF Shape, Rings
  <2>4. EntryBound(x, queued'[c])
    BY <1>3, <2>1, <2>2, <2>3 DEF EntryBound
  <2>5. entries' = [entries EXCEPT ![c][cpu_put[c]] = x]
    BY <1>1 DEF x
  <2> QED BY <1>0, <1>3, <2>1, <2>3, <2>4, <2>5, BoundedWritten
<1>8. InfosLeft'
  BY <1>0, <1>3 DEF InfosLeft
<1> QED BY <1>5, <1>6, <1>7, <1>8 DEF Bounds

LEMMA BoundsComplete ==
  ASSUME Shape, Placed, Bounds, NEW t \in Thread, Complete(t)
  PROVE  Bounds'
<1>0. Queueing /\ Downed /\ Tracked /\ Acquired /\ Bounded /\ InfosLeft
  BY DEF Bounds
<1>1. PICK c \in Channel :
           /\ entries' = [entries EXCEPT ![c][gpu_get[c]] = no_entry]
           /\ infos' = IF entries[c][gpu_get[c]].type = "NORMAL"
                       THEN [infos EXCEPT ![c] = infos[c] + 1] ELSE infos
           /\ UNCHANGED <<cpu_put, count, sem, gpu, suspended, tracker, fatal>>
  BY CompleteRing
<1>2. PICK s \in ThreadRecord : Move(t, s) /\ Same(th[t], s) /\ s.pc = "complete"
  BY CompleteMoves
<1>3. UNCHANGED <<queued, tracker>> /\ pb'.sema = pb.sema /\ th[t].pc = "complete"
  BY <1>1, PlacedComplete, CompleteMoves DEF sem
<1>4. (wants(s) => wants(th[t])) /\ (inside(s) <=> inside(th[t])) /\ s.acquires \subseteq Seen
  BY <1>0, <1>2, <1>3 DEF wants, inside, Same, Acquired
<1>5. Queueing' /\ Tracked' /\ Acquired'
  BY <1>0, <1>2, <1>3, <1>4, BoundsMove DEF Move
<1>6. Downed'
  BY <1>0, <1>2, <1>3, <1>4, DownedMove DEF Move
<1>7. Bounded'
  <2>1. /\ no_entry \in Entry /\ gpu_get[c] \in Index /\ queued'[c] \in Nat
        /\ 0 \in 0 .. MaxPushSize
    BY <1>3, NoEntry, PushbufferAssumption DEF Shape, Rings, Semaphores
  <2>2. EntryBound(no_entry, queued'[c])
    BY <2>1 DEF EntryBound, no_entry
  <2> QED BY <1>0, <1>1, <1>3, <2>1, <2>2, BoundedWritten
<1>8. InfosLeft'
  <2>1. infos \in [Channel -> Int]
    BY DEF Shape, Rings
  <2> QED BY <1>0, <1>1, <2>1 DEF InfosLeft
<1> QED BY <1>5, <1>6, <1>7, <1>8 DEF Bounds

LEMMA BoundsRun ==
  ASSUME SuspendsSafely, Inv, Bounds, NEW t \in Thread, Run(t) \/ Start(t)
  PROVE  Bounds'
<1>0. Shape /\ Account /\ RingInv /\ Placed
  BY DEF Inv
<1>1. CASE TrackerDone(t) /\ at(t, "acquire")
  <2>1. PICK s \in ThreadRecord : Move(t, s) /\ Same(th[t], s) /\ s.pc = "end"
    BY <1>0, <1>1, AcquireMoves
  <2>2. th[t].pc = "acquire" /\ UNCHANGED <<queued, entries, infos, tracker, pb>>
    BY <1>1 DEF TrackerDone, at, ring, sem
  <2> QED BY <1>0, <2>1, <2>2, BoundsSame
<1>2. CASE Suspend(t)
  <2>1. PICK s \in ThreadRecord : Move(t, s) /\ Same(th[t], s) /\ s.pc = "release"
    BY <1>0, <1>2, SuspendMoves
  <2>2. th[t].pc = "suspend" /\ UNCHANGED <<queued, entries, infos, tracker, pb>>
    BY <1>2 DEF Suspend, at, ring, sem
  <2> QED BY <1>0, <2>1, <2>2, BoundsSame
<1>3. CASE UpdateValue(t)
  <2>1. PICK s \in ThreadRecord : Move(t, s) /\ Same(th[t], s) /\ s.pc = "complete"
    BY <1>0, <1>3, UpdateValueMoves
  <2>2. th[t].pc = "value" /\ UNCHANGED <<queued, entries, infos, tracker, pb>>
    BY <1>3 DEF UpdateValue, at, ring
  <2> QED BY <1>0, <2>1, <2>2, BoundsSame
<1>4. TrackerDone(t) => at(t, "acquire") \/ at(t, "drain")
  BY DEF TrackerDone, at
<1>5. CASE \/ Completed(t) \/ NoErrors(t) \/ CheckErrors(t) \/ ErrorFound(t) \/ ClaimFails(t)
           \/ ClaimFailsAgain(t) \/ NoChunk(t) \/ Wait(t) \/ (TrackerDone(t) /\ at(t, "drain"))
  BY <1>0, <1>5, BoundsCalm
<1>6. CASE Begin(t) \/ ClaimChunk(t) \/ TrackerEntry(t) \/ Claim(t) \/ SuspendRelease(t) \/ Start(t)
  BY <1>0, <1>6, BoundsBegin, BoundsClaimChunk, BoundsTrackerEntry, BoundsClaim,
     BoundsSuspendRelease, BoundsStart
<1>7. CASE BeginFailed(t) \/ GetPushInfo(t) \/ EndPush(t) \/ WriteCtrl(t) \/ Complete(t)
  BY <1>0, <1>7, BoundsBeginFailed, BoundsGetPushInfo, BoundsEndPush, BoundsWriteCtrl, BoundsComplete
<1> QED BY <1>1, <1>2, <1>3, <1>4, <1>5, <1>6, <1>7 DEF Run

LEMMA BoundsElse ==
  ASSUME Bounds, UNCHANGED <<queued, th, pb, tracker, entries, infos>>
  PROVE  Bounds'
  BY DEF Bounds, Queueing, wanting, wants, Downed, downers, inside, Tracked, Acquired, Seen,
         Bounded, EntryBound, InfosLeft

LEMMA BoundsNext ==
  ASSUME SuspendsSafely, Inv, Bounds, [Next]_vars
  PROVE  Bounds'
<1>1. ASSUME NEW t \in Thread, Run(t) \/ Start(t)
      PROVE  Bounds'
  BY <1>1, BoundsRun
<1>2. CASE (\E c \in Channel : Execute(c) \/ ChannelError(c)) \/ ResumeP2P \/ UNCHANGED vars
  <2>1. UNCHANGED <<ring, sem, pb, tracker, th>>
    BY <1>2 DEF Execute, ChannelError, ResumeP2P, vars
  <2>2. UNCHANGED <<queued, entries, infos>>
    BY <2>1 DEF ring, sem
  <2> QED BY <2>1, <2>2, BoundsElse
<1> QED BY <1>1, <1>2 DEF Next

LEMMA BoundsInit ==
  ASSUME Init
  PROVE  Bounds
<1>1. \A t \in Thread : th[t] = idle
  BY DEF Init
<1>2. wanting = {} /\ downers = {}
  BY <1>1 DEF wanting, wants, downers, inside, idle
<1>3. Cardinality({}) = 0
  BY FS_EmptySet
<1>4. Queueing
  BY <1>2, <1>3, Sizes DEF Queueing, Init
<1>5. Downed
  BY <1>2, <1>3, PushbufferAssumption DEF Downed, Init, pushbuffer_create
<1>6. Tracked /\ InfosLeft
  BY Sizes DEF Tracked, InfosLeft, Init
<1>7. Acquired
  BY <1>1 DEF Acquired, idle
<1>8. Bounded
  <2>1. 0 \in 0 .. MaxPushSize
    BY PushbufferAssumption
  <2>2. EntryBound(no_entry, 0)
    BY <2>1 DEF EntryBound, no_entry
  <2>3. \A c \in Channel, i \in Index : entries[c][i] = no_entry /\ queued[c] = 0
    BY DEF Init
  <2> QED BY <2>2, <2>3 DEF Bounded
<1> QED BY <1>4, <1>5, <1>6, <1>7, <1>8 DEF Bounds

(* The place of a pending push is in the pushbuffer.                       *)
LEMMA OffsetBound ==
  ASSUME Inv, Bounds, NEW c \in Channel, NEW i \in Index
  PROVE  entries[c][i].offset \in 0 .. NumChunks * ChunkSize
<1> DEFINE e == entries[c][i]
           g == <<c, i>>
<1>0. NumChunks \in Nat \ {0} /\ ChunkSize \in Nat
  BY PushbufferAssumption
<1>1. NumChunks * ChunkSize \in Nat
  BY <1>0
<1>2. Shape /\ Listing /\ ChunksInv(pb, entries)
  BY DEF Inv, Placed
<1>3. /\ pb \in Buffers(Place, Thread) /\ Sized(entries, Place)
      /\ entry_of(entries, g) = e /\ e \in Entry /\ g \in Place
  BY <1>2, BufferTypes DEF Place
<1>4. CASE e.type # "NORMAL"
  <2>1. e.offset = 0
    BY <1>4 DEF Bounds, Bounded, EntryBound
  <2> QED BY <1>1, <2>1
<1>5. CASE e.type = "NORMAL"
  <2>1. listed(pb, g)
    BY <1>2, <1>3, <1>5 DEF Listing
  <2>2. PICK k \in PbChunk : within(pb.pending[k], g)
    BY <2>1 DEF listed
  <2>3. PICK j \in 1 .. Len(pb.pending[k]) : pb.pending[k][j] = g
    BY <2>2 DEF within
  <2> DEFINE s == pb.pending[k]
  <2>4. s \in Seq(Place)
    BY <1>3 DEF Buffers
  <2>5. /\ lows(entries, s)[j] = e.offset /\ highs(entries, s)[j] = e.offset + e.size
    BY <1>3, <2>3, <2>4, ListTypes
  <2>6. Orderly(entries, s, k)
    BY <1>2 DEF ChunksInv, ChunkInv
  <2>7. /\ chunk_get_offset(k) <= e.offset /\ e.offset < e.offset + e.size
        /\ e.offset + e.size <= chunk_get_offset(k) + ChunkSize
    BY <2>3, <2>5, <2>6 DEF Orderly, Areas
  <2>8. k \in 0 .. NumChunks - 1 /\ e.offset \in Int /\ e.size \in Int
    BY <1>3 DEF PbChunk, Entry
  <2>9. 0 <= k * ChunkSize /\ k * ChunkSize + ChunkSize <= NumChunks * ChunkSize /\ k * ChunkSize \in Int
    <3>1. k \in Nat /\ NumChunks - 1 - k \in Nat
      BY <1>0, <2>8
    <3>2. k * ChunkSize \in Nat /\ (NumChunks - 1 - k) * ChunkSize \in Nat
      BY <1>0, <3>1
    <3>3. NumChunks * ChunkSize = (NumChunks - 1 - k) * ChunkSize + k * ChunkSize + ChunkSize
      BY <1>0, <3>1
    <3> QED BY <1>0, <1>1, <3>2, <3>3
  <2> HIDE DEF e
  <2>10. chunk_get_offset(k) = k * ChunkSize
    BY DEF chunk_get_offset
  <2> DEFINE a == k * ChunkSize
             b == NumChunks * ChunkSize
  <2>11. /\ 0 <= a /\ a + ChunkSize <= b /\ a \in Int /\ b \in Nat
         /\ a <= e.offset /\ e.offset < e.offset + e.size /\ e.offset + e.size <= a + ChunkSize
    BY <1>1, <2>7, <2>9, <2>10
  <2> HIDE DEF a, b
  <2>12. e.offset \in 0 .. b
    BY <1>0, <2>8, <2>11
  <2> QED BY <2>12 DEF b, e
<1> QED BY <1>4, <1>5

LEMMA EntryType ==
  ASSUME Inv, Bounds, NEW c \in Channel, NEW i \in Index
  PROVE  entries[c][i] \in
           [type : {"none", "NORMAL", "CONTROL"}, value : 0 .. MaxQueued + 1,
            offset : 0 .. NumChunks * ChunkSize, size : 0 .. MaxPushSize,
            acquires : SUBSET (Channel \X (1 .. MaxQueued)), p2p : BOOLEAN]
<1> DEFINE e == entries[c][i]
<1>1. e \in Entry
  BY DEF Inv, Shape, Rings
<1>2. e.offset \in 0 .. NumChunks * ChunkSize
  BY OffsetBound
<1>3. EntryBound(e, queued[c]) /\ queued[c] \in Nat /\ queued[c] <= MaxQueued /\ MaxQueued \in Nat
  BY BoundTypes DEF Bounds, Bounded, Inv
<1> HIDE DEF e
<1>4. e.value \in 0 .. MaxQueued + 1
  BY <1>1, <1>3 DEF EntryBound, Entry
<1>5. e.size \in 0 .. MaxPushSize /\ e.acquires \in SUBSET (Channel \X (1 .. MaxQueued))
  BY <1>3 DEF EntryBound, Seen
<1> DEFINE N == 0 .. NumChunks * ChunkSize
           S == SUBSET (Channel \X (1 .. MaxQueued))
           V == 0 .. MaxQueued + 1
           Z == 0 .. MaxPushSize
<1> HIDE DEF N, S, V, Z
<1>6. e.offset \in N /\ e.acquires \in S /\ e.value \in V /\ e.size \in Z
  BY <1>2, <1>4, <1>5 DEF N, S, V, Z
<1>7. e \in [type : {"none", "NORMAL", "CONTROL"}, value : V, offset : N, size : Z, acquires : S,
             p2p : BOOLEAN]
  BY <1>1, <1>6 DEF Entry
<1> QED BY <1>7 DEF e, N, S, V, Z

LEMMA RecordType ==
  ASSUME Inv, Bounds, NEW t \in Thread
  PROVE  th[t] \in
      [pc : Steps, op : OpKinds, ch : 0 .. NumChannels, up : 0 .. NumChannels,
       todo : SUBSET Channel, tracked : BOOLEAN, ok : BOOLEAN, first : BOOLEAN,
       value : 0 .. MaxQueued, done : 0 .. NumEntries, max : 0 .. NumEntries,
       pending : 0 .. NumEntries, ret : Steps, loc : Steps, k : 0 .. NumChunks - 1,
       acquires : SUBSET (Channel \X (1 .. MaxQueued))]
<1> DEFINE r == th[t]
<1>1. Shape /\ RingInv /\ Values /\ Queueing
  BY DEF Inv, Bounds
<1>2. r \in ThreadRecord /\ Flow(r, fatal)
  BY <1>1 DEF Shape, Threads
<1>3. r.value \in 0 .. MaxQueued
  <2>1. MaxQueued \in Nat
    BY Sizes
  <2>2. CASE r.pc = "complete"
    <3>1. r.up \in Channel /\ r.value \in Nat
      BY <1>2, <2>2 DEF Flow, Counted, Progress, ThreadRecord
    <3>2. PICK c \in Channel : c = r.up
      BY <3>1
    <3>3. r.value <= completed[c]
      BY <1>1, <2>2, <3>2 DEF Values, at
    <3>4. completed[c] <= released[c] /\ released[c] <= queued[c]
      BY <1>1, RingTypes, RingSemaphore DEF RingInv, Ring
    <3>5. completed[c] \in Nat /\ released[c] \in Nat /\ queued[c] \in Nat /\ queued[c] <= MaxQueued
      BY <1>1, BoundTypes DEF Shape, Semaphores
    <3> QED BY <2>1, <3>1, <3>3, <3>4, <3>5
  <2>3. CASE r.pc # "complete"
    BY <1>2, <2>1, <2>3 DEF Flow, Counted
  <2> QED BY <2>2, <2>3
<1>4. r.max \in 0 .. NumEntries /\ r.done \in 0 .. NumEntries
  <2>1. r.max \in Nat /\ r.done \in Nat /\ NumEntries \in Nat
    BY <1>2, Sizes DEF ThreadRecord
  <2>2. r.max <= NumEntries /\ (r.done <= r.max \/ r.done = 0)
    BY <1>2 DEF Flow, Counted
  <2> QED BY <2>1, <2>2
<1>5. r.acquires \in SUBSET (Channel \X (1 .. MaxQueued))
  BY DEF Bounds, Acquired, Seen
<1> HIDE DEF r
<1> DEFINE S == SUBSET (Channel \X (1 .. MaxQueued))
           V == 0 .. MaxQueued
           E == 0 .. NumEntries
<1> HIDE DEF S, V, E
<1>6. r.value \in V /\ r.max \in E /\ r.done \in E /\ r.acquires \in S /\ r.pending \in E
  BY <1>2, <1>3, <1>4, <1>5 DEF S, V, E, ThreadRecord
<1>7. r \in
      [pc : Steps, op : OpKinds, ch : 0 .. NumChannels, up : 0 .. NumChannels,
       todo : SUBSET Channel, tracked : BOOLEAN, ok : BOOLEAN, first : BOOLEAN,
       value : V, done : E, max : E, pending : E, ret : Steps, loc : Steps, k : 0 .. NumChunks - 1,
       acquires : S]
  BY <1>2, <1>6 DEF ThreadRecord, PbChunk
<1> QED BY <1>7 DEF r, S, V, E

(* The types, with their bounds: no channel queues more pushes than its    *)
(* callers may start, concurrent_pushes_sema stays between zero and the    *)
(* number of chunks, the push infos are never overdrawn, every value that  *)
(* is tracked or acquired was queued, and every push lies inside the       *)
(* pushbuffer.                                                             *)
THEOREM ChannelTypes ==
  ASSUME SuspendsSafely
  PROVE  Spec => []TypeOK
<1>1. Init => Bounds
  BY BoundsInit
<1>2. Inv /\ Bounds /\ [Next]_vars => Bounds'
  BY BoundsNext
<1>3. Inv /\ Bounds => TypeOK
  <2> SUFFICES ASSUME Inv, Bounds PROVE TypeOK
    OBVIOUS
  <2>1. Shape /\ Account /\ RingInv /\ Infos /\ Queueing /\ Downed /\ Tracked /\ InfosLeft
    BY DEF Inv, Bounds
  <2> DEFINE E == [type : {"none", "NORMAL", "CONTROL"}, value : 0 .. MaxQueued + 1,
                   offset : 0 .. NumChunks * ChunkSize, size : 0 .. MaxPushSize,
                   acquires : SUBSET (Channel \X (1 .. MaxQueued)), p2p : BOOLEAN]
             R == [pc : Steps, op : OpKinds, ch : 0 .. NumChannels, up : 0 .. NumChannels,
                   todo : SUBSET Channel, tracked : BOOLEAN, ok : BOOLEAN, first : BOOLEAN,
                   value : 0 .. MaxQueued, done : 0 .. NumEntries, max : 0 .. NumEntries,
                   pending : 0 .. NumEntries, ret : Steps, loc : Steps, k : 0 .. NumChunks - 1,
                   acquires : SUBSET (Channel \X (1 .. MaxQueued))]
  <2>2. (\A c \in Channel, i \in Index : entries[c][i] \in E) /\ \A t \in Thread : th[t] \in R
    BY EntryType, RecordType
  <2> HIDE DEF E, R
  <2>3. entries \in [Channel -> [Index -> E]]
    <3>1. entries \in [Channel -> [Index -> Entry]]
      BY <2>1 DEF Shape, Rings
    <3>2. \A c \in Channel : entries[c] \in [Index -> E]
      BY <2>2, <3>1
    <3> QED BY <3>1, <3>2
  <2>4. th \in [Thread -> R]
    BY <2>1, <2>2 DEF Shape, Threads
  <2>5. ASSUME NEW c \in Channel
        PROVE  /\ count[c] \in 0 .. CountMod - 1 /\ infos[c] \in 0 .. NumEntries
               /\ queued[c] \in 0 .. MaxQueued /\ completed[c] \in 0 .. MaxQueued
               /\ released[c] \in 0 .. MaxQueued /\ tracker[c] \in 0 .. MaxQueued
    <3>1. /\ count[c] \in Nat /\ infos[c] \in Int /\ released[c] \in Nat /\ queued[c] \in Nat
          /\ completed[c] \in Nat /\ tracker[c] \in Nat /\ queued[c] <= MaxQueued
          /\ MaxQueued \in Nat
      BY <2>1, BoundTypes DEF Shape, Rings, Semaphores
    <3>2. completed[c] <= released[c] /\ released[c] <= queued[c]
      BY <2>1, RingTypes, RingSemaphore DEF RingInv, Ring
    <3>3. tracker[c] <= queued[c] /\ infos[c] >= 0
      BY <2>1 DEF Tracked, InfosLeft
    <3>4. infos[c] <= NumEntries
      <4>1. Cardinality(busy(c)) \in Nat /\ Cardinality(sending(c)) \in Nat /\ NumEntries \in Nat
        BY InfosFinite, Sizes
      <4>2. infos[c] = NumEntries - Cardinality(busy(c)) - Cardinality(sending(c))
        BY <2>1 DEF Infos
      <4> QED BY <4>1, <4>2
    <3>5. count[c] < CountMod /\ CountMod \in Nat
      <4>1. count[c] + pending(c) < NumEntries
        BY <2>1 DEF Account, Accounted
      <4>2. pending(c) \in Nat
        BY <2>1, PendingType, Sizes DEF Shape
      <4>3. NumEntries < CountMod /\ NumEntries \in Nat /\ CountMod \in Nat
        BY Sizes
      <4> QED BY <3>1, <4>1, <4>2, <4>3
    <3>6. NumEntries \in Nat
      BY Sizes
    <3>7. queued[c] \in 0 .. MaxQueued /\ completed[c] \in 0 .. MaxQueued
          /\ released[c] \in 0 .. MaxQueued /\ tracker[c] \in 0 .. MaxQueued
      BY <3>1, <3>2, <3>3
    <3> QED BY <3>1, <3>3, <3>4, <3>5, <3>6, <3>7
  <2>6. /\ count \in [Channel -> 0 .. CountMod - 1] /\ infos \in [Channel -> 0 .. NumEntries]
        /\ queued \in [Channel -> 0 .. MaxQueued] /\ completed \in [Channel -> 0 .. MaxQueued]
        /\ released \in [Channel -> 0 .. MaxQueued] /\ tracker \in [Channel -> 0 .. MaxQueued]
    BY <2>1, <2>5 DEF Shape, Rings, Semaphores
  <2>7. pb.sema \in 0 .. NumChunks
    <3>1. downers \in SUBSET Thread
      BY DEF downers
    <3>2. IsFiniteSet(downers)
      BY <3>1, ChannelAssumption, FS_Subset
    <3>3. Cardinality(downers) \in Nat
      BY <3>2, FS_CardinalityType
    <3>4. pb.sema \in Int /\ NumChunks \in Nat /\ pb.sema + Cardinality(downers) = NumChunks
      BY <2>1, BoundTypes DEF Downed
    <3>5. pb.sema >= 0
      BY <2>1 DEF Downed
    <3> QED BY <3>3, <3>4, <3>5
  <2>8. /\ cpu_put \in [Channel -> Index] /\ gpu_get \in [Channel -> Index]
        /\ executed \in [Channel -> Index] /\ error \in [Channel -> BOOLEAN]
        /\ suspended \in [Channel -> BOOLEAN] /\ lock \in [Pool -> Thread \cup {NoThread}]
        /\ fatal \in BOOLEAN
    BY <2>1 DEF Shape, Rings, Semaphores, Others
  <2> QED BY <2>3, <2>4, <2>6, <2>7, <2>8 DEF TypeOK, E, R
<1> QED BY <1>1, <1>2, <1>3, ChannelInvariant, PTL DEF Spec
==============================================================================
