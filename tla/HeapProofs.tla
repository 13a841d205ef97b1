----------------------------- MODULE HeapProofs -----------------------------
(***************************************************************************)
(* Proofs about the guest heap, for every page size, minimum chunk size,   *)
(* address width, layout of segments, set of sizes and alignments, and     *)
(* number of blocks.                                                       *)
(*                                                                         *)
(* Each operation of Allocator exchanges some chunks for pieces of them    *)
(* (Exchanged).  What may be such a piece is worked out once per           *)
(* operation; that the chunk tables stay well formed, that no byte is      *)
(* lost, and that chunks which belong to the guest stay clear of what is   *)
(* reserved, then follows for all of them alike.                           *)
(***************************************************************************)
EXTENDS Allocator, FiniteSetTheorems, NaturalsInduction, WellFoundedInduction, TLAPS

(* The constants are positive numbers. *)
LEMMA HeapConstants ==
  /\ AddressBits \in Nat
  /\ MIN_CHUNK_SIZE \in Nat \ {0} /\ PAGE_SIZE \in Nat \ {0}
  /\ AddressSpace \in Nat \ {0} /\ StackLow \in Nat \ {0}
  /\ NullSize \in Nat \ {0} /\ Header \in Nat \ {0}
  /\ MIN_CHUNK_SIZE < PAGE_SIZE /\ NullSize < StackLow /\ StackLow < AddressSpace
  /\ Segments \subseteq [base : Nat, size : Nat \ {0}]
<1> HIDE DEF AddressSpace
<1> QED BY AllocAssumption

LEMMA HeapMinIn ==
  ASSUME NEW T \in SUBSET Nat, T # {}
  PROVE  Min(T) \in T /\ \A y \in T : Min(T) <= y
<1>1. \E x \in T : \A y \in T : ~(<<y, x>> \in OpToRel(<, Nat))
  BY WFMin, NatLessThanWellFounded
<1>2. ASSUME NEW x \in Nat, NEW y \in Nat, y < x PROVE <<y, x>> \in OpToRel(<, Nat)
  BY <1>2 DEF OpToRel
<1>3. \E x \in T : \A y \in T : ~(y < x)
  BY <1>1, <1>2
<1>4. \E x \in T : \A y \in T : x <= y
  BY <1>3
<1>5. QED
  BY <1>4 DEF Min

(* Quotient and remainder. *)
LEMMA Euclid ==
  ASSUME NEW a \in Nat, NEW m \in Nat \ {0}, NEW q, q = a \div m, NEW r, r = a % m
  PROVE  q \in Nat /\ r \in Nat /\ r < m /\ a = q * m + r
<1>1. q \in Nat /\ r \in Nat /\ r < m
  OBVIOUS
<1>2. a = m * q + r
  BY SMTT(30)
<1> QED BY <1>1, <1>2

(* Rounding up: at least a, less than a + m, and a multiple of m. *)
LEMMA RoundUp ==
  ASSUME NEW a \in Nat, NEW m \in Nat \ {0}, NEW u, u = ((a + m - 1) \div m) * m
  PROVE  u \in Nat /\ u >= a /\ u < a + m /\ u % m = 0
<1> DEFINE n == a + m - 1
           q == n \div m
           r == n % m
<1>1. n \in Nat
  OBVIOUS
<1>2. q \in Nat /\ r \in Nat /\ r < m /\ n = q * m + r
  <2> HIDE DEF n
  <2> QED BY <1>1, Euclid
<1>3. u = q * m
  OBVIOUS
<1> HIDE DEF q, r
<1>4. u \in Nat /\ n = u + r
  BY <1>2, <1>3
<1>5. (q * m) % m = 0
  BY <1>2
<1> QED BY <1>2, <1>3, <1>4, <1>5

LEMMA Remainder ==
  ASSUME NEW q \in Nat, NEW r \in Nat, NEW m \in Nat \ {0}, r < m
  PROVE  (q * m + r) % m = r
  OBVIOUS

(* Sums and differences of multiples are multiples. *)
LEMMA MultipleSum ==
  ASSUME NEW a \in Nat, NEW b \in Nat, NEW m \in Nat \ {0}, a % m = 0
  PROVE  (a + b) % m = 0 <=> b % m = 0
<1> DEFINE p == a \div m
           q == b \div m
           r == b % m
<1>1. p \in Nat /\ a = p * m
  <2>1. p \in Nat /\ a = p * m + 0
    BY Euclid
  <2> HIDE DEF p
  <2> QED BY <2>1
<1>2. q \in Nat /\ r \in Nat /\ r < m /\ b = q * m + r
  BY Euclid
<1> HIDE DEF p, q
<1>3. a + b = (p + q) * m + r
  <2> HIDE DEF r
  <2> QED BY <1>1, <1>2
<1>4. p + q \in Nat
  BY <1>1, <1>2
<1>5. ((p + q) * m + r) % m = r
  <2> HIDE DEF r
  <2> QED BY <1>2, <1>4, Remainder
<1> QED BY <1>3, <1>5

(* What alloc rounds a request up to. *)
LEMMA AlignedSizeFacts ==
  ASSUME NEW size \in Nat, NEW n, n = AlignedSize(size), n # NULL
  PROVE  /\ n \in Nat /\ n >= size /\ n >= MIN_CHUNK_SIZE
         /\ n < PAGE_SIZE \/ n % PAGE_SIZE = 0
<1> DEFINE M == MIN_CHUNK_SIZE
           P == PAGE_SIZE
<1>0. M \in Nat \ {0} /\ P \in Nat \ {0} /\ M < P /\ P % M = 0
  BY HeapConstants, AllocAssumption
<1>1. CASE size < P
  <2> DEFINE s == IF size < M THEN M ELSE size
             u == ((s + M - 1) \div M) * M
  <2>1. s \in Nat /\ s >= size /\ s >= M /\ s < P
    BY <1>0, <1>1
  <2>2. n = u
    BY <1>1 DEF AlignedSize, Align, NULL
  <2>3. u \in Nat /\ u >= s /\ u < s + M /\ u % M = 0
    <3> HIDE DEF s, M
    <3> QED BY <2>1, <1>0, RoundUp
  <2>4. u <= P
    <3> SUFFICES ASSUME u > P PROVE FALSE
      BY <1>0, <2>3
    <3>1. u - P \in Nat /\ u - P > 0 /\ u - P < M /\ P + (u - P) = u
      <4> HIDE DEF u, s, M, P
      <4> QED BY <1>0, <2>1, <2>3
    <3>2. (P + (u - P)) % M = 0 <=> (u - P) % M = 0
      <4> HIDE DEF u, M, P
      <4> QED BY <1>0, <3>1, MultipleSum
    <3>3. (u - P) % M = 0
      BY <3>1, <3>2, <2>3
    <3>4. (u - P) % M = u - P
      <4> HIDE DEF u, M, P
      <4> QED BY <1>0, <3>1
    <3> QED
      <4> HIDE DEF u, M, P
      <4> QED BY <3>1, <3>3, <3>4
  <2>5. P % P = 0
    BY <1>0
  <2> HIDE DEF u, s
  <2> QED BY <2>1, <2>2, <2>3, <2>4, <2>5, <1>0
<1>2. CASE ~(size < P)
  <2> DEFINE u == ((size + P - 1) \div P) * P
  <2>1. n = u
    BY <1>2 DEF AlignedSize, Align, NULL
  <2>2. u \in Nat /\ u >= size /\ u % P = 0
    <3> HIDE DEF P
    <3> QED BY <1>0, RoundUp
  <2> HIDE DEF u
  <2> QED BY <2>1, <2>2, <1>0, <1>2
<1> QED BY <1>1, <1>2

-----------------------------------------------------------------------------
(* Chunks *)

AnyChunk == [base : Nat, size : Nat \ {0}]

(* Two chunks without a common byte. *)
Apart(c, e) == c.base + c.size <= e.base \/ e.base + e.size <= c.base

(* What Chunk::new asserts, and that the chunk ends inside the address space. *)
Placed(c) ==
  /\ c.base + c.size <= AddressSpace
  /\ c.size >= PAGE_SIZE => PageAligned(c.base)

AllChunks(h) == h.used \cup h.unused

(* What the operations of Allocator keep true of the two chunk tables. *)
GoodHeap(h) ==
  /\ h.used \subseteq AnyChunk /\ h.unused \subseteq AnyChunk
  /\ \A c \in AllChunks(h) : Placed(c)
  /\ \A c \in h.unused : c.size >= MIN_CHUNK_SIZE
  /\ h.used \cap h.unused = {}
  /\ \A c, e \in AllChunks(h) : c # e => Apart(c, e)

LEMMA ChunkFields ==
  \A b, s : Chunk(b, s).base = b /\ Chunk(b, s).size = s
  BY DEF Chunk

LEMMA ChunkType ==
  \A b \in Nat, s \in Nat \ {0} : Chunk(b, s) \in AnyChunk
  BY DEF Chunk, AnyChunk

LEMMA ChunkByFields ==
  \A c \in AnyChunk : c = Chunk(c.base, c.size)
  BY DEF Chunk, AnyChunk

LEMMA InBytes ==
  ASSUME NEW c \in AnyChunk, NEW a
  PROVE  a \in ChunkBytes(c) <=> a \in Nat /\ c.base <= a /\ a < c.base + c.size
  BY DEF ChunkBytes, Span, AnyChunk

(* Chunks are apart exactly when they share no byte. *)
LEMMA ApartBytes ==
  ASSUME NEW c \in AnyChunk, NEW e \in AnyChunk
  PROVE  Apart(c, e) <=> ChunkBytes(c) \cap ChunkBytes(e) = {}
<1>0. c.base \in Nat /\ c.size \in Nat \ {0} /\ e.base \in Nat /\ e.size \in Nat \ {0}
  BY DEF AnyChunk
<1>1. ASSUME Apart(c, e) PROVE ChunkBytes(c) \cap ChunkBytes(e) = {}
  BY <1>0, <1>1, InBytes DEF Apart
<1>2. ASSUME ~Apart(c, e) PROVE ChunkBytes(c) \cap ChunkBytes(e) # {}
  <2> DEFINE a == IF c.base < e.base THEN e.base ELSE c.base
  <2>1. a \in ChunkBytes(c) /\ a \in ChunkBytes(e)
    BY <1>0, <1>2, InBytes DEF Apart
  <2> QED BY <2>1
<1> QED BY <1>1, <1>2

LEMMA NotApartFromItself ==
  \A c \in AnyChunk : ~Apart(c, c) /\ c.base \in ChunkBytes(c)
  BY InBytes DEF Apart, AnyChunk

(* The pieces U (used) and F (free) may take the place of the chunks R. *)
Pieces(R, U, F) ==
  /\ U \subseteq AnyChunk /\ F \subseteq AnyChunk
  /\ \A c \in U \cup F : Placed(c) /\ ChunkBytes(c) \subseteq BytesOf(R)
  /\ \A c \in F : c.size >= MIN_CHUNK_SIZE
  /\ U \cap F = {}
  /\ \A c, e \in U \cup F : c # e => Apart(c, e)

LEMMA Recut ==
  ASSUME NEW h, GoodHeap(h), NEW R \in SUBSET AllChunks(h), NEW U, NEW F, Pieces(R, U, F),
         NEW g, g.used = (h.used \ R) \cup U, g.unused = (h.unused \ R) \cup F
  PROVE  GoodHeap(g)
<1> DEFINE Old == AllChunks(h) \ R
           New == U \cup F
<1>0. AllChunks(h) \subseteq AnyChunk /\ New \subseteq AnyChunk
  BY DEF GoodHeap, AllChunks, Pieces
<1>1. ASSUME NEW n \in New, NEW e \in Old PROVE Apart(n, e) /\ Apart(e, n) /\ n # e
  <2>1. ASSUME NEW a \in ChunkBytes(n), a \in ChunkBytes(e) PROVE FALSE
    <3>1. PICK r \in R : a \in ChunkBytes(r)
      BY <2>1 DEF Pieces, BytesOf
    <3>2. Apart(r, e)
      BY DEF GoodHeap
    <3> QED BY <3>1, <3>2, <2>1, <1>0, ApartBytes
  <2>2. Apart(n, e) /\ Apart(e, n)
    BY <2>1, <1>0, ApartBytes
  <2> QED BY <2>2, <1>0, NotApartFromItself
<1>2. AllChunks(g) = Old \cup New
  BY DEF AllChunks
<1>3. \A c, e \in AllChunks(g) : c # e => Apart(c, e)
  <2>1. \A c, e \in Old : c # e => Apart(c, e)
    BY DEF GoodHeap
  <2>2. \A c, e \in New : c # e => Apart(c, e)
    BY DEF Pieces
  <2> QED BY <1>1, <1>2, <2>1, <2>2
<1>4. g.used \cap g.unused = {}
  <2>1. h.used \cap h.unused = {} /\ U \cap F = {}
    BY DEF GoodHeap, Pieces
  <2>2. \A n \in New : n \notin Old
    BY <1>1
  <2> QED BY <2>1, <2>2 DEF AllChunks
<1>5. g.used \subseteq AnyChunk /\ g.unused \subseteq AnyChunk
  BY DEF GoodHeap, Pieces
<1>6. \A c \in AllChunks(g) : Placed(c)
  BY <1>2 DEF GoodHeap, Pieces
<1>7. \A c \in g.unused : c.size >= MIN_CHUNK_SIZE
  BY DEF GoodHeap, Pieces
<1> QED BY <1>3, <1>4, <1>5, <1>6, <1>7 DEF GoodHeap

(* A chunk cut in two after n bytes. *)
LEMMA CutInTwo ==
  ASSUME NEW c \in AnyChunk, NEW n \in Nat, 0 < n, n < c.size,
         NEW a, a = Chunk(c.base, n), NEW r, r = Chunk(c.base + n, c.size - n)
  PROVE  /\ a \in AnyChunk /\ a.base = c.base /\ a.size = n
         /\ r \in AnyChunk /\ r.base = c.base + n /\ r.size = c.size - n
         /\ Apart(a, r) /\ Apart(r, a) /\ a # r
         /\ ChunkBytes(c) = ChunkBytes(a) \cup ChunkBytes(r)
<1>0. c.base \in Nat /\ c.size \in Nat \ {0}
  BY DEF AnyChunk
<1>1. a \in AnyChunk /\ a.base = c.base /\ a.size = n
  BY <1>0, ChunkFields, ChunkType
<1>2. r \in AnyChunk /\ r.base = c.base + n /\ r.size = c.size - n
  BY <1>0, ChunkFields, ChunkType
<1>3. Apart(a, r) /\ Apart(r, a) /\ a # r
  BY <1>0, <1>1, <1>2 DEF Apart
<1>4. ASSUME NEW x PROVE x \in ChunkBytes(c) <=> x \in ChunkBytes(a) \/ x \in ChunkBytes(r)
  BY <1>0, <1>1, <1>2, InBytes
<1> QED BY <1>1, <1>2, <1>3, <1>4

LEMMA BytesOfSets ==
  /\ BytesOf({}) = {}
  /\ \A c : BytesOf({c}) = ChunkBytes(c)
  /\ \A c, e : BytesOf({c, e}) = ChunkBytes(c) \cup ChunkBytes(e)
  /\ \A S, T : BytesOf(S \cup T) = BytesOf(S) \cup BytesOf(T)
  BY DEF BytesOf

(* allocate_in_bucket cuts a chunk into pieces that may exist. *)
LEMMA CarvePieces ==
  ASSUME NEW c \in AnyChunk, Placed(c), c.size >= MIN_CHUNK_SIZE,
         NEW n \in Nat, n >= MIN_CHUNK_SIZE, n <= c.size,
         n < PAGE_SIZE \/ n % PAGE_SIZE = 0,
         NEW a, a = Carve(c, n).alloc, NEW F, F = Carve(c, n).rest
  PROVE  /\ a \in AnyChunk /\ a.base = c.base /\ a.size >= n /\ a.size <= c.size
         /\ Pieces({c}, {a}, F)
         /\ BytesOf({a} \cup F) = BytesOf({c})
<1> DEFINE P == PAGE_SIZE
           rump == Chunk(c.base + n, c.size - n)
           rest == Rump(c, n)
<1>0. /\ c.base \in Nat /\ c.size \in Nat \ {0} /\ P \in Nat \ {0}
      /\ MIN_CHUNK_SIZE \in Nat \ {0} /\ MIN_CHUNK_SIZE < P /\ AddressSpace \in Nat
      /\ c.base + c.size <= AddressSpace
  BY HeapConstants DEF AnyChunk, Placed
<1>1. c.size >= P => c.base % P = 0
  BY DEF Placed, PageAligned
<1>r. rump.base = c.base + n /\ rump.size = c.size - n
  BY ChunkFields
<1>2. CASE Tracked(rest) # rest
  <2>1. a = c /\ F = {}
    BY <1>2 DEF Carve
  <2>2. Pieces({c}, {a}, F)
    BY <2>1, BytesOfSets DEF Pieces
  <2> QED BY <2>1, <2>2, <1>0
<1>3. CASE Tracked(rest) = rest /\ rump.size >= P /\ ~PageAligned(rump.base)
  <2> DEFINE left == Chunk(c.base + n, P - n)
             right == Chunk(c.base + P, c.size - P)
  <2>1. a = Chunk(c.base, n) /\ F = {left, right}
    BY <1>3, <1>r DEF Carve, Rump
  <2>2. n < P
    <3>1. (c.base + n) % P # 0
      BY <1>3, <1>r DEF PageAligned
    <3>2. c.size >= P /\ c.base % P = 0
      BY <1>0, <1>1, <1>3, <1>r
    <3>3. n % P # 0
      BY <1>0, <3>1, <3>2, MultipleSum
    <3> QED BY <3>3
  <2>3. /\ a \in AnyChunk /\ a.base = c.base /\ a.size = n
        /\ rump \in AnyChunk /\ Apart(a, rump)
        /\ ChunkBytes(c) = ChunkBytes(a) \cup ChunkBytes(rump)
    <3>1. 0 < n /\ n < c.size
      BY <1>0, <1>3, <1>r
    <3> QED BY <3>1, <2>1, CutInTwo
  <2>4. /\ left = Chunk(rump.base, P - n) /\ right = Chunk(rump.base + (P - n), rump.size - (P - n))
        /\ P - n \in Nat /\ 0 < P - n /\ P - n < rump.size
    <3>1. rump.base + (P - n) = c.base + P /\ rump.size - (P - n) = c.size - P
      BY <1>0, <1>r
    <3> QED BY <3>1, <1>0, <1>3, <1>r, <2>2
  <2>5. /\ left \in AnyChunk /\ left.base = c.base + n /\ left.size = P - n
        /\ right \in AnyChunk /\ right.base = c.base + P /\ right.size = c.size - P
        /\ Apart(left, right) /\ Apart(right, left) /\ left # right
        /\ ChunkBytes(rump) = ChunkBytes(left) \cup ChunkBytes(right)
    <3> HIDE DEF rump, left, right
    <3>1. /\ left \in AnyChunk /\ right \in AnyChunk
          /\ Apart(left, right) /\ Apart(right, left) /\ left # right
          /\ ChunkBytes(rump) = ChunkBytes(left) \cup ChunkBytes(right)
      BY <2>3, <2>4, CutInTwo
    <3>2. left.base = c.base + n /\ left.size = P - n /\ right.base = c.base + P /\ right.size = c.size - P
      BY ChunkFields DEF left, right
    <3> QED BY <3>1, <3>2
  <2> HIDE DEF left, right, rump
  <2>6. Apart(a, left) /\ Apart(left, a) /\ Apart(a, right) /\ Apart(right, a) /\ a # left /\ a # right
    BY <1>0, <2>2, <2>3, <2>5 DEF Apart
  <2>7. Placed(a) /\ Placed(left) /\ Placed(right)
    <3>1. c.base % P = 0 /\ c.size >= P
      BY <1>0, <1>1, <1>3, <1>r
    <3>2. (c.base + P) % P = 0
      BY <1>0, <3>1, MultipleSum
    <3>3. right.base % P = 0
      BY <2>5, <3>2
    <3>4. Placed(right)
      BY <3>3, <2>5, <1>0 DEF Placed, PageAligned
    <3>5. Placed(left)
      BY <2>5, <2>2, <1>0, <3>1 DEF Placed, PageAligned
    <3>6. Placed(a)
      BY <2>3, <2>2, <1>0, <3>1 DEF Placed, PageAligned
    <3> QED BY <3>4, <3>5, <3>6
  <2>8. \A x \in F : x.size >= MIN_CHUNK_SIZE
    <3>1. F = rest
      BY <1>3 DEF Carve
    <3> QED BY <3>1, <1>3 DEF Tracked
  <2>9. BytesOf({a} \cup F) = BytesOf({c})
    <3>1. BytesOf({a} \cup F) = BytesOf({a}) \cup BytesOf({left, right})
      BY <2>1, BytesOfSets
    <3>2. BytesOf({left, right}) = ChunkBytes(left) \cup ChunkBytes(right)
      BY BytesOfSets
    <3>3. BytesOf({a}) = ChunkBytes(a) /\ BytesOf({c}) = ChunkBytes(c)
      BY BytesOfSets
    <3> QED BY <3>1, <3>2, <3>3, <2>3, <2>5
  <2>10. \A x \in {a} \cup F : ChunkBytes(x) \subseteq BytesOf({c})
    BY <2>9 DEF BytesOf
  <2>11. Pieces({c}, {a}, F)
    BY <2>1, <2>3, <2>5, <2>6, <2>7, <2>8, <2>10 DEF Pieces
  <2> QED BY <2>3, <2>9, <2>11, <1>0
<1>4. CASE Tracked(rest) = rest /\ ~(rump.size >= P /\ ~PageAligned(rump.base))
  <2>1. a = Chunk(c.base, n) /\ F = {rump} /\ rest = {rump}
    BY <1>4, <1>r DEF Carve, Rump
  <2>2. rump.size >= MIN_CHUNK_SIZE
    BY <2>1, <1>4 DEF Tracked
  <2>3. /\ a \in AnyChunk /\ a.base = c.base /\ a.size = n
        /\ rump \in AnyChunk /\ Apart(a, rump) /\ Apart(rump, a) /\ a # rump
        /\ ChunkBytes(c) = ChunkBytes(a) \cup ChunkBytes(rump)
    <3>1. 0 < n /\ n < c.size
      BY <1>0, <2>2, <1>r
    <3> QED BY <3>1, <2>1, CutInTwo
  <2> HIDE DEF rump
  <2>4. Placed(a) /\ Placed(rump)
    BY <1>0, <1>1, <1>4, <1>r, <2>3 DEF Placed, PageAligned
  <2>5. BytesOf({a} \cup F) = BytesOf({c})
    <3>1. BytesOf({a} \cup F) = BytesOf({a}) \cup BytesOf({rump})
      BY <2>1, BytesOfSets
    <3>2. BytesOf({rump}) = ChunkBytes(rump) /\ BytesOf({a}) = ChunkBytes(a)
          /\ BytesOf({c}) = ChunkBytes(c)
      BY BytesOfSets
    <3> QED BY <3>1, <3>2, <2>3
  <2>6. \A x \in {a} \cup F : ChunkBytes(x) \subseteq BytesOf({c})
    BY <2>5 DEF BytesOf
  <2>7. Pieces({c}, {a}, F)
    <3>1. \A x \in {a} \cup F : Placed(x)
      BY <2>1, <2>4
    <3>2. \A x \in F : x.size >= MIN_CHUNK_SIZE
      BY <2>1, <2>2
    <3>3. {a} \cap F = {}
      BY <2>1, <2>3
    <3>4. \A x, y \in {a} \cup F : x # y => Apart(x, y)
      BY <2>1, <2>3
    <3>5. {a} \subseteq AnyChunk /\ F \subseteq AnyChunk
      BY <2>1, <2>3
    <3> QED BY <3>1, <3>2, <3>3, <3>4, <3>5, <2>6 DEF Pieces
  <2> QED BY <2>3, <2>5, <2>7, <1>0
<1> QED BY <1>2, <1>3, <1>4

-----------------------------------------------------------------------------
(* The operations of Allocator: each exchanges some chunks for pieces of    *)
(* them.                                                                    *)

Exchanged(h, R, U, F, g) ==
  /\ R \subseteq AllChunks(h) /\ Pieces(R, U, F)
  /\ g.used = (h.used \ R) \cup U /\ g.unused = (h.unused \ R) \cup F

LEMMA FitsAreLargeEnough ==
  ASSUME NEW unused, NEW n, NEW c \in FitsFor(unused, n)
  PROVE  c \in unused /\ c.size >= n
  BY DEF FitsFor, BestInBucket

(* o is the outcome of an alloc of size bytes that takes chunk c: it uses a  *)
(* and leaves F.                                                             *)
AllocCuts(h, size, o, c, a, F) ==
  /\ c \in h.unused /\ a \in AnyChunk
  /\ o.ptr = c.base /\ a.base = c.base /\ a.size <= c.size
  /\ a.size >= size /\ a.size >= MIN_CHUNK_SIZE
  /\ BytesOf({a} \cup F) = BytesOf({c})
  /\ Exchanged(h, {c}, {a}, F, o.heap)

LEMMA AllocExchanges ==
  ASSUME NEW h, GoodHeap(h), NEW size \in Nat, NEW o \in AllocOutcomes(h, size)
  PROVE  \/ o.heap = h /\ o.ptr = NULL
         \/ \E c, a, F : AllocCuts(h, size, o, c, a, F)
<1> DEFINE n == AlignedSize(size)
           fits == IF n = NULL THEN {} ELSE FitsFor(h.unused, n)
<1>1. CASE fits = {}
  BY <1>1 DEF AllocOutcomes
<1>2. CASE fits # {}
  <2>1. PICK c \in fits : o = [heap |-> [used   |-> h.used \cup {Carve(c, n).alloc},
                                         unused |-> (h.unused \ {c}) \cup Carve(c, n).rest],
                               ptr  |-> c.base]
    BY <1>2 DEF AllocOutcomes
  <2> DEFINE a == Carve(c, n).alloc
             F == Carve(c, n).rest
  <2>2. n # NULL /\ c \in FitsFor(h.unused, n)
    BY <1>2
  <2>3. c \in h.unused /\ c.size >= n
    BY <2>2, FitsAreLargeEnough
  <2>4. /\ n \in Nat /\ n >= size /\ n >= MIN_CHUNK_SIZE
        /\ n < PAGE_SIZE \/ n % PAGE_SIZE = 0
    BY <2>2, AlignedSizeFacts
  <2>5. c \in AnyChunk /\ Placed(c) /\ c.size >= MIN_CHUNK_SIZE /\ c \notin h.used
    BY <2>3 DEF GoodHeap, AllChunks
  <2> HIDE DEF n
  <2>6. n <= c.size /\ MIN_CHUNK_SIZE \in Nat /\ c.size \in Nat
    BY <2>3, <2>4, <2>5, HeapConstants DEF AnyChunk
  <2>7. /\ a \in AnyChunk /\ a.base = c.base /\ a.size >= n /\ a.size <= c.size
        /\ Pieces({c}, {a}, F)
        /\ BytesOf({a} \cup F) = BytesOf({c})
    BY <2>4, <2>5, <2>6, CarvePieces
  <2> HIDE DEF a, F
  <2>8. a.size >= size /\ a.size >= MIN_CHUNK_SIZE
    BY <2>4, <2>6, <2>7 DEF AnyChunk
  <2>9. o.heap.used = h.used \cup {a} /\ o.heap.unused = (h.unused \ {c}) \cup F /\ o.ptr = c.base
    BY <2>1 DEF a, F
  <2>10. Exchanged(h, {c}, {a}, F, o.heap)
    BY <2>3, <2>5, <2>7, <2>9 DEF Exchanged, AllChunks
  <2>11. AllocCuts(h, size, o, c, a, F)
    BY <2>3, <2>7, <2>8, <2>9, <2>10 DEF AllocCuts
  <2> QED BY <2>11
<1> QED BY <1>1, <1>2

(* A used chunk is found by its base. *)
LEMMA KnownChunk ==
  ASSUME NEW h, NEW base, IsKnown(h, base), NEW u, u = UsedAt(h, base)
  PROVE  u \in h.used /\ u.base = base
  BY DEF IsKnown, UsedAt

LEMMA SameBase ==
  ASSUME NEW h, GoodHeap(h), NEW c \in AllChunks(h), NEW e \in AllChunks(h), c.base = e.base
  PROVE  c = e
<1>1. c \in AnyChunk /\ e \in AnyChunk
  BY DEF GoodHeap, AllChunks
<1>2. ~Apart(c, e)
  BY <1>1 DEF Apart, AnyChunk
<1> QED BY <1>2 DEF GoodHeap

(* g is the outcome of growing u to `size` bytes: it takes c, which follows *)
(* u, uses a and leaves F.                                                  *)
GrowCuts(h, base, size, g, u, c, a, F) ==
  /\ u \in h.used /\ c \in h.unused /\ a \in AnyChunk
  /\ u.base = base /\ a.base = base /\ c.base = base + u.size
  /\ a.size >= size /\ a.size >= u.size
  /\ BytesOf({a} \cup F) = BytesOf({u, c})
  /\ Exchanged(h, {u, c}, {a}, F, g)

LEMMA GrowExchanges ==
  ASSUME NEW h, GoodHeap(h), NEW base, NEW size \in Nat,
         NEW old, old = find_allocated_size(h, base), old < size,
         NEW g \in GrowOutcomes(h, base, old, size)
  PROVE  \E u, c, a, F : GrowCuts(h, base, size, g, u, c, a, F)
<1> DEFINE u == UsedAt(h, base)
           extra == size - old
           splits(c) == c.size < PAGE_SIZE /\ c.size - extra >= MIN_CHUNK_SIZE
           grown(c) == IF splits(c) THEN size ELSE old + c.size
<1>1. PICK c \in h.unused :
        /\ IsKnown(h, base) /\ c.base = base + old /\ c.size >= extra
        /\ grown(c) < PAGE_SIZE \/ PageAligned(base)
        /\ g = [used   |-> (h.used \ {u}) \cup {Chunk(base, grown(c))},
                unused |-> (h.unused \ {c}) \cup (IF splits(c) THEN {GrowRest(c, extra)} ELSE {})]
  BY DEF GrowOutcomes
<1>2. u \in h.used /\ u.base = base
  BY <1>1, KnownChunk
<1>3. old = u.size
  BY <1>1 DEF find_allocated_size
<1> DEFINE a == Chunk(base, grown(c))
           r == GrowRest(c, extra)
           F == IF splits(c) THEN {r} ELSE {}
<1>4. u \in AnyChunk /\ c \in AnyChunk /\ Placed(u) /\ Placed(c) /\ u # c
      /\ c \notin h.used /\ u \notin h.unused
  BY <1>2 DEF GoodHeap, AllChunks
<1>g. g.used = (h.used \ {u, c}) \cup {a} /\ g.unused = (h.unused \ {u, c}) \cup F
  BY <1>1, <1>4
<1> HIDE DEF u
<1>5. /\ base \in Nat /\ old \in Nat \ {0} /\ c.base \in Nat /\ c.size \in Nat \ {0}
      /\ u.base \in Nat /\ u.size \in Nat \ {0} /\ size \in Nat
      /\ extra \in Nat /\ extra > 0 /\ PAGE_SIZE \in Nat \ {0} /\ MIN_CHUNK_SIZE \in Nat \ {0}
      /\ AddressSpace \in Nat
  BY <1>2, <1>3, <1>4, HeapConstants DEF AnyChunk
<1>6. /\ u.base + u.size <= AddressSpace /\ c.base + c.size <= AddressSpace
      /\ c.base = u.base + u.size
  BY <1>1, <1>2, <1>3, <1>4 DEF Placed
<1>7. grown(c) \in Nat \ {0} /\ grown(c) >= size /\ grown(c) >= old /\ grown(c) <= old + c.size
  BY <1>1, <1>5
<1>8. a \in AnyChunk /\ a.base = base /\ a.size = grown(c)
  <2> HIDE DEF grown
  <2> QED BY <1>5, <1>7, ChunkFields, ChunkType
<1>9. Placed(a)
  <2> HIDE DEF grown, a
  <2> QED BY <1>1, <1>2, <1>3, <1>5, <1>6, <1>7, <1>8 DEF Placed
<1>10. BytesOf({u, c}) = Span(base, old + c.size)
  <2>1. ASSUME NEW x PROVE x \in ChunkBytes(u) \/ x \in ChunkBytes(c) <=> x \in Span(base, old + c.size)
    BY <1>2, <1>3, <1>4, <1>5, <1>6, InBytes DEF Span
  <2>2. BytesOf({u, c}) = ChunkBytes(u) \cup ChunkBytes(c)
    BY BytesOfSets
  <2> QED BY <2>1, <2>2
<1>11. CASE splits(c)
  <2>1. r \in AnyChunk /\ r.base = base + size /\ r.size = c.size - extra
        /\ a.size = size
    <3>1. c.base + extra = base + size /\ c.base + extra \in Nat /\ c.size - extra \in Nat \ {0}
      BY <1>1, <1>5, <1>11
    <3>2. r = Chunk(base + size, c.size - extra)
      BY <3>1 DEF GrowRest
    <3>3. base + size \in Nat
      BY <1>5
    <3>4. r \in AnyChunk /\ r.base = base + size /\ r.size = c.size - extra
      BY <3>1, <3>2, <3>3, ChunkFields, ChunkType
    <3> QED BY <3>4, <1>8, <1>11
  <2>2. F = {r} /\ r.size >= MIN_CHUNK_SIZE /\ r.size < PAGE_SIZE
    BY <1>5, <1>11, <2>1
  <2> HIDE DEF r, a, F
  <2>3. Placed(r)
    BY <2>1, <2>2, <1>1, <1>5, <1>6 DEF Placed
  <2>4. Apart(a, r) /\ Apart(r, a) /\ a # r
    BY <2>1, <1>8, <1>5 DEF Apart
  <2>5. BytesOf({a} \cup F) = BytesOf({u, c})
    <3>1. ASSUME NEW x PROVE x \in ChunkBytes(a) \/ x \in ChunkBytes(r) <=> x \in Span(base, old + c.size)
      BY <2>1, <1>8, <1>5, <1>1, <1>11, InBytes DEF Span
    <3>2. BytesOf({a} \cup F) = ChunkBytes(a) \cup ChunkBytes(r)
      BY <2>2 DEF BytesOf
    <3> QED BY <3>1, <3>2, <1>10
  <2>6. \A x \in {a} \cup F : ChunkBytes(x) \subseteq BytesOf({u, c})
    BY <2>5 DEF BytesOf
  <2>7. Pieces({u, c}, {a}, F)
    <3>1. \A x \in {a} \cup F : Placed(x)
      BY <2>2, <2>3, <1>9
    <3>2. \A x \in F : x.size >= MIN_CHUNK_SIZE
      BY <2>2
    <3>3. {a} \cap F = {}
      BY <2>2, <2>4
    <3>4. \A x, y \in {a} \cup F : x # y => Apart(x, y)
      BY <2>2, <2>4
    <3>5. {a} \subseteq AnyChunk /\ F \subseteq AnyChunk
      BY <2>1, <2>2, <1>8
    <3> QED BY <3>1, <3>2, <3>3, <3>4, <3>5, <2>6 DEF Pieces
  <2>8. Exchanged(h, {u, c}, {a}, F, g)
    BY <2>7, <1>2, <1>g DEF Exchanged, AllChunks
  <2>9. a.size >= size /\ a.size >= u.size /\ a.base = base
    BY <1>8, <1>7, <1>3
  <2>10. GrowCuts(h, base, size, g, u, c, a, F)
    BY <2>5, <2>8, <2>9, <1>1, <1>2, <1>3, <1>8 DEF GrowCuts
  <2> QED BY <2>10
<1>12. CASE ~splits(c)
  <2>1. F = {} /\ a.size = old + c.size
    BY <1>12, <1>8
  <2> HIDE DEF r, a, F
  <2>5. BytesOf({a} \cup F) = BytesOf({u, c})
    <3>1. ChunkBytes(a) = Span(base, old + c.size)
      BY <2>1, <1>8 DEF ChunkBytes
    <3>2. BytesOf({a} \cup F) = ChunkBytes(a)
      BY <2>1 DEF BytesOf
    <3> QED BY <3>1, <3>2, <1>10
  <2>6. \A x \in {a} \cup F : ChunkBytes(x) \subseteq BytesOf({u, c})
    BY <2>5 DEF BytesOf
  <2>7. Pieces({u, c}, {a}, F)
    BY <2>1, <1>8, <1>9, <2>6 DEF Pieces
  <2>8. Exchanged(h, {u, c}, {a}, F, g)
    BY <2>7, <1>2, <1>g DEF Exchanged, AllChunks
  <2>9. a.size >= size /\ a.size >= u.size /\ a.base = base
    BY <1>8, <1>7, <1>3
  <2>10. GrowCuts(h, base, size, g, u, c, a, F)
    BY <2>5, <2>8, <2>9, <1>1, <1>2, <1>3, <1>8 DEF GrowCuts
  <2> QED BY <2>10
<1> QED BY <1>11, <1>12

LEMMA SameEnd ==
  ASSUME NEW h, GoodHeap(h), NEW c \in AllChunks(h), NEW e \in AllChunks(h),
         c.base + c.size = e.base + e.size
  PROVE  c = e
<1>1. c \in AnyChunk /\ e \in AnyChunk
  BY DEF GoodHeap, AllChunks
<1>2. ~Apart(c, e)
  BY <1>1 DEF Apart, AnyChunk
<1> QED BY <1>2 DEF GoodHeap

(* g is the outcome of freeing u: the free chunks in T and u become F. *)
FreeCuts(h, base, g, u, T, F) ==
  /\ u \in h.used /\ u.base = base /\ T \subseteq h.unused
  /\ u.size >= MIN_CHUNK_SIZE => BytesOf(F) = BytesOf({u} \cup T)
  /\ Exchanged(h, {u} \cup T, {}, F, g)

LEMMA TrackedPieces ==
  ASSUME NEW R, NEW S \in SUBSET AnyChunk,
         \A c \in S : Placed(c) /\ ChunkBytes(c) \subseteq BytesOf(R),
         \A c, e \in S : c # e => Apart(c, e)
  PROVE  Pieces(R, {}, Tracked(S))
  BY DEF Pieces, Tracked

LEMMA FreeExchanges ==
  ASSUME NEW h, GoodHeap(h), NEW base, IsKnown(h, base), NEW g, g = FreeChunk(h, base)
  PROVE  \E u, T, F : FreeCuts(h, base, g, u, T, F)
<1> DEFINE u == UsedAt(h, base)
           after  == {c \in h.unused : c.base = u.base + u.size}
           before == {c \in h.unused : c.base + c.size = u.base}
           T == IF after # {} THEN after ELSE before
           joint(c) == Chunk(IF c.base < u.base THEN c.base ELSE u.base, u.size + c.size)
           back == IF T = {} THEN {u}
                   ELSE UNION {IF KeptApart(joint(c)) THEN {c, u} ELSE {joint(c)} : c \in T}
           F == Tracked(back)
<1>1. u \in h.used /\ u.base = base
  BY KnownChunk
<1>2. T \subseteq h.unused /\ u \notin h.unused /\ h.used \cap T = {}
  BY <1>1 DEF GoodHeap
<1>3. g.used = h.used \ {u} /\ g.unused = (h.unused \ T) \cup F
  BY DEF FreeChunk
<1>4. g.used = (h.used \ ({u} \cup T)) \cup {} /\ g.unused = (h.unused \ ({u} \cup T)) \cup F
  <2> HIDE DEF F, T, u
  <2> QED BY <1>2, <1>3
<1>5. SUFFICES /\ Pieces({u} \cup T, {}, F)
               /\ u.size >= MIN_CHUNK_SIZE => BytesOf(F) = BytesOf({u} \cup T)
  <2>1. {u} \cup T \subseteq AllChunks(h)
    BY <1>1, <1>2 DEF AllChunks
  <2>2. Exchanged(h, {u} \cup T, {}, F, g)
    <3> HIDE DEF F, T, u
    <3> QED BY <1>4, <1>5, <2>1 DEF Exchanged
  <2>3. FreeCuts(h, base, g, u, T, F)
    <3> HIDE DEF F, T, u
    <3> QED BY <1>1, <1>2, <1>5, <2>2 DEF FreeCuts
  <2> QED BY <2>3
<1>6. u \in AnyChunk /\ Placed(u)
  BY <1>1 DEF GoodHeap, AllChunks
<1>7. CASE T = {}
  <2>1. back = {u}
    BY <1>7
  <2>2. Pieces({u} \cup T, {}, F)
    <3>1. ChunkBytes(u) \subseteq BytesOf({u} \cup T)
      BY DEF BytesOf
    <3> HIDE DEF u, T, back
    <3> QED BY <2>1, <3>1, <1>6, TrackedPieces
  <2>3. u.size >= MIN_CHUNK_SIZE => F = {u} \cup T
    BY <2>1, <1>7 DEF Tracked
  <2> QED BY <2>2, <2>3
<1>8. CASE T # {}
  <2>1. PICK c \in T : TRUE
    BY <1>8
  <2>2. c \in h.unused /\ c \in AllChunks(h) /\ c \in AnyChunk /\ Placed(c) /\ c.size >= MIN_CHUNK_SIZE
    BY <1>2 DEF GoodHeap, AllChunks
  <2>3. c.base = u.base + u.size \/ c.base + c.size = u.base
    OBVIOUS
  <2>4. T = {c}
    <3>1. ASSUME NEW e \in T PROVE e = c
      <4>1. e \in h.unused /\ e \in AllChunks(h)
        BY <1>2 DEF AllChunks
      <4>2. e.base = c.base \/ e.base + e.size = c.base + c.size
        OBVIOUS
      <4> QED BY <4>1, <4>2, <2>2, SameBase, SameEnd
    <3> QED BY <3>1
  <2> DEFINE j == joint(c)
  <2>5. back = IF KeptApart(j) THEN {c, u} ELSE {j}
    <3> HIDE DEF T
    <3> QED BY <2>4
  <2>6. c # u /\ Apart(c, u) /\ Apart(u, c)
    <3>1. c # u
      BY <1>2, <2>2
    <3> QED BY <3>1, <1>1, <2>2 DEF GoodHeap, AllChunks
  <2>7. /\ u.base \in Nat /\ u.size \in Nat \ {0} /\ c.base \in Nat /\ c.size \in Nat \ {0}
        /\ PAGE_SIZE \in Nat \ {0} /\ MIN_CHUNK_SIZE \in Nat \ {0} /\ AddressSpace \in Nat
        /\ u.base + u.size <= AddressSpace /\ c.base + c.size <= AddressSpace
    BY <1>6, <2>2, HeapConstants DEF AnyChunk, Placed
  <2>8. BytesOf({u} \cup T) = ChunkBytes(u) \cup ChunkBytes(c)
    <3> HIDE DEF T, u
    <3> QED BY <2>4 DEF BytesOf
  <2> HIDE DEF u, T, back, F
  <2>9. CASE KeptApart(j)
    <3>1. back = {c, u}
      BY <2>5, <2>9
    <3>2. Pieces({u} \cup T, {}, F)
      <4>1. back \in SUBSET AnyChunk
        BY <3>1, <1>6, <2>2
      <4>2. \A x \in back : Placed(x) /\ ChunkBytes(x) \subseteq BytesOf({u} \cup T)
        BY <3>1, <1>6, <2>2, <2>8
      <4>3. \A x, y \in back : x # y => Apart(x, y)
        BY <3>1, <2>6
      <4> QED BY <4>1, <4>2, <4>3, TrackedPieces DEF F
    <3>3. u.size >= MIN_CHUNK_SIZE => F = {u} \cup T
      BY <3>1, <2>2, <2>4 DEF Tracked, F
    <3> QED BY <3>2, <3>3
  <2>10. CASE ~KeptApart(j)
    <3>1. back = {j}
      BY <2>5, <2>10
    <3>2. /\ j.base = (IF c.base < u.base THEN c.base ELSE u.base)
          /\ j.size = u.size + c.size /\ j \in AnyChunk
      <4>1. u.size + c.size \in Nat \ {0}
        BY <2>7
      <4> QED BY <4>1, <2>7, ChunkFields, ChunkType
    <3> HIDE DEF j
    <3>3. Placed(j)
      <4>1. j.base + j.size <= AddressSpace
        BY <3>2, <2>3, <2>7
      <4>2. j.size >= PAGE_SIZE => PageAligned(j.base)
        BY <2>10 DEF KeptApart
      <4> QED BY <4>1, <4>2 DEF Placed
    <3>4. ChunkBytes(j) = BytesOf({u} \cup T)
      <4>1. ASSUME NEW x PROVE x \in ChunkBytes(j) <=> x \in ChunkBytes(u) \/ x \in ChunkBytes(c)
        BY <3>2, <2>3, <2>7, <1>6, <2>2, InBytes
      <4> QED BY <4>1, <2>8
    <3>5. Pieces({u} \cup T, {}, F)
      <4>1. back \in SUBSET AnyChunk
        BY <3>1, <3>2
      <4>2. \A x \in back : Placed(x) /\ ChunkBytes(x) \subseteq BytesOf({u} \cup T)
        BY <3>1, <3>3, <3>4
      <4>3. \A x, y \in back : x # y => Apart(x, y)
        BY <3>1
      <4> QED BY <4>1, <4>2, <4>3, TrackedPieces DEF F
    <3>6. F = {j}
      <4>1. j.size >= MIN_CHUNK_SIZE
        BY <3>2, <2>2, <2>7
      <4> QED BY <4>1, <3>1 DEF Tracked, F
    <3>7. BytesOf(F) = BytesOf({u} \cup T)
      BY <3>6, <3>4, BytesOfSets
    <3> QED BY <3>5, <3>7
  <2> QED BY <2>9, <2>10
<1> QED BY <1>7, <1>8

(* Reserving a chunk inside the free chunk c. *)
LEMMA ReserveExchanges ==
  ASSUME NEW h, GoodHeap(h), NEW m \in AnyChunk, NEW c \in h.unused,
         ChunkBytes(m) \subseteq ChunkBytes(c),
         m.size >= PAGE_SIZE => PageAligned(m.base), PageAligned(m.base + m.size),
         NEW g, g.used = h.used \cup {m},
         g.unused = (h.unused \ {c}) \cup Tracked(Trisect(c, m))
  PROVE  Exchanged(h, {c}, {m}, Tracked(Trisect(c, m)), g)
<1> DEFINE left == Chunk(c.base, m.base - c.base)
           right == Chunk(m.base + m.size, (c.base + c.size) - (m.base + m.size))
           F == Tracked(Trisect(c, m))
<1>1. c \in AnyChunk /\ Placed(c) /\ c \notin h.used
  BY DEF GoodHeap, AllChunks
<1>2. /\ c.base \in Nat /\ c.size \in Nat \ {0} /\ m.base \in Nat /\ m.size \in Nat \ {0}
      /\ PAGE_SIZE \in Nat \ {0} /\ MIN_CHUNK_SIZE \in Nat \ {0} /\ AddressSpace \in Nat
      /\ c.base + c.size <= AddressSpace
  BY <1>1, HeapConstants DEF AnyChunk, Placed
<1>3. c.base <= m.base /\ m.base + m.size <= c.base + c.size
  <2>1. m.base \in ChunkBytes(m) /\ m.base + m.size - 1 \in ChunkBytes(m)
    BY <1>2, InBytes
  <2>2. m.base \in ChunkBytes(c) /\ m.base + m.size - 1 \in ChunkBytes(c)
    BY <2>1
  <2> QED BY <2>2, <1>1, <1>2, InBytes
<1>4. /\ left.base = c.base /\ left.size = m.base - c.base
      /\ right.base = m.base + m.size /\ right.size = (c.base + c.size) - (m.base + m.size)
  BY ChunkFields
<1>5. left.size > 0 => left \in AnyChunk
  BY <1>2, <1>3, <1>4, ChunkType
<1>6. right.size > 0 => right \in AnyChunk
  <2>1. m.base + m.size \in Nat /\ (c.base + c.size) - (m.base + m.size) \in Nat
    BY <1>2, <1>3
  <2> QED BY <2>1, <1>4, ChunkType
<1>7. \A x \in F : \/ x = left /\ left.size > 0
                   \/ x = right /\ right.size > 0
  BY DEF Tracked, Trisect
<1>8. F \subseteq AnyChunk
  BY <1>5, <1>6, <1>7
<1> HIDE DEF left, right, F
<1>9. \A x \in F : x.size >= MIN_CHUNK_SIZE
  BY DEF F, Tracked
<1>10. ASSUME NEW x \in F PROVE Placed(x) /\ Apart(x, m) /\ Apart(m, x) /\ x # m
  <2>1. CASE x = left /\ left.size > 0
    BY <2>1, <1>1, <1>2, <1>3, <1>4 DEF Placed, Apart
  <2>2. CASE x = right /\ right.size > 0
    BY <2>2, <1>1, <1>2, <1>3, <1>4 DEF Placed, Apart
  <2> QED BY <2>1, <2>2, <1>7
<1>11. ASSUME NEW x \in F PROVE ChunkBytes(x) \subseteq ChunkBytes(c)
  <2>1. x \in AnyChunk /\ c.base <= x.base /\ x.base + x.size <= c.base + c.size
    BY <1>2, <1>3, <1>4, <1>7, <1>8
  <2>2. ASSUME NEW y \in ChunkBytes(x) PROVE y \in ChunkBytes(c)
    BY <2>1, <2>2, <1>1, InBytes DEF AnyChunk
  <2> QED BY <2>2
<1>12. ASSUME NEW x \in F, NEW y \in F, x # y PROVE Apart(x, y)
  <2>0. (x = left \/ x = right) /\ (y = left \/ y = right)
    BY <1>7
  <2>1. \/ x = left /\ y = right
        \/ x = right /\ y = left
    BY <2>0, <1>12
  <2> QED BY <2>1, <1>2, <1>3, <1>4 DEF Apart
<1>13. Placed(m)
  BY <1>2, <1>3 DEF Placed
<1>14. Pieces({c}, {m}, F)
  <2>1. \A x \in {m} \cup F : Placed(x) /\ ChunkBytes(x) \subseteq BytesOf({c})
    BY <1>10, <1>11, <1>13, BytesOfSets
  <2>2. {m} \cap F = {}
    BY <1>10
  <2>3. \A x, y \in {m} \cup F : x # y => Apart(x, y)
    BY <1>10, <1>12
  <2> QED BY <1>8, <1>9, <2>1, <2>2, <2>3 DEF Pieces
<1>15. h.used \ {c} = h.used /\ {c} \subseteq AllChunks(h)
  BY <1>1 DEF AllChunks
<1> QED BY <1>14, <1>15 DEF Exchanged, F

-----------------------------------------------------------------------------
(* The chunk tables stay well formed. *)

LEMMA ExchangedGood ==
  ASSUME NEW h, GoodHeap(h), NEW R, NEW U, NEW F, NEW g, Exchanged(h, R, U, F, g)
  PROVE  GoodHeap(g)
  BY Recut DEF Exchanged

(* No byte is lost where the pieces make up what they replace. *)
LEMMA ExchangedBytes ==
  ASSUME NEW h, NEW R, NEW U, NEW F, NEW g, Exchanged(h, R, U, F, g),
         BytesOf(U \cup F) = BytesOf(R)
  PROVE  BytesOf(AllChunks(g)) = BytesOf(AllChunks(h))
<1>1. /\ R \in SUBSET AllChunks(h)
      /\ g.used = (h.used \ R) \cup U /\ g.unused = (h.unused \ R) \cup F
  BY DEF Exchanged
<1>2. AllChunks(g) = (AllChunks(h) \ R) \cup (U \cup F)
  BY <1>1 DEF AllChunks
<1>3. AllChunks(h) = (AllChunks(h) \ R) \cup R
  BY <1>1
<1>4. BytesOf(AllChunks(g)) = BytesOf(AllChunks(h) \ R) \cup BytesOf(U \cup F)
  BY <1>2, BytesOfSets
<1>5. BytesOf(AllChunks(h)) = BytesOf(AllChunks(h) \ R) \cup BytesOf(R)
  BY <1>3, BytesOfSets
<1> QED BY <1>4, <1>5

LEMMA MemAllocGood ==
  ASSUME NEW h, GoodHeap(h), NEW d, NEW size \in Nat, NEW o \in MemAlloc(h, d, size)
  PROVE  GoodHeap(o.heap)
<1>1. PICK p \in AllocOutcomes(h, size) : o.heap = p.heap
  BY DEF MemAlloc
<1>2. CASE p.heap = h
  BY <1>1, <1>2
<1>3. CASE \E c, a, F : AllocCuts(h, size, p, c, a, F)
  <2>1. PICK c, a, F : AllocCuts(h, size, p, c, a, F)
    BY <1>3
  <2> QED BY <2>1, <1>1, ExchangedGood DEF AllocCuts
<1> QED BY <1>2, <1>3, AllocExchanges

LEMMA FreeGood ==
  ASSUME NEW h, GoodHeap(h), NEW d, NEW ptr
  PROVE  GoodHeap(MemFree(h, d, ptr).heap)
<1>1. CASE ptr = NULL \/ ~IsKnown(h, ptr)
  BY <1>1 DEF MemFree
<1>2. CASE ~(ptr = NULL \/ ~IsKnown(h, ptr))
  <2>1. PICK u, T, F : FreeCuts(h, ptr, FreeChunk(h, ptr), u, T, F)
    BY <1>2, FreeExchanges
  <2>2. GoodHeap(FreeChunk(h, ptr))
    BY <2>1, ExchangedGood DEF FreeCuts
  <2> QED BY <2>2, <1>2 DEF MemFree
<1> QED BY <1>1, <1>2

(* The size of a used chunk, or 0, is a number. *)
LEMMA FoundSize ==
  ASSUME NEW h, GoodHeap(h), NEW base, NEW old, old = find_allocated_size(h, base)
  PROVE  old \in Nat
<1>1. CASE IsKnown(h, base)
  <2>1. UsedAt(h, base) \in h.used
    BY <1>1, KnownChunk
  <2> QED BY <2>1, <1>1 DEF find_allocated_size, GoodHeap, AnyChunk
<1> QED BY <1>1 DEF find_allocated_size

LEMMA MemReallocGood ==
  ASSUME NEW h, GoodHeap(h), NEW d, NEW ptr, NEW size \in Nat, NEW o \in MemRealloc(h, d, ptr, size)
  PROVE  GoodHeap(o.heap)
<1> DEFINE old == find_allocated_size(h, ptr)
           grown == GrowOutcomes(h, ptr, old, size)
<1>0. old \in Nat
  BY FoundSize
<1>1. CASE old >= size
  BY <1>1 DEF MemRealloc
<1>2. CASE ~(old >= size) /\ grown # {}
  <2>1. PICK g \in grown : o.heap = g
    BY <1>2 DEF MemRealloc
  <2>2. old < size
    BY <1>0, <1>2
  <2>3. PICK u, c, a, F : GrowCuts(h, ptr, size, g, u, c, a, F)
    BY <2>2, GrowExchanges
  <2> QED BY <2>1, <2>3, ExchangedGood DEF GrowCuts
<1>3. CASE ~(old >= size) /\ grown = {}
  <2>1. PICK p \in MemAlloc(h, d, size) :
          o.heap = MemFree(p.heap, Moved(p.dirty, p.ptr, ptr, old), ptr).heap
    BY <1>3 DEF MemRealloc
  <2> QED BY <2>1, MemAllocGood, FreeGood
<1> QED BY <1>1, <1>2, <1>3

(* The sizes the guest's requests come down to are numbers. *)
LEMMA RequestSizes ==
  ASSUME NEW size \in Sizes
  PROVE  /\ size \in Nat /\ size < AddressSpace
         /\ MallocSize(size) \in Nat \ {0}
         /\ (IF size = 0 THEN 1 ELSE size) \in Nat \ {0}
         /\ \A alignment \in Nat : MemalignTotal(alignment, size) \in Nat
<1> HIDE DEF AddressSpace
<1>1. AddressSpace \in Nat /\ Header \in Nat
  BY HeapConstants
<1>2. size \in Nat /\ size < AddressSpace
  BY AllocAssumption, <1>1
<1>3. MallocSize(size) \in Nat \ {0}
  BY <1>1, <1>2 DEF MallocSize
<1> QED BY <1>1, <1>2, <1>3 DEF MemalignTotal

LEMMA MemalignGood ==
  ASSUME NEW h, GoodHeap(h), NEW d, NEW alignment \in Nat, NEW size \in Sizes,
         NEW o \in MemalignOutcomes(h, d, alignment, size)
  PROVE  GoodHeap(o.heap)
<1>1. PICK p \in MemAlloc(h, d, MemalignTotal(alignment, size)) :
        o = [p EXCEPT !.ptr = IF p.ptr = NULL THEN NULL ELSE AlignUp(p.ptr + Header, alignment),
                      !.dirty = IF p.ptr = NULL THEN @
                                ELSE @ \cup Span(AlignUp(p.ptr + Header, alignment) - Header, Header)]
  BY DEF MemalignOutcomes
<1>2. p = [heap |-> p.heap, ptr |-> p.ptr, dirty |-> p.dirty]
  BY DEF MemAlloc
<1>3. o.heap = p.heap
  BY <1>1, <1>2
<1> QED BY <1>3, MemAllocGood, RequestSizes

LEMMA HeapGoodInit == AllocInit => GoodHeap(heap)
<1> SUFFICES ASSUME AllocInit PROVE GoodHeap(heap)
  OBVIOUS
<1> DEFINE stack == Chunk(StackLow, AddressSpace - StackLow)
           low == Chunk(0, StackLow)
<1>1. heap.used = {stack} /\ heap.unused = {low}
  BY DEF AllocInit
<1>2. /\ stack \in AnyChunk /\ stack.base = StackLow /\ stack.size = AddressSpace - StackLow
      /\ low \in AnyChunk /\ low.base = 0 /\ low.size = StackLow
  BY HeapConstants, ChunkFields, ChunkType
<1> HIDE DEF stack, low
<1>3. StackLow % PAGE_SIZE = 0 /\ 0 % PAGE_SIZE = 0
  BY AllocAssumption, HeapConstants
<1>4. Placed(stack) /\ Placed(low) /\ Apart(stack, low) /\ Apart(low, stack) /\ stack # low
  BY <1>2, <1>3, HeapConstants DEF Placed, PageAligned, Apart
<1>5. low.size >= MIN_CHUNK_SIZE
  <2> USE HeapConstants
  <2>1. StackLow >= PAGE_SIZE
    <3> SUFFICES ASSUME StackLow < PAGE_SIZE PROVE FALSE
      OBVIOUS
    <3>1. StackLow % PAGE_SIZE = StackLow
      OBVIOUS
    <3> QED BY <1>3, <3>1
  <2> QED BY <2>1, <1>2
<1> QED BY <1>1, <1>2, <1>4, <1>5 DEF GoodHeap, AllChunks

LEMMA HeapGoodReserve ==
  ASSUME GoodHeap(heap), NEW m \in AnyChunk, Reserve(m),
         m.size >= PAGE_SIZE => PageAligned(m.base), PageAligned(m.base + m.size)
  PROVE  GoodHeap(heap')
<1>1. CASE heap' = heap
  BY <1>1
<1>2. CASE \E c \in heap.unused :
             /\ ChunkBytes(m) \subseteq ChunkBytes(c)
             /\ heap' = [used   |-> heap.used \cup {m},
                         unused |-> (heap.unused \ {c}) \cup Tracked(Trisect(c, m))]
  <2>1. PICK c \in heap.unused :
             /\ ChunkBytes(m) \subseteq ChunkBytes(c)
             /\ heap' = [used   |-> heap.used \cup {m},
                         unused |-> (heap.unused \ {c}) \cup Tracked(Trisect(c, m))]
    BY <1>2
  <2>2. Exchanged(heap, {c}, {m}, Tracked(Trisect(c, m)), heap')
    BY <2>1, ReserveExchanges
  <2> QED BY <2>2, ExchangedGood
<1> QED BY <1>1, <1>2 DEF Reserve

LEMMA NullSegmentAligned ==
  /\ NullSegment \in AnyChunk /\ NullSegment.base = 0 /\ NullSegment.size = NullSize
  /\ PageAligned(NullSegment.base) /\ PageAligned(NullSegment.base + NullSegment.size)
<1>1. NullSegment \in AnyChunk /\ NullSegment.base = 0 /\ NullSegment.size = NullSize
  BY HeapConstants, ChunkFields, ChunkType DEF NullSegment
<1>2. NullSize % PAGE_SIZE = 0 /\ 0 % PAGE_SIZE = 0 /\ 0 + NullSize = NullSize
  BY AllocAssumption, HeapConstants
<1> QED BY <1>1, <1>2 DEF PageAligned

LEMMA HeapGoodNext ==
  ASSUME SegmentsAligned, GoodHeap(heap), [AllocNext]_allocVars
  PROVE  GoodHeap(heap')
<1>1. CASE set_null_segment_size
  BY <1>1, HeapGoodReserve, NullSegmentAligned DEF set_null_segment_size
<1>2. CASE LoadSegment
  <2>1. PICK c \in Segments : Reserve(c)
    BY <1>2 DEF LoadSegment
  <2>2. c \in AnyChunk
    BY HeapConstants DEF AnyChunk
  <2> QED BY <2>1, <2>2, HeapGoodReserve DEF SegmentsAligned
<1>3. ASSUME NEW size \in Sizes, NSZoneMalloc(size) PROVE GoodHeap(heap')
  BY <1>3, RequestSizes, MemAllocGood DEF NSZoneMalloc, Receive, UseOutcome
<1>4. ASSUME NEW size \in Sizes, malloc(size) PROVE GoodHeap(heap')
  BY <1>4, RequestSizes, MemAllocGood DEF malloc, Receive, UseOutcome
<1>5. ASSUME NEW size \in Sizes, calloc(size) PROVE GoodHeap(heap')
  <2> DEFINE n == IF size = 0 THEN 1 ELSE size
  <2>1. PICK o \in MemAlloc(heap, dirty, n) :
          Receive([o EXCEPT !.dirty = IF o.ptr = NULL THEN @ ELSE @ \ Span(o.ptr, n)], n)
    BY <1>5 DEF calloc
  <2>2. n \in Nat
    BY RequestSizes
  <2>3. o = [heap |-> o.heap, ptr |-> o.ptr, dirty |-> o.dirty]
    BY <2>1 DEF MemAlloc
  <2>4. heap' = o.heap
    BY <2>1, <2>3 DEF Receive, UseOutcome
  <2> HIDE DEF n
  <2> QED BY <2>1, <2>2, <2>4, MemAllocGood
<1>6. ASSUME NEW size \in Sizes, valloc(size) PROVE GoodHeap(heap')
  <2>1. PICK t \in MemAlloc(heap, dirty, Header) :
          \E o \in MemalignOutcomes(t.heap, t.dirty, PAGE_SIZE, size) :
            \E d : heap' = MemFree(o.heap, d, t.ptr).heap
    BY <1>6 DEF valloc, Receive, UseOutcome
  <2>2. PICK o \in MemalignOutcomes(t.heap, t.dirty, PAGE_SIZE, size) :
          \E d : heap' = MemFree(o.heap, d, t.ptr).heap
    BY <2>1
  <2>3. GoodHeap(t.heap)
    BY HeapConstants, MemAllocGood
  <2>4. GoodHeap(o.heap)
    BY <2>3, HeapConstants, MemalignGood
  <2> QED BY <2>2, <2>4, FreeGood
<1>7. ASSUME NEW size \in Sizes, NEW alignment \in Alignments, posix_memalign(alignment, size)
      PROVE  GoodHeap(heap')
  <2>1. alignment \in Nat
    BY AllocAssumption
  <2> QED BY <1>7, <2>1, MemalignGood DEF posix_memalign, Receive, UseOutcome
<1>8. ASSUME NEW b \in blocks, free(b) PROVE GoodHeap(heap')
  BY <1>8, FreeGood DEF free, UseOutcome
<1>9. ASSUME NEW b \in blocks, WriteBlock(b) PROVE GoodHeap(heap')
  BY <1>9 DEF WriteBlock
<1>10. ASSUME NEW b \in blocks, NEW size \in Sizes, realloc(b, size) PROVE GoodHeap(heap')
  BY <1>10, RequestSizes, MemReallocGood DEF realloc, UseOutcome
<1>11. CASE UNCHANGED allocVars
  BY <1>11 DEF allocVars
<1> QED BY <1>1, <1>2, <1>3, <1>4, <1>5, <1>6, <1>7, <1>8, <1>9, <1>10, <1>11 DEF AllocNext

LEMMA GoodIsWellFormed == GoodHeap(heap) => ChunksWellFormed
<1> SUFFICES ASSUME GoodHeap(heap) PROVE ChunksWellFormed
  OBVIOUS
<1>1. Chunks = AllChunks(heap) /\ Chunks \subseteq AnyChunk
  BY DEF Chunks, AllChunks, GoodHeap
<1>2. \A c \in Chunks : c.size > 0 /\ (c.size >= PAGE_SIZE => PageAligned(c.base))
  BY <1>1 DEF GoodHeap, Placed, AnyChunk
<1>3. \A c, e \in Chunks : c # e => ChunkBytes(c) \cap ChunkBytes(e) = {}
  BY <1>1, ApartBytes DEF GoodHeap
<1>4. BytesOf(Chunks) \subseteq 0 .. AddressSpace - 1
  <2>1. ASSUME NEW c \in Chunks, NEW a \in ChunkBytes(c) PROVE a \in 0 .. AddressSpace - 1
    <3>1. c \in AnyChunk /\ c.base + c.size <= AddressSpace
      BY <1>1 DEF GoodHeap, Placed
    <3> HIDE DEF AddressSpace
    <3> QED BY <3>1, InBytes, HeapConstants DEF AnyChunk
  <2> QED BY <2>1 DEF BytesOf
<1> QED BY <1>2, <1>3, <1>4 DEF ChunksWellFormed, GoodHeap

(* ChunksWellFormed: the assertions of Chunk::new and of insert never fail,  *)
(* and no byte is in two chunks, whatever alloc cuts, grow_in_place takes    *)
(* over and free merges, if the segments end on pages.                       *)
THEOREM HeapWellFormed ==
  ASSUME SegmentsAligned
  PROVE  AllocSpec => []ChunksWellFormed
<1>1. GoodHeap(heap) /\ [AllocNext]_allocVars => GoodHeap(heap)'
  BY HeapGoodNext
<1> QED BY <1>1, HeapGoodInit, GoodIsWellFormed, PTL DEF AllocSpec

-----------------------------------------------------------------------------
(* The search through the buckets overlooks no chunk. *)

(* Larger sizes are in the same or in a later bucket. *)
LEMMA BucketsMonotone ==
  ASSUME NEW n \in Nat, NEW s \in Nat, n <= s
  PROVE  /\ bucket_for(n) \in Int /\ bucket_for(s) \in Int /\ bucket_for(n) <= bucket_for(s)
<1> DEFINE Pow(x) == {k \in 1 .. AddressBits : 2 ^ k <= x}
<1>1. IsFiniteSet(1 .. AddressBits)
  BY HeapConstants, FS_Interval
<1>2. \A x : IsFiniteSet(Pow(x)) /\ Cardinality(Pow(x)) \in Nat
  BY <1>1, FS_Subset, FS_CardinalityType
<1>3. Pow(n) \subseteq Pow(s)
  <2>1. ASSUME NEW k \in 1 .. AddressBits, 2 ^ k <= n PROVE 2 ^ k <= s
    <3>1. 2 ^ k \in Int
      BY HeapConstants
    <3> HIDE DEF Pow
    <3> QED BY <2>1, <3>1
  <2> QED BY <2>1
<1>4. Cardinality(Pow(n)) <= Cardinality(Pow(s))
  <2> HIDE DEF Pow
  <2> QED BY <1>2, <1>3, FS_Subset
<1>5. Ilog2(n) \in Nat /\ Ilog2(s) \in Nat /\ Ilog2(MIN_CHUNK_SIZE) \in Nat /\ Ilog2(n) <= Ilog2(s)
  BY <1>2, <1>4 DEF Ilog2
<1> QED BY <1>5 DEF bucket_for

(* A bucket with a chunk that is large enough yields one. *)
LEMMA BestExists ==
  ASSUME NEW unused \in SUBSET AnyChunk, NEW n \in Nat, NEW bucket, NEW c \in unused,
         c.size >= n, bucket_for(c.size) = bucket
  PROVE  BestInBucket(unused, n, bucket) # {}
<1> DEFINE fit == {d \in unused : bucket_for(d.size) = bucket /\ d.size >= n}
           sizes == {d.size : d \in fit}
<1>1. sizes \in SUBSET Nat /\ sizes # {}
  BY DEF AnyChunk
<1>2. Min(sizes) \in sizes /\ \A y \in sizes : Min(sizes) <= y
  <2> HIDE DEF sizes
  <2> QED BY <1>1, HeapMinIn
<1>3. PICK d \in fit : d.size = Min(sizes)
  BY <1>2
<1>4. \A e \in fit : d.size <= e.size
  BY <1>2, <1>3
<1>5. d \in BestInBucket(unused, n, bucket)
  <2> HIDE DEF sizes
  <2> QED BY <1>4 DEF BestInBucket
<1> QED BY <1>5

LEMMA RoomIsFound ==
  ASSUME NEW h, GoodHeap(h), NEW n \in Nat, n >= MIN_CHUNK_SIZE,
         NEW c \in h.unused, c.size >= n
  PROVE  FitsFor(h.unused, n) # {}
<1> DEFINE bucket == bucket_for(n)
           own    == BestInBucket(h.unused, n, bucket)
           larger == {bucket_for(d.size) : d \in h.unused} \ (0 .. bucket)
<1>1. h.unused \in SUBSET AnyChunk /\ \A d \in h.unused : d.size \in Nat /\ d.size >= MIN_CHUNK_SIZE
  BY DEF GoodHeap, AnyChunk
<1>m. MIN_CHUNK_SIZE \in Nat
  BY HeapConstants
<1>2. bucket_for(MIN_CHUNK_SIZE) = 0
  <2>1. bucket_for(MIN_CHUNK_SIZE) \in Int
    BY <1>m, BucketsMonotone
  <2>2. Ilog2(MIN_CHUNK_SIZE) \in Nat
    <3>1. IsFiniteSet(1 .. AddressBits)
      BY HeapConstants, FS_Interval
    <3> QED BY <3>1, FS_Subset, FS_CardinalityType DEF Ilog2
  <2> QED BY <2>2 DEF bucket_for
<1>3. bucket \in Nat /\ \A d \in h.unused : bucket_for(d.size) \in Nat
  <2>1. ASSUME NEW s \in Nat, s >= MIN_CHUNK_SIZE PROVE bucket_for(s) \in Nat
    BY <2>1, <1>m, <1>2, BucketsMonotone
  <2> QED BY <2>1, <1>1
<1>4. CASE own # {} \/ larger = {}
  <2>1. FitsFor(h.unused, n) = own
    BY <1>4 DEF FitsFor
  <2>2. CASE own # {}
    BY <2>1, <2>2
  <2>3. CASE larger = {}
    <3>1. bucket_for(c.size) \in 0 .. bucket
      BY <2>3
    <3>2. bucket <= bucket_for(c.size)
      BY <1>1, BucketsMonotone
    <3>3. bucket_for(c.size) = bucket
      <4> HIDE DEF bucket
      <4> QED BY <3>1, <3>2, <1>3
    <3> QED BY <2>1, <3>3, <1>1, BestExists
  <2> QED BY <2>2, <2>3, <1>4
<1>5. CASE ~(own # {} \/ larger = {})
  <2>1. FitsFor(h.unused, n) = BestInBucket(h.unused, n, Min(larger))
    BY <1>5 DEF FitsFor
  <2>2. larger \in SUBSET Nat /\ larger # {}
    BY <1>3, <1>5
  <2>3. Min(larger) \in larger
    <3> HIDE DEF larger
    <3> QED BY <2>2, HeapMinIn
  <2>4. PICK d \in h.unused : bucket_for(d.size) = Min(larger)
    BY <2>3
  <2>5. Min(larger) \in Nat /\ Min(larger) \notin 0 .. bucket
    BY <2>2, <2>3
  <2>6. bucket_for(d.size) > bucket
    <3> HIDE DEF larger, bucket
    <3> QED BY <2>4, <2>5, <1>3
  <2>7. d.size >= n
    <3> SUFFICES ASSUME d.size < n PROVE FALSE
      BY <1>1
    <3>1. bucket_for(d.size) <= bucket
      BY <1>1, BucketsMonotone
    <3> QED BY <3>1, <2>6, <1>3
  <2> HIDE DEF larger
  <2> QED BY <2>1, <2>4, <2>7, <1>1, BestExists
<1> QED BY <1>4, <1>5

LEMMA GoodFindsRoom == GoodHeap(heap) => AllocFindsRoom
<1> SUFFICES ASSUME GoodHeap(heap), NEW size \in Sizes, NEW n, n = AlignedSize(size), n # NULL,
                    NEW c \in heap.unused, c.size >= n
             PROVE  FitsFor(heap.unused, n) # {}
  BY DEF AllocFindsRoom
<1>1. n \in Nat /\ n >= MIN_CHUNK_SIZE
  BY RequestSizes, AlignedSizeFacts
<1> QED BY <1>1, RoomIsFound

(* AllocFindsRoom: alloc looks in the bucket of the size and then only in    *)
(* the first larger bucket that is not empty; that is enough to find a chunk *)
(* whenever there is one.                                                    *)
THEOREM HeapFindsRoom ==
  ASSUME SegmentsAligned
  PROVE  AllocSpec => []AllocFindsRoom
<1>1. GoodHeap(heap) /\ [AllocNext]_allocVars => GoodHeap(heap)'
  BY HeapGoodNext
<1> QED BY <1>1, HeapGoodInit, GoodFindsRoom, PTL DEF AllocSpec

-----------------------------------------------------------------------------
(* What belongs to the guest. *)

AllSegments == Segments \cup {NullSegment}

(* The chunks that may be, or have been, handed out. *)
HeapChunks(h) == h.unused \cup (h.used \ reserved)

(* While the program is loaded: free chunks are clear of the stack and of   *)
(* the segments reserved so far, and a segment still to be reserved lies in *)
(* one free chunk or clear of all.                                          *)
Loading ==
  /\ GoodHeap(heap) /\ reserved \subseteq heap.used /\ toLoad \subseteq AllSegments
  /\ \A c \in HeapChunks(heap) :
       /\ c.size >= MIN_CHUNK_SIZE /\ ChunkBytes(c) \subseteq 0 .. StackLow - 1
       /\ \A s \in AllSegments \ toLoad : ChunkBytes(c) \cap ChunkBytes(s) = {}
  /\ \A s \in toLoad :
       \/ \E c \in heap.unused : ChunkBytes(s) \subseteq ChunkBytes(c)
       \/ \A c \in heap.unused : ChunkBytes(s) \cap ChunkBytes(c) = {}
  /\ toLoad # {} => heap.used = reserved /\ blocks = {} /\ dirty = {}

(* Once it is loaded. *)
Ready(h) ==
  /\ GoodHeap(h) /\ reserved \subseteq h.used
  /\ \A c \in HeapChunks(h) : c.size >= MIN_CHUNK_SIZE /\ ChunkBytes(c) \subseteq HeapBytes

AnyBlock == [ptr : Nat, size : Nat \ {0}]

(* Block b lies in the used chunk c, which is not a reserved one. *)
HostOf(h, b, c) ==
  /\ c \in h.used \ reserved
  /\ c.base <= b.ptr /\ b.ptr + b.size <= c.base + c.size

(* Each block has a chunk to itself. *)
Hosted(h, B) ==
  /\ B \subseteq AnyBlock
  /\ \A b \in B : \E c : HostOf(h, b, c)
  /\ \A b, e \in B, c \in h.used : HostOf(h, b, c) /\ HostOf(h, e, c) => b = e

(* Memory that is zeroed when it is freed is zero while it is free. *)
FreeIsZero(h, d) == zero_memory_on_free => d \cap BytesOf(h.unused) = {}

(* The inductive invariant of the heap. *)
BlockInv == Loading /\ Hosted(heap, blocks)

LEMMA SegmentTypes == AllSegments \subseteq AnyChunk
  BY HeapConstants, NullSegmentAligned DEF AllSegments, AnyChunk

LEMMA LoadingInit ==
  ASSUME SegmentsApart, AllocInit
  PROVE  Loading
<1> DEFINE stack == Chunk(StackLow, AddressSpace - StackLow)
           low == Chunk(0, StackLow)
<1>1. /\ heap.used = {stack} /\ heap.unused = {low} /\ reserved = {stack}
      /\ toLoad = AllSegments /\ dirty = {} /\ blocks = {}
  BY DEF AllocInit, AllSegments
<1>2. GoodHeap(heap)
  BY HeapGoodInit
<1>3. low \in AnyChunk /\ low.base = 0 /\ low.size = StackLow
  BY HeapConstants, ChunkFields, ChunkType
<1>4. ChunkBytes(low) = 0 .. StackLow - 1
  BY <1>3, HeapConstants DEF ChunkBytes, Span
<1>5. HeapChunks(heap) = {low}
  <2> HIDE DEF low
  <2> QED BY <1>1 DEF HeapChunks
<1> HIDE DEF low
<1>6. low.size >= MIN_CHUNK_SIZE
  BY <1>1, <1>2 DEF GoodHeap
<1>7. ASSUME NEW s \in AllSegments
      PROVE  ChunkBytes(s) \subseteq ChunkBytes(low) \/ ChunkBytes(s) \cap ChunkBytes(low) = {}
  <2>1. s \in AnyChunk
    BY SegmentTypes
  <2>2. s.base + s.size <= StackLow \/ s.base >= StackLow
    BY HeapConstants, NullSegmentAligned DEF AllSegments, SegmentsApart
  <2>3. CASE s.base + s.size <= StackLow
    <3>1. ASSUME NEW a \in ChunkBytes(s) PROVE a \in ChunkBytes(low)
      BY <2>1, <2>3, <1>4, <3>1, InBytes, HeapConstants DEF AnyChunk
    <3> QED BY <3>1
  <2>4. CASE s.base >= StackLow
    <3>1. ASSUME NEW a \in ChunkBytes(s) PROVE a \notin ChunkBytes(low)
      BY <2>1, <2>4, <1>4, <3>1, InBytes, HeapConstants DEF AnyChunk
    <3> QED BY <3>1
  <2> QED BY <2>2, <2>3, <2>4
<1> HIDE DEF stack
<1>8. \A s \in toLoad : \/ \E c \in heap.unused : ChunkBytes(s) \subseteq ChunkBytes(c)
                        \/ \A c \in heap.unused : ChunkBytes(s) \cap ChunkBytes(c) = {}
  BY <1>1, <1>7
<1> QED BY <1>1, <1>2, <1>4, <1>5, <1>6, <1>8 DEF Loading

(* Exchanging free chunks keeps a segment in one of them or clear of all. *)
LEMMA LoadingReserve ==
  ASSUME SegmentsAligned, SegmentsApart, Loading, NEW m \in AllSegments, m \in toLoad, Reserve(m)
  PROVE  Loading'
<1>1. m \in AnyChunk /\ (m.size >= PAGE_SIZE => PageAligned(m.base)) /\ PageAligned(m.base + m.size)
  <2>1. m \in AnyChunk
    BY SegmentTypes
  <2> QED BY <2>1, NullSegmentAligned DEF AllSegments, SegmentsAligned
<1>2. GoodHeap(heap')
  BY <1>1, HeapGoodReserve DEF Loading
<1>3. /\ heap.used = reserved /\ blocks = {} /\ dirty = {}
      /\ toLoad' = toLoad \ {m} /\ blocks' = blocks /\ dirty' = dirty
      /\ heap.unused \subseteq AnyChunk
  BY DEF Loading, Reserve, GoodHeap
<1>4. ASSUME NEW s \in toLoad, s # m PROVE s \in AnyChunk /\ Apart(s, m)
  <2>1. s \in AllSegments /\ s \in AnyChunk
    BY SegmentTypes DEF Loading
  <2>2. ChunkBytes(s) \cap ChunkBytes(m) = {}
    BY <1>4, <2>1 DEF SegmentsApart, AllSegments
  <2> QED BY <2>1, <2>2, <1>1, ApartBytes
<1>5. CASE heap' = heap /\ reserved' = reserved
           /\ \A c \in heap.unused : ~(ChunkBytes(m) \subseteq ChunkBytes(c))
  <2>1. \A c \in heap.unused : ChunkBytes(m) \cap ChunkBytes(c) = {}
    BY <1>5 DEF Loading
  <2>2. HeapChunks(heap)' = heap.unused /\ HeapChunks(heap) = heap.unused
    BY <1>3, <1>5 DEF HeapChunks
  <2>3. \A c \in heap.unused : \A s \in AllSegments \ toLoad' : ChunkBytes(c) \cap ChunkBytes(s) = {}
    <3> SUFFICES ASSUME NEW c \in heap.unused, NEW s \in AllSegments, s \notin toLoad'
                 PROVE  ChunkBytes(c) \cap ChunkBytes(s) = {}
      OBVIOUS
    <3>1. CASE s = m
      BY <3>1, <2>1
    <3>2. CASE s \notin toLoad
      BY <3>2, <2>2 DEF Loading
    <3> QED BY <3>1, <3>2, <1>3
  <2> QED BY <2>2, <2>3, <1>2, <1>3, <1>5 DEF Loading
<1>6. CASE \E c \in heap.unused :
             /\ ChunkBytes(m) \subseteq ChunkBytes(c)
             /\ heap' = [used   |-> heap.used \cup {m},
                         unused |-> (heap.unused \ {c}) \cup Tracked(Trisect(c, m))]
             /\ reserved' = reserved \cup {m}
  <2>1. PICK c \in heap.unused :
             /\ ChunkBytes(m) \subseteq ChunkBytes(c)
             /\ heap' = [used   |-> heap.used \cup {m},
                         unused |-> (heap.unused \ {c}) \cup Tracked(Trisect(c, m))]
             /\ reserved' = reserved \cup {m}
    BY <1>6
  <2> DEFINE F == Tracked(Trisect(c, m))
  <2>2. heap'.used = heap.used \cup {m} /\ heap'.unused = (heap.unused \ {c}) \cup F
    BY <2>1
  <2>3. Exchanged(heap, {c}, {m}, F, heap')
    BY <2>1, <2>2, <1>1, ReserveExchanges DEF Loading
  <2>4. F \subseteq AnyChunk /\ \A x \in F : /\ ChunkBytes(x) \subseteq ChunkBytes(c)
                                             /\ x.size >= MIN_CHUNK_SIZE
                                             /\ ChunkBytes(x) \cap ChunkBytes(m) = {}
    <3>1. Pieces({c}, {m}, F)
      BY <2>3 DEF Exchanged
    <3>2. F \subseteq AnyChunk /\ \A x \in F : /\ ChunkBytes(x) \subseteq BytesOf({c})
                                               /\ x.size >= MIN_CHUNK_SIZE
                                               /\ x # m /\ Apart(x, m)
      BY <3>1 DEF Pieces
    <3> QED BY <3>2, <1>1, ApartBytes, BytesOfSets
  <2>5. HeapChunks(heap)' = heap'.unused /\ HeapChunks(heap) = heap.unused
    BY <1>3, <2>1, <2>2 DEF HeapChunks
  <2>6. reserved' = heap'.used
    BY <1>3, <2>1, <2>2
  <2>7. \A x \in heap.unused : x.size >= MIN_CHUNK_SIZE /\ ChunkBytes(x) \subseteq 0 .. StackLow - 1
    BY <2>5 DEF Loading
  <2>8. \A x \in heap'.unused : x.size >= MIN_CHUNK_SIZE /\ ChunkBytes(x) \subseteq 0 .. StackLow - 1
    <3> HIDE DEF F
    <3> QED BY <2>2, <2>4, <2>7
  <2>9. ASSUME NEW x \in heap'.unused, NEW s \in AllSegments, s \notin toLoad'
        PROVE  ChunkBytes(x) \cap ChunkBytes(s) = {}
    <3>1. ASSUME NEW y \in heap.unused, s # m PROVE ChunkBytes(y) \cap ChunkBytes(s) = {}
      BY <3>1, <2>5, <2>9, <1>3 DEF Loading
    <3>2. CASE s = m
      <4>1. CASE x \in F
        BY <3>2, <4>1, <2>4
      <4>2. CASE x \in heap.unused \ {c}
        <5>1. ChunkBytes(x) \cap ChunkBytes(c) = {}
          <6>1. Apart(x, c) /\ x \in AnyChunk /\ c \in AnyChunk
            BY <4>2, <1>3 DEF Loading, GoodHeap, AllChunks
          <6> QED BY <6>1, ApartBytes
        <5> QED BY <5>1, <3>2, <2>1
      <4> QED BY <4>1, <4>2, <2>2
    <3>3. CASE s # m
      <4>1. CASE x \in F
        <5>1. ChunkBytes(c) \cap ChunkBytes(s) = {}
          BY <3>1, <3>3
        <5> QED BY <4>1, <5>1, <2>4
      <4>2. CASE x \in heap.unused \ {c}
        BY <4>2, <3>1, <3>3
      <4> QED BY <4>1, <4>2, <2>2
    <3> QED BY <3>2, <3>3
  <2>10. ASSUME NEW s \in toLoad'
         PROVE  \/ \E x \in heap'.unused : ChunkBytes(s) \subseteq ChunkBytes(x)
                \/ \A x \in heap'.unused : ChunkBytes(s) \cap ChunkBytes(x) = {}
    <3>0. s \in toLoad /\ s # m /\ s \in AnyChunk /\ Apart(s, m)
      BY <1>3, <1>4
    <3>1. CASE \A x \in heap.unused : ChunkBytes(s) \cap ChunkBytes(x) = {}
      <4> HIDE DEF F
      <4> QED BY <3>1, <2>2, <2>4
    <3>2. CASE \E x \in heap.unused : x # c /\ ChunkBytes(s) \subseteq ChunkBytes(x)
      BY <3>2, <2>2
    <3>3. CASE ChunkBytes(s) \subseteq ChunkBytes(c)
      <4> DEFINE left == Chunk(c.base, m.base - c.base)
                 right == Chunk(m.base + m.size, (c.base + c.size) - (m.base + m.size))
      <4>1. \A x \in heap.unused \ {c} : ChunkBytes(s) \cap ChunkBytes(x) = {}
        <5> SUFFICES ASSUME NEW x \in heap.unused \ {c} PROVE ChunkBytes(s) \cap ChunkBytes(x) = {}
          OBVIOUS
        <5>1. Apart(c, x) /\ x \in AnyChunk /\ c \in AnyChunk
          BY <1>3 DEF Loading, GoodHeap, AllChunks
        <5>2. ChunkBytes(c) \cap ChunkBytes(x) = {}
          BY <5>1, ApartBytes
        <5> QED BY <5>2, <3>3
      <4>c. c \in AnyChunk
        BY <1>3
      <4>2. /\ s.base \in Nat /\ s.size \in Nat \ {0} /\ m.base \in Nat /\ m.size \in Nat \ {0}
            /\ c.base \in Nat /\ c.size \in Nat \ {0}
        BY <4>c, <1>1, <3>0 DEF AnyChunk
      <4>3. /\ c.base <= s.base /\ s.base + s.size <= c.base + c.size
            /\ c.base <= m.base /\ m.base + m.size <= c.base + c.size
        <5>1. /\ s.base \in ChunkBytes(s) /\ s.base + s.size - 1 \in ChunkBytes(s)
              /\ m.base \in ChunkBytes(m) /\ m.base + m.size - 1 \in ChunkBytes(m)
          BY <4>2, <3>0, <1>1, InBytes
        <5>2. /\ s.base \in ChunkBytes(c) /\ s.base + s.size - 1 \in ChunkBytes(c)
              /\ m.base \in ChunkBytes(c) /\ m.base + m.size - 1 \in ChunkBytes(c)
          BY <5>1, <3>3, <2>1
        <5> QED BY <5>2, <4>c, <4>2, InBytes
      <4>4. F \subseteq {left, right}
        BY DEF Tracked, Trisect
      <4>5. /\ left.base = c.base /\ left.size = m.base - c.base
            /\ right.base = m.base + m.size /\ right.size = (c.base + c.size) - (m.base + m.size)
        BY ChunkFields
      <4> HIDE DEF F, left, right
      <4>6. CASE s.base + s.size <= m.base
        <5>1. CASE left \in F
          <6>1. left \in AnyChunk
            BY <5>1, <2>4
          <6>2. ASSUME NEW a \in ChunkBytes(s) PROVE a \in ChunkBytes(left)
            BY <6>1, <6>2, <4>2, <4>3, <4>5, <4>6, <3>0, InBytes
          <6> QED BY <6>2, <5>1, <2>2
        <5>2. CASE left \notin F
          <6>1. ASSUME NEW x \in F, NEW a \in ChunkBytes(s), a \in ChunkBytes(x) PROVE FALSE
            <7>1. x = right /\ x \in AnyChunk
              BY <4>4, <5>2, <2>4
            <7> QED BY <7>1, <6>1, <4>2, <4>3, <4>5, <4>6, <3>0, InBytes
          <6> QED BY <6>1, <4>1, <2>2
        <5> QED BY <5>1, <5>2
      <4>7. CASE m.base + m.size <= s.base
        <5>1. CASE right \in F
          <6>1. right \in AnyChunk
            BY <5>1, <2>4
          <6>2. ASSUME NEW a \in ChunkBytes(s) PROVE a \in ChunkBytes(right)
            BY <6>1, <6>2, <4>2, <4>3, <4>5, <4>7, <3>0, InBytes
          <6> QED BY <6>2, <5>1, <2>2
        <5>2. CASE right \notin F
          <6>1. ASSUME NEW x \in F, NEW a \in ChunkBytes(s), a \in ChunkBytes(x) PROVE FALSE
            <7>1. x = left /\ x \in AnyChunk
              BY <4>4, <5>2, <2>4
            <7> QED BY <7>1, <6>1, <4>2, <4>3, <4>5, <4>7, <3>0, InBytes
          <6> QED BY <6>1, <4>1, <2>2
        <5> QED BY <5>1, <5>2
      <4> QED BY <4>6, <4>7, <3>0 DEF Apart
    <3> QED BY <3>0, <3>1, <3>2, <3>3 DEF Loading
  <2>11. toLoad' \subseteq AllSegments
    BY <1>3 DEF Loading
  <2>12. \A x \in heap'.unused : \A s \in AllSegments \ toLoad' : ChunkBytes(x) \cap ChunkBytes(s) = {}
    BY <2>9
  <2> HIDE DEF F
  <2>13. \A x \in HeapChunks(heap)' :
           /\ x.size >= MIN_CHUNK_SIZE /\ ChunkBytes(x) \subseteq 0 .. StackLow - 1
           /\ \A s \in AllSegments \ toLoad' : ChunkBytes(x) \cap ChunkBytes(s) = {}
    BY <2>5, <2>8, <2>12
  <2> QED BY <1>2, <1>3, <2>6, <2>10, <2>11, <2>13 DEF Loading
<1> QED BY <1>5, <1>6 DEF Reserve

LEMMA LoadedIsReady == Loading /\ toLoad = {} => Ready(heap)
<1> SUFFICES ASSUME Loading, toLoad = {}, NEW c \in HeapChunks(heap), NEW a \in ChunkBytes(c)
             PROVE  a \in HeapBytes
  BY DEF Loading, Ready
<1>1. a \in 0 .. StackLow - 1
  BY DEF Loading
<1>2. ChunkBytes(NullSegment) = Span(0, NullSize)
  BY NullSegmentAligned DEF ChunkBytes
<1>3. \A s \in AllSegments : a \notin ChunkBytes(s)
  BY DEF Loading
<1>4. a \notin Span(0, NullSize) /\ a \notin BytesOf(Segments)
  BY <1>2, <1>3 DEF AllSegments, BytesOf
<1> QED BY <1>1, <1>4 DEF HeapBytes

(* A heap chunk does not start at address 0. *)
LEMMA HeapChunkNotNull ==
  ASSUME NEW h, Ready(h), NEW c \in HeapChunks(h)
  PROVE  c.base # NULL /\ c \in AnyChunk
<1>1. c \in AnyChunk
  BY DEF Ready, GoodHeap, HeapChunks
<1>2. c.base \in HeapBytes
  BY <1>1, NotApartFromItself DEF Ready
<1>3. 0 \in Span(0, NullSize)
  BY HeapConstants DEF Span
<1> QED BY <1>1, <1>2, <1>3 DEF HeapBytes, NULL

(* Exchanging heap chunks for pieces of them. *)
LEMMA ExchangedReady ==
  ASSUME NEW h, Ready(h), NEW R, NEW U, NEW F, NEW g, Exchanged(h, R, U, F, g),
         R \subseteq HeapChunks(h), \A c \in U : c.size >= MIN_CHUNK_SIZE
  PROVE  Ready(g) /\ R \cap reserved = {}
<1>1. GoodHeap(g)
  BY ExchangedGood DEF Ready
<1>2. R \cap reserved = {}
  BY DEF HeapChunks, Ready, GoodHeap
<1>3. reserved \subseteq g.used
  BY <1>2 DEF Exchanged, Ready
<1>4. ASSUME NEW c \in HeapChunks(g) PROVE c.size >= MIN_CHUNK_SIZE /\ ChunkBytes(c) \subseteq HeapBytes
  <2>1. CASE c \in U \cup F
    <3>1. ChunkBytes(c) \subseteq BytesOf(R) /\ c.size >= MIN_CHUNK_SIZE
      BY <2>1 DEF Exchanged, Pieces
    <3>2. BytesOf(R) \subseteq HeapBytes
      BY DEF Ready, BytesOf
    <3> QED BY <3>1, <3>2
  <2>2. CASE c \notin U \cup F
    BY <2>2 DEF HeapChunks, Exchanged, Ready
  <2> QED BY <2>1, <2>2
<1> QED BY <1>1, <1>2, <1>3, <1>4 DEF Ready

(* The outcomes of Mem::alloc: no room, or a new used chunk. *)
NewChunk(h, g, a) ==
  /\ a \in AnyChunk /\ a \notin h.used /\ a.base # NULL
  /\ g.used = h.used \cup {a}
  /\ Ready(g) /\ BytesOf(AllChunks(g)) = BytesOf(AllChunks(h))
  /\ ChunkBytes(a) \subseteq BytesOf(h.unused) /\ BytesOf(g.unused) \subseteq BytesOf(h.unused)

LEMMA MemAllocNew ==
  ASSUME NEW h, Ready(h), NEW d, NEW size \in Nat, NEW o \in MemAlloc(h, d, size)
  PROVE  \/ o.ptr = NULL /\ o.heap = h /\ o.dirty = d
         \/ /\ o.dirty = IF zero_memory_on_free THEN d ELSE d \ Span(o.ptr, size)
            /\ \E a : NewChunk(h, o.heap, a) /\ a.base = o.ptr /\ a.size >= size
<1>1. PICK p \in AllocOutcomes(h, size) :
        /\ o.heap = p.heap /\ o.ptr = p.ptr
        /\ o.dirty = IF zero_memory_on_free \/ p.ptr = NULL THEN d ELSE d \ Span(p.ptr, size)
  BY DEF MemAlloc
<1>2. CASE p.heap = h /\ p.ptr = NULL
  BY <1>1, <1>2
<1>3. CASE \E c, a, F : AllocCuts(h, size, p, c, a, F)
  <2>1. PICK c, a, F : AllocCuts(h, size, p, c, a, F)
    BY <1>3
  <2>2. c \in HeapChunks(h) /\ c \in h.unused
    BY <2>1 DEF AllocCuts, HeapChunks
  <2>3. c.base # NULL
    BY <2>2, HeapChunkNotNull
  <2>4. Exchanged(h, {c}, {a}, F, p.heap)
    BY <2>1 DEF AllocCuts
  <2>5. Ready(p.heap)
    BY <2>1, <2>2, <2>4, ExchangedReady DEF AllocCuts
  <2>6. BytesOf(AllChunks(p.heap)) = BytesOf(AllChunks(h))
    BY <2>1, <2>4, ExchangedBytes DEF AllocCuts
  <2>7. c \notin h.used
    BY <2>2 DEF Ready, GoodHeap
  <2>8. a \notin h.used /\ p.heap.used = h.used \cup {a} /\ a \in AnyChunk
    <3>1. p.heap.used = h.used \cup {a} /\ a \in AnyChunk
      BY <2>1, <2>4, <2>7 DEF Exchanged, AllocCuts
    <3>2. a.base = c.base
      BY <2>1 DEF AllocCuts
    <3>3. ASSUME a \in h.used PROVE FALSE
      <4>1. a = c
        BY <3>3, <3>2, <2>2, SameBase DEF Ready, AllChunks
      <4> QED BY <4>1, <3>3, <2>7
    <3> QED BY <3>1, <3>3
  <2>9. ChunkBytes(a) \subseteq BytesOf({c}) /\ \A x \in F : ChunkBytes(x) \subseteq BytesOf({c})
    BY <2>4 DEF Exchanged, Pieces
  <2>10. BytesOf({c}) \subseteq BytesOf(h.unused)
    BY <2>2 DEF BytesOf
  <2>11. BytesOf(p.heap.unused) \subseteq BytesOf(h.unused)
    <3>1. p.heap.unused = (h.unused \ {c}) \cup F
      BY <2>4 DEF Exchanged
    <3>2. BytesOf(F) \subseteq BytesOf(h.unused)
      BY <2>9, <2>10 DEF BytesOf
    <3> QED BY <3>1, <3>2 DEF BytesOf
  <2>12. NewChunk(h, p.heap, a)
    BY <2>1, <2>3, <2>5, <2>6, <2>8, <2>9, <2>10, <2>11 DEF NewChunk, AllocCuts
  <2> QED BY <2>1, <2>3, <2>12, <1>1 DEF AllocCuts
<1> QED BY <1>2, <1>3, AllocExchanges DEF Ready

(* Mem::free of an address in the used heap chunk w: nothing happens, or it  *)
(* is the base of w, and w is free.                                          *)
Freed(h, g, w) ==
  /\ g.used = h.used \ {w} /\ Ready(g)
  /\ BytesOf(AllChunks(g)) = BytesOf(AllChunks(h))
  /\ BytesOf(g.unused) \subseteq BytesOf(h.unused) \cup ChunkBytes(w)

(* What was dirty in d, when c is cleared as it is freed. *)
Cleared(d, e, c) == zero_memory_on_free => e = d \ ChunkBytes(c)

LEMMA InOneChunk ==
  ASSUME NEW h, GoodHeap(h), NEW c \in AllChunks(h), NEW e \in AllChunks(h), NEW a,
         a \in ChunkBytes(c), a \in ChunkBytes(e)
  PROVE  c = e
<1>1. c \in AnyChunk /\ e \in AnyChunk
  BY DEF GoodHeap, AllChunks
<1>2. ~Apart(c, e)
  BY <1>1, ApartBytes
<1> QED BY <1>2 DEF GoodHeap

LEMMA MemFreeIn ==
  ASSUME NEW h, Ready(h), NEW d, NEW w \in h.used \ reserved, NEW ptr \in ChunkBytes(w)
  PROVE  /\ ~IsKnown(h, ptr) => MemFree(h, d, ptr).heap = h /\ MemFree(h, d, ptr).dirty = d
         /\ IsKnown(h, ptr) =>
              /\ ptr = w.base /\ UsedAt(h, ptr) = w
              /\ Freed(h, MemFree(h, d, ptr).heap, w)
              /\ Cleared(d, MemFree(h, d, ptr).dirty, w)
<1>0. w \in HeapChunks(h) /\ w \in AnyChunk /\ w \in AllChunks(h)
  BY DEF HeapChunks, Ready, GoodHeap, AllChunks
<1>1. CASE ~IsKnown(h, ptr)
  BY <1>1 DEF MemFree
<1>2. CASE IsKnown(h, ptr)
  <2>1. UsedAt(h, ptr) \in h.used /\ UsedAt(h, ptr).base = ptr
    BY <1>2, KnownChunk
  <2>2. UsedAt(h, ptr) = w
    <3>1. UsedAt(h, ptr) \in AllChunks(h) /\ UsedAt(h, ptr) \in AnyChunk
      BY <2>1 DEF AllChunks, Ready, GoodHeap
    <3>2. ptr \in ChunkBytes(UsedAt(h, ptr))
      BY <2>1, <3>1, NotApartFromItself
    <3> QED BY <3>1, <3>2, <1>0, InOneChunk DEF Ready
  <2>3. ptr = w.base /\ ptr # NULL
    BY <2>1, <2>2, <1>0, HeapChunkNotNull
  <2>4. PICK u, T, F : FreeCuts(h, ptr, FreeChunk(h, ptr), u, T, F)
    BY <1>2, FreeExchanges DEF Ready
  <2>5. u = w
    <3>1. u \in AllChunks(h) /\ u.base = w.base
      BY <2>3, <2>4 DEF FreeCuts, AllChunks
    <3> QED BY <3>1, <1>0, SameBase DEF Ready
  <2> DEFINE g == FreeChunk(h, ptr)
  <2>6. /\ T \subseteq h.unused /\ Exchanged(h, {w} \cup T, {}, F, g)
        /\ w.size >= MIN_CHUNK_SIZE => BytesOf({} \cup F) = BytesOf({w} \cup T)
    BY <2>4, <2>5 DEF FreeCuts
  <2> HIDE DEF g
  <2>7. w.size >= MIN_CHUNK_SIZE
    BY <1>0 DEF Ready
  <2>8. {w} \cup T \subseteq HeapChunks(h)
    BY <1>0, <2>6 DEF HeapChunks
  <2>9. Ready(g)
    BY <2>6, <2>8, ExchangedReady
  <2>10. BytesOf(AllChunks(g)) = BytesOf(AllChunks(h))
    BY <2>6, <2>7, ExchangedBytes
  <2>11. h.used \cap h.unused = {}
    BY DEF Ready, GoodHeap
  <2>12. g.used = h.used \ {w}
    BY <2>6, <2>11 DEF Exchanged
  <2>13. BytesOf(g.unused) \subseteq BytesOf(h.unused) \cup ChunkBytes(w)
    <3>1. g.unused = (h.unused \ ({w} \cup T)) \cup F
      BY <2>6 DEF Exchanged
    <3>2. BytesOf({w} \cup T) \subseteq BytesOf(h.unused) \cup ChunkBytes(w)
      BY <2>6 DEF BytesOf
    <3>3. \A x \in F : ChunkBytes(x) \subseteq BytesOf({w} \cup T)
      BY <2>6 DEF Exchanged, Pieces
    <3>4. BytesOf(F) \subseteq BytesOf({w} \cup T)
      BY <3>3 DEF BytesOf
    <3>5. BytesOf(h.unused \ ({w} \cup T)) \subseteq BytesOf(h.unused)
      BY DEF BytesOf
    <3>6. BytesOf(g.unused) = BytesOf(h.unused \ ({w} \cup T)) \cup BytesOf(F)
      BY <3>1, BytesOfSets
    <3> QED BY <3>2, <3>4, <3>5, <3>6
  <2>14. Freed(h, g, w)
    BY <2>9, <2>10, <2>12, <2>13 DEF Freed
  <2>15. /\ MemFree(h, d, ptr).heap = g
         /\ Cleared(d, MemFree(h, d, ptr).dirty, w)
    BY <1>2, <2>2, <2>3 DEF MemFree, Cleared, g
  <2> QED BY <1>2, <2>2, <2>3, <2>14, <2>15
<1> QED BY <1>1, <1>2

(* A copy changes nothing outside its destination. *)
LEMMA MovedWithin ==
  ASSUME NEW d, NEW dest \in Nat, NEW src \in Nat, NEW size \in Nat
  PROVE  Moved(d, dest, src, size) \subseteq d \cup Span(dest, size)
<1>1. ASSUME NEW a \in Span(src, size) PROVE dest + (a - src) \in Span(dest, size)
  BY <1>1 DEF Span
<1> QED BY <1>1 DEF Moved

LEMMA NothingMoved ==
  ASSUME NEW d, NEW dest \in Nat, NEW src \in Nat
  PROVE  Moved(d, dest, src, 0) = d
<1>1. Span(dest, 0) = {} /\ Span(src, 0) = {}
  BY DEF Span
<1> QED BY <1>1 DEF Moved

(* The outcomes of Mem::realloc of an address in the used heap chunk w: the *)
(* chunk is large enough, it grows, its contents move, or there is no room. *)
Replaced(h, g, X, a) ==
  /\ a \in AnyChunk /\ a \notin h.used \ X
  /\ g.used = (h.used \ X) \cup {a}

Realloced(h, ptr, size, o, w) ==
  \/ /\ o.ptr = ptr /\ ptr = w.base
     /\ \E a : Replaced(h, o.heap, {w}, a) /\ a.base = ptr /\ a.size >= size
  \/ /\ o.ptr # NULL /\ ptr = w.base
     /\ \E a : Replaced(h, o.heap, {w}, a) /\ a.base = o.ptr /\ a.size >= size
  \/ /\ o.ptr # NULL /\ ~IsKnown(h, ptr)
     /\ \E a : Replaced(h, o.heap, {}, a) /\ a.base = o.ptr /\ a.size >= size
  \/ /\ o.ptr = NULL /\ ~IsKnown(h, ptr) /\ o.heap = h
  \/ /\ o.ptr = NULL /\ IsKnown(h, ptr) /\ o.heap.used = h.used \ {w}

LEMMA MemReallocIn ==
  ASSUME NEW h, Ready(h), NEW d, NEW w \in h.used \ reserved, NEW ptr \in ChunkBytes(w),
         NEW size \in Nat \ {0}, NEW o \in MemRealloc(h, d, ptr, size)
  PROVE  /\ Ready(o.heap) /\ BytesOf(AllChunks(o.heap)) = BytesOf(AllChunks(h))
         /\ Realloced(h, ptr, size, o, w)
         /\ FreeIsZero(h, d) /\ (o.ptr # NULL \/ find_allocated_size(h, ptr) <= NullSize)
              => FreeIsZero(o.heap, o.dirty)
<1> DEFINE old == find_allocated_size(h, ptr)
           grown == GrowOutcomes(h, ptr, old, size)
<1>0. w \in HeapChunks(h) /\ w \in AnyChunk /\ w \in AllChunks(h)
  BY DEF HeapChunks, Ready, GoodHeap, AllChunks
<1>p. ptr \in Nat
  BY <1>0, InBytes
<1>o. old \in Nat
  BY FoundSize DEF Ready
<1>1. IsKnown(h, ptr) => UsedAt(h, ptr) = w /\ w.base = ptr /\ old = w.size /\ ptr # NULL
  <2> SUFFICES ASSUME IsKnown(h, ptr) PROVE UsedAt(h, ptr) = w /\ w.base = ptr /\ old = w.size /\ ptr # NULL
    OBVIOUS
  <2>1. UsedAt(h, ptr) \in h.used /\ UsedAt(h, ptr).base = ptr
    BY KnownChunk
  <2>2. UsedAt(h, ptr) \in AllChunks(h) /\ UsedAt(h, ptr) \in AnyChunk
    BY <2>1 DEF AllChunks, Ready, GoodHeap
  <2>3. ptr \in ChunkBytes(UsedAt(h, ptr))
    BY <2>1, <2>2, NotApartFromItself
  <2>4. UsedAt(h, ptr) = w
    BY <2>2, <2>3, <1>0, InOneChunk DEF Ready
  <2> QED BY <2>1, <2>4, <1>0, HeapChunkNotNull DEF find_allocated_size
<1>2. ~IsKnown(h, ptr) => old = 0
  BY DEF find_allocated_size
<1>3. CASE old >= size
  <2>1. IsKnown(h, ptr)
    <3> HIDE DEF old
    <3> QED BY <1>3, <1>2
  <2>2. o.heap = h /\ o.dirty = d /\ o.ptr = ptr
    BY <1>3 DEF MemRealloc
  <2>3. Replaced(h, o.heap, {w}, w)
    BY <2>2, <1>0 DEF Replaced
  <2>4. w.size >= size /\ w.base = ptr
    BY <2>1, <1>1, <1>3
  <2> HIDE DEF old
  <2>5. Realloced(h, ptr, size, o, w)
    BY <2>2, <2>3, <2>4 DEF Realloced
  <2> QED BY <2>2, <2>5
<1>4. CASE ~(old >= size) /\ grown # {}
  <2>0. PICK g \in grown :
          o = [heap |-> g, ptr |-> ptr,
               dirty |-> IF zero_memory_on_free
                           THEN d \ (ChunkBytes(UsedAt(g, ptr)) \ Span(ptr, old)) ELSE d]
    <3> HIDE DEF old
    <3> QED BY <1>4 DEF MemRealloc, old
  <2>1. /\ o.heap = g /\ o.ptr = ptr
        /\ o.dirty = IF zero_memory_on_free
                       THEN d \ (ChunkBytes(UsedAt(g, ptr)) \ Span(ptr, old)) ELSE d
    <3> HIDE DEF old, grown
    <3> QED BY <2>0
  <2>2. old < size
    BY <1>o, <1>4
  <2>3. PICK u, c, a, F : GrowCuts(h, ptr, size, g, u, c, a, F)
    BY <2>2, GrowExchanges DEF Ready
  <2>4. u = w
    <3>1. u \in AllChunks(h) /\ u \in AnyChunk /\ u.base = ptr
      BY <2>3 DEF GrowCuts, AllChunks, Ready, GoodHeap
    <3>2. ptr \in ChunkBytes(u)
      BY <3>1, NotApartFromItself
    <3> QED BY <3>1, <3>2, <1>0, InOneChunk DEF Ready
  <2>5. /\ c \in h.unused /\ a \in AnyChunk /\ w.base = ptr /\ a.base = ptr
        /\ a.size >= size /\ a.size >= w.size
        /\ BytesOf({a} \cup F) = BytesOf({w, c}) /\ Exchanged(h, {w, c}, {a}, F, g)
    BY <2>3, <2>4 DEF GrowCuts
  <2>6. a.size >= MIN_CHUNK_SIZE
    <3>1. w.size >= MIN_CHUNK_SIZE
      BY <1>0 DEF Ready
    <3> QED BY <3>1, <2>5, <1>0, HeapConstants DEF AnyChunk
  <2>7. {w, c} \subseteq HeapChunks(h)
    BY <1>0, <2>5 DEF HeapChunks
  <2>8. Ready(g)
    BY <2>5, <2>6, <2>7, ExchangedReady
  <2>9. BytesOf(AllChunks(g)) = BytesOf(AllChunks(h))
    BY <2>5, ExchangedBytes
  <2>10. c \notin h.used /\ w \notin h.unused /\ h.used \cap h.unused = {}
    BY <2>5 DEF Ready, GoodHeap
  <2>11. g.used = (h.used \ {w}) \cup {a} /\ g.unused = (h.unused \ {c}) \cup F
    BY <2>5, <2>10 DEF Exchanged
  <2>12. a \notin h.used \ {w}
    <3> SUFFICES ASSUME a \in h.used PROVE a = w
      OBVIOUS
    <3>1. a \in AllChunks(h) /\ a.base = w.base
      BY <2>5 DEF AllChunks
    <3> QED BY <3>1, <1>0, SameBase DEF Ready
  <2>13. Realloced(h, ptr, size, o, w)
    BY <2>1, <2>5, <2>11, <2>12 DEF Realloced, Replaced
  <2>14. BytesOf(g.unused) \subseteq BytesOf(h.unused)
    <3>1. ASSUME NEW x \in F, NEW y \in ChunkBytes(x) PROVE y \in BytesOf(h.unused)
      <4>1. /\ ChunkBytes(x) \subseteq BytesOf({w, c}) /\ x \in AnyChunk
            /\ x # a /\ Apart(x, a)
        BY <2>5 DEF Exchanged, Pieces
      <4>2. BytesOf({w, c}) = ChunkBytes(w) \cup ChunkBytes(c)
        BY BytesOfSets
      <4>3. ChunkBytes(w) \subseteq ChunkBytes(a)
        <5>1. ASSUME NEW z \in ChunkBytes(w) PROVE z \in ChunkBytes(a)
          BY <5>1, <2>5, <1>0, InBytes DEF AnyChunk
        <5> QED BY <5>1
      <4>4. ChunkBytes(x) \cap ChunkBytes(a) = {}
        BY <4>1, <2>5, ApartBytes
      <4>5. y \in ChunkBytes(c)
        BY <4>1, <4>2, <4>3, <4>4
      <4> QED BY <4>5, <2>5 DEF BytesOf
    <3> QED BY <3>1, <2>11 DEF BytesOf
  <2>15. o.dirty \subseteq d
    BY <2>1
  <2>16. FreeIsZero(h, d) => FreeIsZero(g, o.dirty)
    BY <2>14, <2>15 DEF FreeIsZero
  <2> QED BY <2>1, <2>8, <2>9, <2>13, <2>16
<1>5. CASE ~(old >= size) /\ grown = {}
  <2>1. PICK p \in MemAlloc(h, d, size) :
          LET f == MemFree(p.heap, Moved(p.dirty, p.ptr, ptr, old), ptr) IN
          o.heap = f.heap /\ o.dirty = f.dirty /\ o.ptr = p.ptr
    BY <1>5 DEF MemRealloc
  <2> DEFINE md == Moved(p.dirty, p.ptr, ptr, old)
             f == MemFree(p.heap, md, ptr)
  <2>2. o.heap = f.heap /\ o.dirty = f.dirty /\ o.ptr = p.ptr
    BY <2>1
  <2>3. CASE p.ptr = NULL /\ p.heap = h /\ p.dirty = d
    <3>1. \/ ~IsKnown(h, ptr) /\ f.heap = h /\ f.dirty = md
          \/ /\ IsKnown(h, ptr) /\ Freed(h, f.heap, w)
             /\ Cleared(md, f.dirty, w)
      <4>1. f = MemFree(h, md, ptr)
        BY <2>3
      <4> HIDE DEF md, f
      <4>2. CASE ~IsKnown(h, ptr)
        <5> HIDE DEF old
        <5>1. MemFree(h, md, ptr) = [heap |-> h, dirty |-> md]
          BY <4>2 DEF MemFree
        <5> QED BY <4>1, <4>2, <5>1
      <4>3. CASE IsKnown(h, ptr)
        <5>1. Freed(h, MemFree(h, md, ptr).heap, w)
          BY <4>3, MemFreeIn
        <5>2. Cleared(md, MemFree(h, md, ptr).dirty, w)
          <6> HIDE DEF old
          <6> QED BY <4>3, <1>1 DEF MemFree, Cleared
        <5> QED BY <4>1, <4>3, <5>1, <5>2
      <4> QED BY <4>2, <4>3
    <3>2. FreeIsZero(h, d) /\ old <= NullSize /\ zero_memory_on_free
            => md \cap BytesOf(h.unused) = {}
      <4>1. md \subseteq d \cup Span(NULL, old)
        <5> HIDE DEF old
        <5> QED BY <1>p, <1>o, <2>3, MovedWithin DEF NULL
      <4>2. old <= NullSize => Span(NULL, old) \subseteq Span(0, NullSize)
        <5> HIDE DEF old
        <5> QED BY <1>o, HeapConstants DEF Span, NULL
      <4>3. BytesOf(h.unused) \subseteq HeapBytes
        BY DEF Ready, HeapChunks, BytesOf
      <4>4. Span(0, NullSize) \cap HeapBytes = {}
        BY DEF HeapBytes
      <4> HIDE DEF md, old
      <4> QED BY <4>1, <4>2, <4>3, <4>4 DEF FreeIsZero
    <3>3. CASE ~IsKnown(h, ptr) /\ f.heap = h /\ f.dirty = md
      <4>1. Realloced(h, ptr, size, o, w)
        BY <2>2, <2>3, <3>3 DEF Realloced
      <4> HIDE DEF md, f
      <4>2. FreeIsZero(h, d) /\ old <= NullSize => FreeIsZero(o.heap, o.dirty)
        BY <2>2, <3>2, <3>3 DEF FreeIsZero
      <4> HIDE DEF old
      <4> QED BY <4>1, <4>2, <2>2, <2>3, <3>3 DEF old
    <3>4. CASE /\ IsKnown(h, ptr) /\ Freed(h, f.heap, w)
               /\ Cleared(md, f.dirty, w)
      <4>1. Realloced(h, ptr, size, o, w)
        BY <2>2, <2>3, <3>4 DEF Realloced, Freed
      <4> HIDE DEF md, f
      <4>2. FreeIsZero(h, d) /\ old <= NullSize => FreeIsZero(o.heap, o.dirty)
        BY <2>2, <3>2, <3>4 DEF FreeIsZero, Freed, Cleared
      <4>3. Ready(o.heap) /\ BytesOf(AllChunks(o.heap)) = BytesOf(AllChunks(h))
        BY <2>2, <3>4 DEF Freed
      <4> HIDE DEF old
      <4> QED BY <4>1, <4>2, <4>3, <2>2, <2>3 DEF old
    <3> QED BY <3>1, <3>3, <3>4
  <2>4. ASSUME NEW a, NewChunk(h, p.heap, a), a.base = p.ptr, a.size >= size,
               p.dirty = IF zero_memory_on_free THEN d ELSE d \ Span(p.ptr, size)
        PROVE  /\ Ready(o.heap) /\ BytesOf(AllChunks(o.heap)) = BytesOf(AllChunks(h))
               /\ Realloced(h, ptr, size, o, w)
               /\ FreeIsZero(h, d) => FreeIsZero(o.heap, o.dirty)
    <3>1. /\ a \in AnyChunk /\ a \notin h.used /\ a.base # NULL
          /\ p.heap.used = h.used \cup {a} /\ Ready(p.heap)
          /\ BytesOf(AllChunks(p.heap)) = BytesOf(AllChunks(h))
          /\ BytesOf(p.heap.unused) \subseteq BytesOf(h.unused)
      BY <2>4 DEF NewChunk
    <3>2. w \in p.heap.used \ reserved
      BY <3>1
    <3>3. IsKnown(p.heap, ptr) <=> IsKnown(h, ptr)
      <4>1. ASSUME a.base = ptr PROVE FALSE
        <5>1. a \in AllChunks(p.heap) /\ w \in AllChunks(p.heap)
          BY <3>1, <3>2 DEF AllChunks
        <5>2. ptr \in ChunkBytes(a)
          BY <4>1, <3>1, NotApartFromItself
        <5>3. a = w
          BY <5>1, <5>2, <3>1, InOneChunk DEF Ready
        <5> QED BY <5>3, <3>1
      <4> QED BY <4>1, <3>1 DEF IsKnown
    <3>4. o.ptr # NULL
      BY <2>2, <2>4, <3>1
    <3>5. \/ ~IsKnown(h, ptr) /\ f.heap = p.heap /\ f.dirty = md
          \/ /\ IsKnown(h, ptr) /\ ptr = w.base /\ Freed(p.heap, f.heap, w)
             /\ Cleared(md, f.dirty, w)
      <4> HIDE DEF md
      <4> QED BY <3>1, <3>2, <3>3, MemFreeIn
    <3>6. BytesOf(p.heap.unused) \cap ChunkBytes(a) = {}
      <4>1. ASSUME NEW x \in p.heap.unused PROVE ChunkBytes(x) \cap ChunkBytes(a) = {}
        <5>1. x \in AnyChunk /\ x # a /\ Apart(x, a)
          BY <3>1 DEF Ready, GoodHeap, AllChunks
        <5> QED BY <5>1, <3>1, ApartBytes
      <4> QED BY <4>1 DEF BytesOf
    <3>7. zero_memory_on_free => md \subseteq d \cup ChunkBytes(a)
      <4> SUFFICES ASSUME zero_memory_on_free PROVE md \subseteq d \cup ChunkBytes(a)
        OBVIOUS
      <4>1. p.dirty = d /\ p.ptr \in Nat
        BY <2>4, <3>1 DEF AnyChunk
      <4>2. md \subseteq d \cup Span(p.ptr, old)
        BY <4>1, <1>p, <1>o, MovedWithin
      <4>3. Span(p.ptr, old) \subseteq ChunkBytes(a)
        <5> HIDE DEF old
        <5>1. ASSUME NEW y \in Span(p.ptr, old) PROVE y \in ChunkBytes(a)
          BY <5>1, <1>o, <1>5, <2>4, <3>1, <4>1, InBytes DEF Span, AnyChunk
        <5> QED BY <5>1
      <4> QED BY <4>2, <4>3
    <3>8. FreeIsZero(h, d) /\ zero_memory_on_free => md \cap BytesOf(p.heap.unused) = {}
      <4> HIDE DEF md
      <4> QED BY <3>1, <3>6, <3>7 DEF FreeIsZero
    <3> HIDE DEF md, f
    <3>9. CASE ~IsKnown(h, ptr) /\ f.heap = p.heap /\ f.dirty = md
      <4>1. Replaced(h, o.heap, {}, a)
        BY <3>1, <3>9, <2>2 DEF Replaced
      <4>2. Realloced(h, ptr, size, o, w)
        BY <4>1, <3>4, <3>9, <2>2, <2>4 DEF Realloced
      <4>3. FreeIsZero(h, d) => FreeIsZero(o.heap, o.dirty)
        BY <3>8, <3>9, <2>2 DEF FreeIsZero
      <4> QED BY <4>2, <4>3, <3>1, <3>9, <2>2
    <3>10. CASE /\ IsKnown(h, ptr) /\ ptr = w.base /\ Freed(p.heap, f.heap, w)
                /\ Cleared(md, f.dirty, w)
      <4>1. Replaced(h, o.heap, {w}, a)
        <5>1. a # w
          BY <3>1
        <5> QED BY <5>1, <3>1, <3>10, <2>2 DEF Replaced, Freed
      <4>2. Realloced(h, ptr, size, o, w)
        BY <4>1, <3>4, <3>10, <2>2, <2>4 DEF Realloced
      <4>3. FreeIsZero(h, d) => FreeIsZero(o.heap, o.dirty)
        BY <3>8, <3>10, <2>2 DEF FreeIsZero, Freed, Cleared
      <4> QED BY <4>2, <4>3, <3>1, <3>10, <2>2 DEF Freed
    <3> QED BY <3>5, <3>9, <3>10
  <2> QED BY <2>2, <2>3, <2>4, MemAllocNew
<1> QED BY <1>3, <1>4, <1>5

LEMMA ReadyIsLoaded ==
  ASSUME toLoad = {}, Ready(heap)
  PROVE  Loading
<1>1. ASSUME NEW c \in HeapChunks(heap)
      PROVE  /\ ChunkBytes(c) \subseteq 0 .. StackLow - 1
             /\ \A s \in AllSegments : ChunkBytes(c) \cap ChunkBytes(s) = {}
  <2>1. ChunkBytes(c) \subseteq HeapBytes
    BY DEF Ready
  <2>2. ChunkBytes(NullSegment) = Span(0, NullSize)
    BY NullSegmentAligned DEF ChunkBytes
  <2>3. \A s \in Segments : ChunkBytes(s) \subseteq BytesOf(Segments)
    BY DEF BytesOf
  <2>4. \A s \in AllSegments : ChunkBytes(s) \cap HeapBytes = {}
    BY <2>2, <2>3 DEF AllSegments, HeapBytes
  <2> QED BY <2>1, <2>4 DEF HeapBytes
<1> QED BY <1>1 DEF Loading, Ready

-----------------------------------------------------------------------------
(* Each block keeps a chunk to itself. *)

LEMMA HostBytes ==
  ASSUME NEW h, GoodHeap(h), NEW b \in AnyBlock, NEW c, HostOf(h, b, c)
  PROVE  /\ c \in AllChunks(h) /\ c \in AnyChunk
         /\ b.ptr \in ChunkBytes(c) /\ Span(b.ptr, b.size) \subseteq ChunkBytes(c)
<1>1. c \in AllChunks(h) /\ c \in AnyChunk
  BY DEF HostOf, AllChunks, GoodHeap
<1>2. ASSUME NEW a \in Span(b.ptr, b.size) PROVE a \in ChunkBytes(c)
  BY <1>1, <1>2, InBytes DEF HostOf, Span, AnyBlock, AnyChunk
<1>3. b.ptr \in Span(b.ptr, b.size)
  BY DEF Span, AnyBlock
<1> QED BY <1>1, <1>2, <1>3

LEMMA OneHost ==
  ASSUME NEW h, GoodHeap(h), NEW b \in AnyBlock, NEW c, HostOf(h, b, c), NEW e, HostOf(h, b, e)
  PROVE  c = e
  BY HostBytes, InOneChunk

LEMMA HostedSub ==
  ASSUME NEW h, NEW B, Hosted(h, B), NEW C \in SUBSET B
  PROVE  Hosted(h, C)
  BY DEF Hosted

(* A block in a chunk that hosts no other. *)
LEMMA HostedAdd ==
  ASSUME NEW h, NEW B, Hosted(h, B), NEW g, GoodHeap(g),
         NEW a \in AnyChunk, a \notin h.used, a \notin reserved, g.used = h.used \cup {a},
         NEW b \in AnyBlock, a.base <= b.ptr, b.ptr + b.size <= a.base + a.size
  PROVE  Hosted(g, B \cup {b}) /\ b \notin B
<1>1. \A e, c : c \in h.used => (HostOf(h, e, c) <=> HostOf(g, e, c))
  BY DEF HostOf
<1>2. HostOf(g, b, a)
  BY DEF HostOf
<1>3. ASSUME NEW e \in B PROVE \E c : HostOf(g, e, c) /\ c \in h.used /\ c # a
  <2>1. PICK c : HostOf(h, e, c)
    BY DEF Hosted
  <2>2. c \in h.used
    BY <2>1 DEF HostOf
  <2> QED BY <2>1, <2>2, <1>1
<1>4. ASSUME NEW e \in B PROVE ~HostOf(g, e, a) /\ e # b
  <2>1. PICK c : HostOf(g, e, c) /\ c \in h.used /\ c # a
    BY <1>3
  <2>2. e \in AnyBlock
    BY DEF Hosted
  <2>3. ~HostOf(g, e, a)
    BY <2>1, <2>2, OneHost
  <2> QED BY <2>3, <1>2
<1>5. ASSUME NEW e \in B \cup {b}, NEW f \in B \cup {b}, NEW c \in g.used,
             HostOf(g, e, c), HostOf(g, f, c)
      PROVE  e = f
  <2>1. CASE c = a
    BY <2>1, <1>4, <1>5
  <2>2. CASE c # a
    <3>1. c \in h.used
      BY <2>2
    <3>2. ~HostOf(g, b, c)
      BY <2>2, <1>2, OneHost
    <3>3. e \in B /\ f \in B
      BY <3>2, <1>5
    <3> QED BY <3>1, <3>3, <1>1, <1>5 DEF Hosted
  <2> QED BY <2>1, <2>2
<1>6. B \cup {b} \subseteq AnyBlock
  BY DEF Hosted
<1>7. \A e \in B \cup {b} : \E c : HostOf(g, e, c)
  BY <1>2, <1>3
<1>8. Hosted(g, B \cup {b})
  BY <1>5, <1>6, <1>7 DEF Hosted
<1> QED BY <1>4, <1>8

(* A block that goes with its chunk. *)
LEMMA HostedDrop ==
  ASSUME NEW h, GoodHeap(h), NEW B, Hosted(h, B), NEW b \in B, NEW w, HostOf(h, b, w),
         NEW g, g.used = h.used \ {w}
  PROVE  Hosted(g, B \ {b})
<1>1. \A e, c : HostOf(g, e, c) <=> HostOf(h, e, c) /\ c # w
  BY DEF HostOf
<1>2. ASSUME NEW e \in B \ {b} PROVE \E c : HostOf(g, e, c)
  <2>1. PICK c : HostOf(h, e, c)
    BY DEF Hosted
  <2>2. c # w
    <3> SUFFICES ASSUME c = w PROVE FALSE
      OBVIOUS
    <3>1. w \in h.used
      BY DEF HostOf
    <3> QED BY <2>1, <3>1 DEF Hosted
  <2> QED BY <2>1, <2>2, <1>1
<1>3. \A e, f \in B \ {b}, c \in g.used : HostOf(g, e, c) /\ HostOf(g, f, c) => e = f
  BY <1>1 DEF Hosted
<1> QED BY <1>2, <1>3 DEF Hosted

(* A block that moves to another chunk, or to another size. *)
LEMMA HostedReplace ==
  ASSUME NEW h, GoodHeap(h), reserved \subseteq h.used, NEW B, Hosted(h, B),
         NEW b \in B, NEW w, HostOf(h, b, w), NEW g, GoodHeap(g),
         NEW a, Replaced(h, g, {w}, a),
         NEW e \in AnyBlock, a.base <= e.ptr, e.ptr + e.size <= a.base + a.size
  PROVE  Hosted(g, (B \ {b}) \cup {e}) /\ e \notin B \ {b}
<1> DEFINE k == [used |-> h.used \ {w}]
<1>1. k.used = h.used \ {w}
  OBVIOUS
<1> HIDE DEF k
<1>2. Hosted(k, B \ {b})
  BY <1>1, HostedDrop
<1>3. a \in AnyChunk /\ a \notin k.used /\ g.used = k.used \cup {a} /\ a \notin reserved
  BY <1>1 DEF Replaced, HostOf
<1> DEFINE C == B \ {b}
<1>4. Hosted(k, C)
  BY <1>2
<1> HIDE DEF C
<1>5. Hosted(g, C \cup {e}) /\ e \notin C
  BY <1>3, <1>4, HostedAdd
<1> QED BY <1>5 DEF C

(* So the blocks lie in the heap and apart. *)
LEMMA HostedApart ==
  ASSUME NEW h, Ready(h), NEW B, Hosted(h, B), NEW b \in B
  PROVE  /\ b.size > 0 /\ Span(b.ptr, b.size) \subseteq HeapBytes
         /\ \A e \in B : e # b => Span(b.ptr, b.size) \cap Span(e.ptr, e.size) = {}
<1>0. GoodHeap(h) /\ b \in AnyBlock /\ b.size > 0
  BY DEF Ready, Hosted, AnyBlock
<1>1. PICK c : HostOf(h, b, c)
  BY DEF Hosted
<1>2. c \in AllChunks(h) /\ c \in AnyChunk /\ Span(b.ptr, b.size) \subseteq ChunkBytes(c)
  BY <1>0, <1>1, HostBytes
<1>3. c \in HeapChunks(h) /\ c \in h.used
  BY <1>1 DEF HostOf, HeapChunks
<1>4. Span(b.ptr, b.size) \subseteq HeapBytes
  BY <1>2, <1>3 DEF Ready
<1>5. ASSUME NEW e \in B, e # b PROVE Span(b.ptr, b.size) \cap Span(e.ptr, e.size) = {}
  <2>1. PICK f : HostOf(h, e, f)
    BY DEF Hosted
  <2>2. e \in AnyBlock
    BY DEF Hosted
  <2>3. f \in AllChunks(h) /\ f \in AnyChunk /\ Span(e.ptr, e.size) \subseteq ChunkBytes(f)
    BY <1>0, <2>1, <2>2, HostBytes
  <2>4. f # c
    BY <1>1, <1>3, <1>5, <2>1 DEF Hosted
  <2>5. Apart(c, f)
    BY <1>0, <1>2, <2>3, <2>4 DEF GoodHeap
  <2>6. ChunkBytes(c) \cap ChunkBytes(f) = {}
    BY <2>5, <1>2, <2>3, ApartBytes
  <2> QED BY <2>6, <2>3, <1>2
<1> QED BY <1>0, <1>4, <1>5

-----------------------------------------------------------------------------
(* The steps of the guest. *)

(* No byte is lost, and at most one block is given, taken or exchanged. *)
GuestStep ==
  /\ toLoad = {} /\ UNCHANGED <<reserved, toLoad, zero_memory_on_free>>
  /\ Ready(heap') /\ Hosted(heap', blocks')
  /\ BytesOf(AllChunks(heap')) = BytesOf(AllChunks(heap))
  /\ \/ blocks' = blocks
     \/ \E b : b \notin blocks /\ blocks' = blocks \cup {b}
     \/ \E b \in blocks : blocks' = blocks \ {b}
     \/ \E b \in blocks : \E e : e \notin blocks \ {b} /\ blocks' = (blocks \ {b}) \cup {e}

(* Free memory stays zero, and a block that is given is zero. *)
ZeroStep ==
  FreeIsZero(heap, dirty) =>
    /\ FreeIsZero(heap', dirty')
    /\ blocks \subseteq blocks' =>
         \A b \in blocks' \ blocks : Span(b.ptr, b.size) \cap dirty' = {}

LEMMA GiveStep ==
  ASSUME toLoad = {}, Ready(heap), Hosted(heap, blocks),
         UNCHANGED <<reserved, toLoad, zero_memory_on_free>>,
         Ready(heap'), BytesOf(AllChunks(heap')) = BytesOf(AllChunks(heap)),
         NEW a \in AnyChunk, a \notin heap.used, heap'.used = heap.used \cup {a},
         NEW b \in AnyBlock, a.base <= b.ptr, b.ptr + b.size <= a.base + a.size,
         blocks' = blocks \cup {b}
  PROVE  GuestStep
<1>1. a \notin reserved /\ GoodHeap(heap')
  BY DEF Ready
<1>2. Hosted(heap', blocks \cup {b}) /\ b \notin blocks
  BY <1>1, HostedAdd
<1> QED BY <1>2 DEF GuestStep

LEMMA KeepStep ==
  ASSUME toLoad = {}, Hosted(heap, blocks),
         UNCHANGED <<reserved, toLoad, zero_memory_on_free, blocks>>,
         Ready(heap'), BytesOf(AllChunks(heap')) = BytesOf(AllChunks(heap)),
         heap'.used = heap.used
  PROVE  GuestStep
<1>1. \A b, c : HostOf(heap', b, c) <=> HostOf(heap, b, c)
  BY DEF HostOf
<1>2. Hosted(heap', blocks')
  BY <1>1 DEF Hosted
<1> QED BY <1>2 DEF GuestStep

(* Writing to a new chunk leaves free memory zero. *)
LEMMA NewChunkZero ==
  ASSUME NEW h, NEW g, NEW a, NewChunk(h, g, a), NEW d, FreeIsZero(h, d),
         NEW e, e \subseteq d \cup ChunkBytes(a)
  PROVE  FreeIsZero(g, e)
<1>1. ASSUME NEW x \in g.unused PROVE ChunkBytes(x) \cap ChunkBytes(a) = {}
  <2>1. x \in AnyChunk /\ x # a /\ Apart(x, a)
    BY DEF NewChunk, Ready, GoodHeap, AllChunks
  <2> QED BY <2>1, ApartBytes DEF NewChunk
<1>2. BytesOf(g.unused) \cap ChunkBytes(a) = {}
  BY <1>1 DEF BytesOf
<1> QED BY <1>2 DEF FreeIsZero, NewChunk

(* malloc, calloc and NSZoneMalloc. *)
LEMMA AllocStep ==
  ASSUME toLoad = {}, Ready(heap), Hosted(heap, blocks),
         UNCHANGED <<reserved, toLoad, zero_memory_on_free>>,
         NEW n \in Nat \ {0}, NEW o \in MemAlloc(heap, dirty, n),
         heap' = o.heap, dirty' \subseteq o.dirty,
         blocks' = IF o.ptr = NULL THEN blocks ELSE blocks \cup {HeapBlock(o.ptr, n)}
  PROVE  GuestStep /\ ZeroStep
<1>1. CASE o.ptr = NULL /\ o.heap = heap /\ o.dirty = dirty
  <2>1. blocks' = blocks /\ heap' = heap /\ dirty' \subseteq dirty
    BY <1>1
  <2>2. GuestStep
    BY <2>1, KeepStep
  <2> QED BY <2>1, <2>2 DEF ZeroStep, FreeIsZero
<1>2. ASSUME NEW a, NewChunk(heap, o.heap, a), a.base = o.ptr, a.size >= n,
             o.dirty = IF zero_memory_on_free THEN dirty ELSE dirty \ Span(o.ptr, n)
      PROVE  GuestStep /\ ZeroStep
  <2> DEFINE b == HeapBlock(o.ptr, n)
  <2>1. /\ a \in AnyChunk /\ a \notin heap.used /\ a.base # NULL
        /\ heap'.used = heap.used \cup {a} /\ Ready(heap')
        /\ BytesOf(AllChunks(heap')) = BytesOf(AllChunks(heap))
        /\ ChunkBytes(a) \subseteq BytesOf(heap.unused)
    BY <1>2 DEF NewChunk
  <2>2. b \in AnyBlock /\ b.ptr = a.base /\ b.size = n /\ b.ptr = o.ptr
    BY <2>1, <1>2 DEF HeapBlock, AnyBlock, AnyChunk
  <2>3. blocks' = blocks \cup {b}
    BY <2>1, <1>2
  <2> HIDE DEF b
  <2>4. a.base <= b.ptr /\ b.ptr + b.size <= a.base + a.size
    BY <2>1, <2>2, <1>2 DEF AnyChunk
  <2>5. GuestStep
    BY <2>1, <2>2, <2>3, <2>4, GiveStep
  <2>6. FreeIsZero(heap, dirty) => FreeIsZero(heap', dirty')
    <3>1. dirty' \subseteq dirty \cup ChunkBytes(a)
      BY <1>2
    <3> QED BY <3>1, <1>2, NewChunkZero
  <2>7. FreeIsZero(heap, dirty) => Span(b.ptr, b.size) \cap dirty' = {}
    <3>1. Span(b.ptr, b.size) \subseteq ChunkBytes(a)
      <4>1. ASSUME NEW x \in Span(b.ptr, b.size) PROVE x \in ChunkBytes(a)
        <5>1. a.base \in Nat /\ a.size \in Nat /\ a \in AnyChunk
          BY <2>1 DEF AnyChunk
        <5>2. x \in Int /\ a.base <= x /\ x < a.base + a.size
          BY <4>1, <5>1, <2>2, <2>4 DEF Span
        <5> QED BY <5>1, <5>2, InBytes
      <4> QED BY <4>1
    <3>2. CASE zero_memory_on_free
      BY <3>1, <3>2, <2>1, <1>2 DEF FreeIsZero
    <3>3. CASE ~zero_memory_on_free
      BY <3>3, <2>2, <1>2
    <3> QED BY <3>2, <3>3
  <2> QED BY <2>3, <2>5, <2>6, <2>7 DEF ZeroStep
<1>3. \/ o.ptr = NULL /\ o.heap = heap /\ o.dirty = dirty
      \/ /\ o.dirty = IF zero_memory_on_free THEN dirty ELSE dirty \ Span(o.ptr, n)
         /\ \E a : NewChunk(heap, o.heap, a) /\ a.base = o.ptr /\ a.size >= n
  BY MemAllocNew
<1> QED BY <1>1, <1>2, <1>3

(* The outcomes of posix_memalign: the block is inside a new chunk. *)
AlignedIn(h, d, size, o, a) ==
  /\ NewChunk(h, o.heap, a)
  /\ o.ptr \in Nat \ {0} /\ a.base <= o.ptr /\ o.ptr + size <= a.base + a.size
  /\ o.dirty \subseteq d \cup ChunkBytes(a)
  /\ FreeIsZero(h, d) => Span(o.ptr, size) \cap o.dirty = {}

LEMMA MemalignNew ==
  ASSUME NEW h, Ready(h), NEW d, NEW alignment \in Nat \ {0}, NEW size \in Nat \ {0},
         NEW o \in MemalignOutcomes(h, d, alignment, size)
  PROVE  \/ o.ptr = NULL /\ o.heap = h /\ o.dirty = d
         \/ \E a : AlignedIn(h, d, size, o, a)
<1> DEFINE total == MemalignTotal(alignment, size)
<1>1. PICK p \in MemAlloc(h, d, total) :
        o = [p EXCEPT !.ptr = IF p.ptr = NULL THEN NULL ELSE AlignUp(p.ptr + Header, alignment),
                      !.dirty = IF p.ptr = NULL THEN @
                                ELSE @ \cup Span(AlignUp(p.ptr + Header, alignment) - Header, Header)]
  BY DEF MemalignOutcomes
<1> DEFINE up == AlignUp(p.ptr + Header, alignment)
<1>2. p = [heap |-> p.heap, ptr |-> p.ptr, dirty |-> p.dirty]
  BY <1>1 DEF MemAlloc
<1>3. /\ o.heap = p.heap
      /\ p.ptr = NULL => o.ptr = NULL /\ o.dirty = p.dirty
      /\ p.ptr # NULL => o.ptr = up /\ o.dirty = p.dirty \cup Span(up - Header, Header)
  <2> HIDE DEF up, total
  <2>1. o = [p EXCEPT !.ptr = IF p.ptr = NULL THEN NULL ELSE up,
                      !.dirty = IF p.ptr = NULL THEN @ ELSE @ \cup Span(up - Header, Header)]
    BY <1>1 DEF up
  <2> QED BY <2>1, <1>2
<1>4. total \in Nat /\ total = size + alignment + Header
  BY HeapConstants DEF MemalignTotal
<1>5. \/ p.ptr = NULL /\ p.heap = h /\ p.dirty = d
      \/ /\ p.dirty = IF zero_memory_on_free THEN d ELSE d \ Span(p.ptr, total)
         /\ \E a : NewChunk(h, p.heap, a) /\ a.base = p.ptr /\ a.size >= total
  <2> HIDE DEF total
  <2> QED BY <1>4, MemAllocNew
<1>6. CASE p.ptr = NULL /\ p.heap = h /\ p.dirty = d
  BY <1>3, <1>6
<1>7. ASSUME p.dirty = IF zero_memory_on_free THEN d ELSE d \ Span(p.ptr, total),
             NEW a, NewChunk(h, p.heap, a), a.base = p.ptr, a.size >= total
      PROVE  AlignedIn(h, d, size, o, a)
  <2>1. /\ a \in AnyChunk /\ a.base # NULL /\ a.base \in Nat /\ a.size \in Nat
        /\ ChunkBytes(a) \subseteq BytesOf(h.unused)
    BY <1>7 DEF NewChunk, AnyChunk
  <2>2. up \in Nat /\ up >= p.ptr + Header /\ up < p.ptr + Header + alignment
    <3>1. p.ptr + Header \in Nat
      BY <2>1, <1>7, HeapConstants
    <3> QED BY <3>1, RoundUp DEF AlignUp
  <2>3. o.ptr = up /\ o.dirty = p.dirty \cup Span(up - Header, Header)
    BY <1>3, <1>7, <2>1
  <2> HIDE DEF up, total
  <2>4. Header \in Nat \ {0} /\ p.ptr \in Nat
    BY HeapConstants, <2>1, <1>7
  <2>5. up \in Nat \ {0} /\ a.base <= up /\ up + size <= a.base + a.size /\ up + size <= p.ptr + total
    BY <1>4, <1>7, <2>1, <2>2, <2>4
  <2>6. Span(up - Header, Header) \subseteq ChunkBytes(a)
    <3>1. ASSUME NEW x \in Span(up - Header, Header) PROVE x \in ChunkBytes(a)
      <4>1. x \in Int /\ a.base <= x /\ x < a.base + a.size
        BY <3>1, <1>7, <2>1, <2>2, <2>4, <2>5 DEF Span
      <4> QED BY <4>1, <2>1, InBytes
    <3> QED BY <3>1
  <2>7. Span(up, size) \subseteq ChunkBytes(a) /\ Span(up, size) \subseteq Span(p.ptr, total)
    <3>1. ASSUME NEW x \in Span(up, size) PROVE x \in ChunkBytes(a) /\ x \in Span(p.ptr, total)
      <4>1. /\ x \in Int /\ a.base <= x /\ x < a.base + a.size
            /\ p.ptr <= x /\ x < p.ptr + total
        BY <3>1, <1>4, <1>7, <2>1, <2>5 DEF Span
      <4>2. x \in ChunkBytes(a)
        BY <4>1, <2>1, InBytes
      <4> QED BY <4>1, <4>2, <1>4, <2>4 DEF Span
    <3> QED BY <3>1
  <2>8. Span(up, size) \cap Span(up - Header, Header) = {}
    BY <2>2, <2>4 DEF Span
  <2>9. o.dirty \subseteq d \cup ChunkBytes(a)
    BY <1>7, <2>3, <2>6
  <2>10. FreeIsZero(h, d) => Span(up, size) \cap p.dirty = {}
    <3>1. CASE zero_memory_on_free
      BY <3>1, <1>7, <2>1, <2>7 DEF FreeIsZero
    <3>2. CASE ~zero_memory_on_free
      BY <3>2, <1>7, <2>7
    <3> QED BY <3>1, <3>2
  <2>11. FreeIsZero(h, d) => Span(o.ptr, size) \cap o.dirty = {}
    BY <2>3, <2>8, <2>10
  <2> QED BY <1>3, <1>7, <2>3, <2>5, <2>9, <2>11 DEF AlignedIn
<1> HIDE DEF total
<1> QED BY <1>5, <1>6, <1>7

(* posix_memalign. *)
LEMMA MemalignStep ==
  ASSUME toLoad = {}, Ready(heap), Hosted(heap, blocks),
         NEW alignment \in Nat \ {0}, NEW size \in Nat \ {0},
         NEW o \in MemalignOutcomes(heap, dirty, alignment, size), Receive(o, size)
  PROVE  GuestStep /\ ZeroStep
<1>0. /\ UNCHANGED <<reserved, toLoad, zero_memory_on_free>> /\ heap' = o.heap /\ dirty' = o.dirty
      /\ blocks' = IF o.ptr = NULL THEN blocks ELSE blocks \cup {HeapBlock(o.ptr, size)}
  BY DEF Receive, UseOutcome
<1>1. CASE o.ptr = NULL /\ o.heap = heap /\ o.dirty = dirty
  <2>1. blocks' = blocks /\ heap' = heap /\ dirty' = dirty
    BY <1>0, <1>1
  <2>2. GuestStep
    BY <1>0, <2>1, KeepStep
  <2> QED BY <2>1, <2>2 DEF ZeroStep, FreeIsZero
<1>2. ASSUME NEW a, AlignedIn(heap, dirty, size, o, a) PROVE GuestStep /\ ZeroStep
  <2> DEFINE b == HeapBlock(o.ptr, size)
  <2>1. /\ NewChunk(heap, heap', a)
        /\ o.ptr \in Nat \ {0} /\ a.base <= o.ptr /\ o.ptr + size <= a.base + a.size
        /\ dirty' \subseteq dirty \cup ChunkBytes(a)
        /\ FreeIsZero(heap, dirty) => Span(o.ptr, size) \cap dirty' = {}
    BY <1>0, <1>2 DEF AlignedIn
  <2>2. b \in AnyBlock /\ b.ptr = o.ptr /\ b.size = size
    BY <2>1 DEF HeapBlock, AnyBlock
  <2>3. blocks' = blocks \cup {b}
    BY <2>1, <1>0 DEF NULL
  <2> HIDE DEF b
  <2>4. GuestStep
    <3>1. /\ a \in AnyChunk /\ a \notin heap.used
          /\ heap'.used = heap.used \cup {a} /\ Ready(heap')
          /\ BytesOf(AllChunks(heap')) = BytesOf(AllChunks(heap))
      BY <2>1 DEF NewChunk
    <3> QED BY <1>0, <2>1, <2>2, <2>3, <3>1, GiveStep
  <2>5. FreeIsZero(heap, dirty) => FreeIsZero(heap', dirty')
    BY <2>1, NewChunkZero
  <2> QED BY <2>1, <2>2, <2>3, <2>4, <2>5 DEF ZeroStep
<1> QED BY <1>1, <1>2, MemalignNew

LEMMA MemFreeDirty ==
  ASSUME NEW h, NEW d, NEW ptr
  PROVE  MemFree(h, d, ptr).dirty \subseteq d
  BY DEF MemFree

(* The temporary word of valloc: its chunk c is freed again. *)
LEMMA TemporaryFreed ==
  ASSUME NEW h, Ready(h), NEW d, NEW c \in h.used \ reserved
  PROVE  /\ Freed(h, MemFree(h, d, c.base).heap, c)
         /\ Cleared(d, MemFree(h, d, c.base).dirty, c)
<1>1. c \in AnyChunk
  BY DEF Ready, GoodHeap
<1>2. c.base \in ChunkBytes(c)
  BY <1>1, NotApartFromItself
<1>3. IsKnown(h, c.base)
  BY DEF IsKnown
<1> QED BY <1>2, <1>3, MemFreeIn

LEMMA VallocStep ==
  ASSUME toLoad = {}, Ready(heap), Hosted(heap, blocks), NEW size \in Nat \ {0}, valloc(size)
  PROVE  GuestStep /\ ZeroStep
<1>1. PICK t \in MemAlloc(heap, dirty, Header) :
        /\ t.ptr # NULL
        /\ \E o \in MemalignOutcomes(t.heap, t.dirty, PAGE_SIZE, size) :
             LET d == IF o.ptr = NULL THEN o.dirty ELSE o.dirty \cup Span(t.ptr, Header)
                 f == MemFree(o.heap, d, t.ptr)
             IN Receive([heap |-> f.heap, dirty |-> f.dirty, ptr |-> o.ptr], size)
  BY DEF valloc
<1>2. PICK o \in MemalignOutcomes(t.heap, t.dirty, PAGE_SIZE, size) :
        LET d == IF o.ptr = NULL THEN o.dirty ELSE o.dirty \cup Span(t.ptr, Header)
            f == MemFree(o.heap, d, t.ptr)
        IN Receive([heap |-> f.heap, dirty |-> f.dirty, ptr |-> o.ptr], size)
  BY <1>1
<1> DEFINE d == IF o.ptr = NULL THEN o.dirty ELSE o.dirty \cup Span(t.ptr, Header)
           f == MemFree(o.heap, d, t.ptr)
<1>3. /\ UNCHANGED <<reserved, toLoad, zero_memory_on_free>> /\ heap' = f.heap /\ dirty' = f.dirty
      /\ blocks' = IF o.ptr = NULL THEN blocks ELSE blocks \cup {HeapBlock(o.ptr, size)}
  <2>1. Receive([heap |-> f.heap, dirty |-> f.dirty, ptr |-> o.ptr], size)
    BY <1>2
  <2> HIDE DEF f
  <2> QED BY <2>1 DEF Receive, UseOutcome
<1>4. PICK c : /\ NewChunk(heap, t.heap, c) /\ c.base = t.ptr /\ c.size >= Header
               /\ t.dirty = IF zero_memory_on_free THEN dirty ELSE dirty \ Span(t.ptr, Header)
  BY <1>1, HeapConstants, MemAllocNew
<1>5. /\ c \in AnyChunk /\ c \notin heap.used /\ t.heap.used = heap.used \cup {c} /\ Ready(t.heap)
      /\ BytesOf(AllChunks(t.heap)) = BytesOf(AllChunks(heap)) /\ t.dirty \subseteq dirty
      /\ ChunkBytes(c) \subseteq BytesOf(heap.unused)
      /\ BytesOf(t.heap.unused) \subseteq BytesOf(heap.unused)
  BY <1>4 DEF NewChunk
<1>6. c \in t.heap.used \ reserved
  BY <1>5 DEF Ready
<1>7. Span(t.ptr, Header) \subseteq ChunkBytes(c)
  <2>1. ASSUME NEW x \in Span(t.ptr, Header) PROVE x \in ChunkBytes(c)
    <3>1. c.base \in Nat /\ c.size \in Nat /\ Header \in Nat
      BY <1>5, HeapConstants DEF AnyChunk
    <3>2. x \in Int /\ c.base <= x /\ x < c.base + c.size
      BY <2>1, <3>1, <1>4 DEF Span
    <3> QED BY <3>1, <3>2, <1>5, InBytes
  <2> QED BY <2>1
<1>8. f.dirty \subseteq d
  <2> HIDE DEF d
  <2> QED BY MemFreeDirty
<1>9. PAGE_SIZE \in Nat \ {0}
  BY HeapConstants
<1>10. \/ o.ptr = NULL /\ o.heap = t.heap /\ o.dirty = t.dirty
       \/ \E a : AlignedIn(t.heap, t.dirty, size, o, a)
  BY <1>5, <1>9, MemalignNew
<1>11. CASE o.ptr = NULL /\ o.heap = t.heap /\ o.dirty = t.dirty
  <2>1. d = t.dirty /\ blocks' = blocks
    BY <1>3, <1>11
  <2>2. /\ Freed(t.heap, f.heap, c)
        /\ Cleared(d, f.dirty, c)
    <3>1. f = MemFree(t.heap, d, c.base)
      BY <1>4, <1>11
    <3> HIDE DEF d, f
    <3> QED BY <3>1, <1>5, <1>6, TemporaryFreed
  <2> HIDE DEF d, f
  <2>3. /\ heap'.used = heap.used /\ Ready(heap')
        /\ BytesOf(AllChunks(heap')) = BytesOf(AllChunks(heap))
        /\ BytesOf(heap'.unused) \subseteq BytesOf(heap.unused)
    BY <1>3, <1>5, <2>2 DEF Freed
  <2>4. GuestStep
    BY <1>3, <2>1, <2>3, KeepStep
  <2>5. dirty' \subseteq dirty
    BY <1>3, <1>5, <1>8, <2>1
  <2> QED BY <2>1, <2>3, <2>4, <2>5 DEF ZeroStep, FreeIsZero
<1>12. ASSUME NEW a, AlignedIn(t.heap, t.dirty, size, o, a) PROVE GuestStep /\ ZeroStep
  <2> DEFINE b == HeapBlock(o.ptr, size)
  <2>1. /\ NewChunk(t.heap, o.heap, a)
        /\ o.ptr \in Nat \ {0} /\ a.base <= o.ptr /\ o.ptr + size <= a.base + a.size
        /\ o.dirty \subseteq t.dirty \cup ChunkBytes(a)
        /\ FreeIsZero(t.heap, t.dirty) => Span(o.ptr, size) \cap o.dirty = {}
    BY <1>12 DEF AlignedIn
  <2>2. b \in AnyBlock /\ b.ptr = o.ptr /\ b.size = size
    BY <2>1 DEF HeapBlock, AnyBlock
  <2>3. blocks' = blocks \cup {b} /\ d = o.dirty \cup Span(t.ptr, Header)
    BY <2>1, <1>3 DEF NULL
  <2> HIDE DEF b
  <2>4. /\ a \in AnyChunk /\ a \notin t.heap.used
        /\ o.heap.used = t.heap.used \cup {a} /\ Ready(o.heap)
        /\ BytesOf(AllChunks(o.heap)) = BytesOf(AllChunks(t.heap))
    BY <2>1 DEF NewChunk
  <2>5. c \in o.heap.used \ reserved
    BY <1>6, <2>4
  <2>6. /\ Freed(o.heap, f.heap, c)
        /\ Cleared(d, f.dirty, c)
    <3>1. f = MemFree(o.heap, d, c.base)
      BY <1>4
    <3> HIDE DEF d, f
    <3> QED BY <3>1, <2>4, <2>5, TemporaryFreed
  <2> HIDE DEF d, f
  <2>7. /\ heap'.used = heap.used \cup {a} /\ Ready(heap') /\ a \notin heap.used
        /\ BytesOf(AllChunks(heap')) = BytesOf(AllChunks(heap))
        /\ BytesOf(heap'.unused) \subseteq BytesOf(o.heap.unused) \cup ChunkBytes(c)
    BY <1>3, <1>5, <2>4, <2>6 DEF Freed
  <2>8. GuestStep
    BY <1>3, <2>1, <2>2, <2>3, <2>4, <2>7, GiveStep
  <2>9. ASSUME FreeIsZero(heap, dirty) PROVE FreeIsZero(t.heap, t.dirty)
    <3>1. t.dirty \subseteq dirty \cup ChunkBytes(c)
      BY <1>5
    <3> QED BY <3>1, <2>9, <1>4, NewChunkZero
  <2>10. ASSUME FreeIsZero(heap, dirty) PROVE FreeIsZero(heap', dirty')
    <3>1. FreeIsZero(o.heap, o.dirty)
      BY <2>1, <2>9, <2>10, NewChunkZero
    <3> QED BY <3>1, <1>3, <1>7, <2>3, <2>6, <2>7 DEF FreeIsZero, Cleared
  <2>11. ASSUME FreeIsZero(heap, dirty) PROVE Span(b.ptr, b.size) \cap dirty' = {}
    <3>1. Span(b.ptr, b.size) \cap o.dirty = {}
      BY <2>1, <2>2, <2>9, <2>11
    <3>2. Span(b.ptr, b.size) \subseteq ChunkBytes(a)
      <4>1. ASSUME NEW x \in Span(b.ptr, b.size) PROVE x \in ChunkBytes(a)
        <5>1. a.base \in Nat /\ a.size \in Nat
          BY <2>4 DEF AnyChunk
        <5>2. x \in Int /\ a.base <= x /\ x < a.base + a.size
          BY <4>1, <5>1, <2>1, <2>2 DEF Span
        <5> QED BY <5>1, <5>2, <2>4, InBytes
      <4> QED BY <4>1
    <3>3. ChunkBytes(a) \cap ChunkBytes(c) = {}
      <4>1. a \in AllChunks(o.heap) /\ c \in AllChunks(o.heap) /\ a # c
        BY <2>4, <2>5, <1>5 DEF AllChunks
      <4>2. Apart(a, c)
        BY <4>1, <2>4 DEF Ready, GoodHeap
      <4> QED BY <4>2, <2>4, <1>5, ApartBytes
    <3>4. dirty' \subseteq o.dirty \cup ChunkBytes(c)
      BY <1>3, <1>7, <1>8, <2>3
    <3> QED BY <3>1, <3>2, <3>3, <3>4
  <2> QED BY <2>3, <2>8, <2>10, <2>11 DEF ZeroStep
<1> QED BY <1>10, <1>11, <1>12

(* free. *)
LEMMA FreeStep ==
  ASSUME toLoad = {}, Ready(heap), Hosted(heap, blocks), NEW b \in blocks, free(b)
  PROVE  GuestStep /\ ZeroStep
<1> DEFINE f == MemFree(heap, dirty, b.ptr)
<1>1. /\ UNCHANGED <<reserved, toLoad, zero_memory_on_free>> /\ heap' = f.heap /\ dirty' = f.dirty
      /\ blocks' = blocks \ {b}
  BY DEF free, UseOutcome
<1>2. b \in AnyBlock /\ GoodHeap(heap)
  BY DEF Hosted, Ready
<1>3. PICK w : HostOf(heap, b, w)
  BY DEF Hosted
<1>4. w \in heap.used \ reserved /\ b.ptr \in ChunkBytes(w)
  BY <1>2, <1>3, HostBytes DEF HostOf
<1>5. CASE ~IsKnown(heap, b.ptr)
  <2>1. f.heap = heap /\ f.dirty = dirty
    BY <1>5 DEF MemFree
  <2>2. heap' = heap /\ dirty' = dirty
    BY <1>1, <2>1
  <2>3. Hosted(heap', blocks')
    BY <1>1, <2>2, HostedSub
  <2> QED BY <1>1, <2>2, <2>3 DEF GuestStep, ZeroStep, FreeIsZero
<1>6. CASE IsKnown(heap, b.ptr)
  <2>1. b.ptr = w.base
    BY <1>4, <1>6, MemFreeIn
  <2>2. /\ Freed(heap, f.heap, w)
        /\ Cleared(dirty, f.dirty, w)
    BY <1>4, <2>1, TemporaryFreed
  <2> HIDE DEF f
  <2>3. /\ heap'.used = heap.used \ {w} /\ Ready(heap')
        /\ BytesOf(AllChunks(heap')) = BytesOf(AllChunks(heap))
        /\ BytesOf(heap'.unused) \subseteq BytesOf(heap.unused) \cup ChunkBytes(w)
    BY <1>1, <2>2 DEF Freed
  <2>4. Hosted(heap', blocks')
    BY <1>1, <1>2, <1>3, <2>3, HostedDrop
  <2>5. GuestStep
    BY <1>1, <2>3, <2>4 DEF GuestStep
  <2> QED BY <1>1, <2>2, <2>3, <2>5 DEF ZeroStep, FreeIsZero, Cleared
<1> QED BY <1>5, <1>6

(* The guest writes inside a block. *)
LEMMA WriteStep ==
  ASSUME toLoad = {}, Ready(heap), Hosted(heap, blocks), NEW b \in blocks, WriteBlock(b)
  PROVE  GuestStep /\ ZeroStep
<1>1. /\ UNCHANGED <<reserved, toLoad, zero_memory_on_free, heap, blocks>>
      /\ dirty' = dirty \cup Span(b.ptr, b.size)
  BY DEF WriteBlock
<1>2. GuestStep
  BY <1>1, KeepStep
<1>3. b \in AnyBlock /\ GoodHeap(heap)
  BY DEF Hosted, Ready
<1>4. PICK w : HostOf(heap, b, w)
  BY DEF Hosted
<1>5. w \in heap.used /\ w \in AnyChunk /\ Span(b.ptr, b.size) \subseteq ChunkBytes(w)
  BY <1>3, <1>4, HostBytes DEF HostOf
<1>6. ASSUME NEW x \in heap.unused PROVE ChunkBytes(x) \cap ChunkBytes(w) = {}
  <2>1. x \in AnyChunk /\ x # w /\ Apart(x, w)
    BY <1>3, <1>5 DEF GoodHeap, AllChunks
  <2> QED BY <2>1, <1>5, ApartBytes
<1>7. Span(b.ptr, b.size) \cap BytesOf(heap.unused) = {}
  BY <1>5, <1>6 DEF BytesOf
<1>8. FreeIsZero(heap, dirty) => FreeIsZero(heap, dirty \cup Span(b.ptr, b.size))
  BY <1>7 DEF FreeIsZero
<1> QED BY <1>1, <1>2, <1>8 DEF ZeroStep

(* realloc. *)
LEMMA ReallocStep ==
  ASSUME toLoad = {}, Ready(heap), Hosted(heap, blocks), NEW b \in blocks,
         NEW size \in Sizes, realloc(b, size)
  PROVE  GuestStep /\ (~CopyPastNull => ZeroStep)
<1> DEFINE n == IF size = 0 THEN 1 ELSE size
<1>1. PICK o \in MemRealloc(heap, dirty, b.ptr, n) :
        /\ UseOutcome(o)
        /\ blocks' = IF o.ptr # NULL THEN (blocks \ {b}) \cup {HeapBlock(o.ptr, n)}
                     ELSE IF IsKnown(heap, b.ptr) THEN blocks \ {b} ELSE blocks
  BY DEF realloc
<1>2. /\ UNCHANGED <<reserved, toLoad, zero_memory_on_free>> /\ heap' = o.heap /\ dirty' = o.dirty
  BY <1>1 DEF UseOutcome
<1>3. b \in AnyBlock /\ GoodHeap(heap) /\ reserved \subseteq heap.used /\ n \in Nat \ {0}
  BY RequestSizes DEF Hosted, Ready
<1>4. PICK w : HostOf(heap, b, w)
  BY DEF Hosted
<1>5. w \in heap.used \ reserved /\ b.ptr \in ChunkBytes(w)
  BY <1>3, <1>4, HostBytes DEF HostOf
<1> HIDE DEF n
<1>6. /\ Ready(heap') /\ BytesOf(AllChunks(heap')) = BytesOf(AllChunks(heap))
      /\ Realloced(heap, b.ptr, n, o, w)
      /\ FreeIsZero(heap, dirty) /\ (o.ptr # NULL \/ find_allocated_size(heap, b.ptr) <= NullSize)
           => FreeIsZero(heap', dirty')
  BY <1>2, <1>3, <1>5, MemReallocIn
<1>7. GoodHeap(heap')
  BY <1>6 DEF Ready
<1>8. w.base # NULL
  <2>1. w \in HeapChunks(heap)
    BY <1>5 DEF HeapChunks
  <2> QED BY <2>1, HeapChunkNotNull
<1> DEFINE e == HeapBlock(o.ptr, n)
           C == blocks \ {b}
<1>9. ASSUME o.ptr # NULL, Hosted(heap', C \cup {e}), e \notin C
      PROVE  GuestStep /\ (~CopyPastNull => ZeroStep)
  <2>1. blocks' = C \cup {e}
    BY <1>1, <1>9
  <2> HIDE DEF e
  <2>2. GuestStep
    BY <1>2, <1>6, <1>9, <2>1 DEF GuestStep
  <2>3. blocks \subseteq blocks' => blocks' \ blocks = {}
    BY <2>1
  <2> QED BY <1>6, <1>9, <2>2, <2>3 DEF ZeroStep
<1>10. ASSUME NEW a \in AnyChunk, a.base = o.ptr, a.size >= n, o.ptr # NULL
       PROVE  e \in AnyBlock /\ a.base <= e.ptr /\ e.ptr + e.size <= a.base + a.size
  BY <1>10, <1>3 DEF HeapBlock, AnyBlock, AnyChunk, NULL
<1>11. ASSUME o.ptr # NULL,
              NEW a, Replaced(heap, o.heap, {w}, a), a.base = o.ptr, a.size >= n
       PROVE  GuestStep /\ (~CopyPastNull => ZeroStep)
  <2>1. a \in AnyChunk /\ Replaced(heap, heap', {w}, a)
    BY <1>2, <1>11 DEF Replaced
  <2>2. e \in AnyBlock /\ a.base <= e.ptr /\ e.ptr + e.size <= a.base + a.size
    BY <2>1, <1>10, <1>11
  <2>3. Hosted(heap', C \cup {e}) /\ e \notin C
    <3> HIDE DEF e
    <3> QED BY <2>1, <2>2, <1>3, <1>4, <1>7, HostedReplace
  <2> QED BY <2>3, <1>9, <1>11
<1>12. ASSUME o.ptr # NULL, 
              NEW a, Replaced(heap, o.heap, {}, a), a.base = o.ptr, a.size >= n
       PROVE  GuestStep /\ (~CopyPastNull => ZeroStep)
  <2>1. a \in AnyChunk /\ a \notin heap.used /\ heap'.used = heap.used \cup {a} /\ a \notin reserved
    BY <1>2, <1>3, <1>12 DEF Replaced
  <2>2. e \in AnyBlock /\ a.base <= e.ptr /\ e.ptr + e.size <= a.base + a.size
    BY <2>1, <1>10, <1>12
  <2>3. Hosted(heap, C)
    BY HostedSub
  <2>4. Hosted(heap', C \cup {e}) /\ e \notin C
    <3> HIDE DEF e, C
    <3> QED BY <2>1, <2>2, <2>3, <1>7, HostedAdd
  <2> QED BY <2>4, <1>9, <1>12
<1> HIDE DEF e, C
<1>13. CASE o.ptr = NULL /\ ~IsKnown(heap, b.ptr) /\ o.heap = heap
  <2>1. blocks' = blocks /\ heap' = heap
    BY <1>1, <1>2, <1>13
  <2>2. GuestStep
    BY <2>1, <1>2, <1>6, KeepStep
  <2>3. find_allocated_size(heap, b.ptr) <= NullSize
    BY <1>13, HeapConstants DEF find_allocated_size
  <2> QED BY <1>6, <2>1, <2>2, <2>3 DEF ZeroStep
<1>14. CASE o.ptr = NULL /\ IsKnown(heap, b.ptr) /\ o.heap.used = heap.used \ {w}
  <2>1. blocks' = blocks \ {b} /\ heap'.used = heap.used \ {w}
    BY <1>1, <1>2, <1>14
  <2>2. Hosted(heap', blocks')
    BY <2>1, <1>3, <1>4, HostedDrop
  <2>3. GuestStep
    BY <2>1, <2>2, <1>2, <1>6 DEF GuestStep
  <2>4. ~CopyPastNull => find_allocated_size(heap, b.ptr) <= NullSize
    <3>1. find_allocated_size(heap, b.ptr) \in Nat
      BY <1>3, FoundSize
    <3>2. ~CopyPastNull => ~(find_allocated_size(heap, b.ptr) > NullSize)
      BY <2>1 DEF CopyPastNull
    <3> QED BY <3>1, <3>2, HeapConstants
  <2> QED BY <1>6, <2>1, <2>3, <2>4 DEF ZeroStep
<1>15. \/ o.ptr # NULL /\ \E a : Replaced(heap, o.heap, {w}, a) /\ a.base = o.ptr /\ a.size >= n
       \/ o.ptr # NULL /\ \E a : Replaced(heap, o.heap, {}, a) /\ a.base = o.ptr /\ a.size >= n
       \/ o.ptr = NULL /\ ~IsKnown(heap, b.ptr) /\ o.heap = heap
       \/ o.ptr = NULL /\ IsKnown(heap, b.ptr) /\ o.heap.used = heap.used \ {w}
  BY <1>6, <1>8 DEF Realloced
<1> QED BY <1>11, <1>12, <1>13, <1>14, <1>15

(* After loading only the guest takes steps. *)
LEMMA GuestSteps ==
  ASSUME toLoad = {}, BlockInv, AllocNext
  PROVE  GuestStep /\ (~CopyPastNull => ZeroStep)
<1>0. Ready(heap) /\ Hosted(heap, blocks)
  BY LoadedIsReady DEF BlockInv
<1>1. ~set_null_segment_size /\ ~LoadSegment
  BY DEF set_null_segment_size, LoadSegment
<1>2. ASSUME NEW n \in Nat \ {0}, NEW o \in MemAlloc(heap, dirty, n), Receive(o, n)
      PROVE  GuestStep /\ ZeroStep
  <2>1. /\ UNCHANGED <<reserved, toLoad, zero_memory_on_free>>
        /\ heap' = o.heap /\ dirty' \subseteq o.dirty
        /\ blocks' = IF o.ptr = NULL THEN blocks ELSE blocks \cup {HeapBlock(o.ptr, n)}
    BY <1>2 DEF Receive, UseOutcome
  <2> QED BY <1>0, <2>1, AllocStep
<1>3. ASSUME NEW size \in Sizes, NSZoneMalloc(size) PROVE GuestStep /\ ZeroStep
  <2> DEFINE n == IF size = 0 THEN 1 ELSE size
  <2>1. n \in Nat \ {0} /\ \E o \in MemAlloc(heap, dirty, n) : Receive(o, n)
    BY <1>3, RequestSizes DEF NSZoneMalloc
  <2> HIDE DEF n
  <2> QED BY <2>1, <1>2
<1>4. ASSUME NEW size \in Sizes, malloc(size) PROVE GuestStep /\ ZeroStep
  <2> DEFINE n == MallocSize(size)
  <2>1. n \in Nat \ {0} /\ \E o \in MemAlloc(heap, dirty, n) : Receive(o, n)
    BY <1>4, RequestSizes DEF malloc
  <2> HIDE DEF n
  <2> QED BY <2>1, <1>2
<1>5. ASSUME NEW size \in Sizes, calloc(size) PROVE GuestStep /\ ZeroStep
  <2> DEFINE n == IF size = 0 THEN 1 ELSE size
  <2>1. PICK o \in MemAlloc(heap, dirty, n) :
          Receive([o EXCEPT !.dirty = IF o.ptr = NULL THEN @ ELSE @ \ Span(o.ptr, n)], n)
    BY <1>5 DEF calloc
  <2>2. n \in Nat \ {0}
    BY RequestSizes
  <2>3. o = [heap |-> o.heap, ptr |-> o.ptr, dirty |-> o.dirty]
    BY <2>1 DEF MemAlloc
  <2> HIDE DEF n
  <2>4. /\ UNCHANGED <<reserved, toLoad, zero_memory_on_free>>
        /\ heap' = o.heap /\ dirty' \subseteq o.dirty
        /\ blocks' = IF o.ptr = NULL THEN blocks ELSE blocks \cup {HeapBlock(o.ptr, n)}
    BY <2>1, <2>3 DEF Receive, UseOutcome
  <2> QED BY <1>0, <2>2, <2>4, AllocStep
<1>6. ASSUME NEW size \in Sizes, valloc(size) PROVE GuestStep /\ ZeroStep
  <2>1. size \in Nat \ {0}
    BY <1>6, RequestSizes DEF valloc
  <2> QED BY <1>0, <1>6, <2>1, VallocStep
<1>7. ASSUME NEW size \in Sizes, NEW alignment \in Alignments, posix_memalign(alignment, size)
      PROVE  GuestStep /\ ZeroStep
  <2>1. size \in Nat \ {0} /\ alignment \in Nat \ {0}
    <3>1. alignment \in Nat
      BY AllocAssumption
    <3> QED BY <1>7, <3>1, RequestSizes, HeapConstants DEF posix_memalign
  <2>2. \E o \in MemalignOutcomes(heap, dirty, alignment, size) : Receive(o, size)
    BY <1>7 DEF posix_memalign
  <2> QED BY <1>0, <2>1, <2>2, MemalignStep
<1>8. ASSUME NEW b \in blocks, free(b) PROVE GuestStep /\ ZeroStep
  BY <1>0, <1>8, FreeStep
<1>9. ASSUME NEW b \in blocks, WriteBlock(b) PROVE GuestStep /\ ZeroStep
  BY <1>0, <1>9, WriteStep
<1>10. ASSUME NEW b \in blocks, NEW size \in Sizes, realloc(b, size)
       PROVE  GuestStep /\ (~CopyPastNull => ZeroStep)
  BY <1>0, <1>10, ReallocStep
<1> QED BY <1>1, <1>3, <1>4, <1>5, <1>6, <1>7, <1>8, <1>9, <1>10 DEF AllocNext

(* Before that only segments are reserved. *)
LEMMA LoadSteps ==
  ASSUME SegmentsAligned, SegmentsApart, toLoad # {}, BlockInv, AllocNext
  PROVE  /\ Loading' /\ Hosted(heap', blocks')
         /\ blocks = {} /\ blocks' = {} /\ dirty' = {}
<1>1. set_null_segment_size \/ LoadSegment
  BY DEF AllocNext, NSZoneMalloc, malloc, calloc, valloc, posix_memalign, MayHold,
         free, WriteBlock, realloc
<1>2. PICK m \in AllSegments : m \in toLoad /\ Reserve(m)
  BY <1>1 DEF set_null_segment_size, LoadSegment, AllSegments
<1>3. Loading'
  BY <1>2, LoadingReserve DEF BlockInv
<1>4. blocks = {} /\ blocks' = {} /\ dirty' = {}
  BY <1>2 DEF BlockInv, Loading, Reserve
<1> QED BY <1>3, <1>4 DEF Hosted

LEMMA ReadyIsLoadedNext == (toLoad = {} /\ Ready(heap) => Loading)'
<1>1. toLoad = {} /\ Ready(heap) => Loading
  BY ReadyIsLoaded
<1> QED BY <1>1, PTL

LEMMA BlockInvInit ==
  ASSUME SegmentsApart, AllocInit
  PROVE  BlockInv /\ FreeIsZero(heap, dirty)
  BY LoadingInit DEF BlockInv, AllocInit, Hosted, FreeIsZero

LEMMA BlockInvNext ==
  ASSUME SegmentsAligned, SegmentsApart, BlockInv, [AllocNext]_allocVars
  PROVE  BlockInv'
<1>1. CASE toLoad = {} /\ AllocNext
  <2>1. GuestStep
    BY <1>1, GuestSteps
  <2>2. toLoad' = {} /\ Ready(heap)' /\ Hosted(heap, blocks)'
    BY <2>1 DEF GuestStep, Ready, HeapChunks, Hosted, HostOf
  <2> QED BY <2>2, ReadyIsLoadedNext DEF BlockInv
<1>2. CASE toLoad # {} /\ AllocNext
  <2>1. Loading' /\ blocks' = {}
    BY <1>2, LoadSteps
  <2> QED BY <2>1 DEF BlockInv, Hosted
<1>3. CASE UNCHANGED allocVars
  BY <1>3 DEF allocVars, BlockInv, Loading, Hosted, HostOf, HeapChunks
<1> QED BY <1>1, <1>2, <1>3

LEMMA BlockInvAlways ==
  ASSUME SegmentsAligned, SegmentsApart
  PROVE  AllocSpec => []BlockInv
<1>1. BlockInv /\ [AllocNext]_allocVars => BlockInv'
  BY BlockInvNext
<1>2. AllocInit => BlockInv
  BY BlockInvInit
<1> QED BY <1>1, <1>2, PTL DEF AllocSpec

(* NoBytesLost: free drops a chunk too small for the free list, and alloc   *)
(* and grow_in_place cut chunks; but once the program is loaded no such     *)
(* chunk arises, and the used and free ones cover the same bytes for ever.  *)
THEOREM HeapLosesNoBytes ==
  ASSUME SegmentsAligned, SegmentsApart
  PROVE  AllocSpec => NoBytesLost
<1>1. ASSUME BlockInv, [AllocNext]_allocVars
      PROVE  [toLoad = {} => BytesOf(heap'.used \cup heap'.unused) = BytesOf(Chunks)]_allocVars
  <2>1. CASE toLoad = {} /\ AllocNext
    <3>1. BytesOf(AllChunks(heap')) = BytesOf(AllChunks(heap))
      BY <1>1, <2>1, GuestSteps DEF GuestStep
    <3> QED BY <3>1 DEF AllChunks, Chunks
  <2> QED BY <2>1, <1>1
<1> QED BY <1>1, BlockInvAlways, PTL DEF AllocSpec, NoBytesLost

LEMMA FreshBlock ==
  ASSUME NEW B, Ready(heap'), reserved' = reserved, Hosted(heap', B), NEW b \in B
  PROVE  Promise!Fresh(b, B \ {b})
<1>1. /\ b.size > 0 /\ Span(b.ptr, b.size) \subseteq HeapBytes
      /\ \A e \in B : e # b => Span(b.ptr, b.size) \cap Span(e.ptr, e.size) = {}
  BY HostedApart
<1> QED BY <1>1 DEF Promise!Fresh, Promise!Bytes, Span

LEMMA GuestStepIsHeapStep == GuestStep => [Promise!HeapNext]_blocks
<1> SUFFICES ASSUME GuestStep PROVE [Promise!HeapNext]_blocks
  OBVIOUS
<1>1. ASSUME NEW b, b \notin blocks, blocks' = blocks \cup {b} PROVE Promise!Give
  <2>1. Promise!Fresh(b, blocks' \ {b})
    BY <1>1, FreshBlock DEF GuestStep
  <2>2. blocks' \ {b} = blocks /\ b \in blocks' \ blocks
    BY <1>1
  <2> QED BY <1>1, <2>1, <2>2 DEF Promise!Give
<1>2. ASSUME NEW b \in blocks, blocks' = blocks \ {b} PROVE Promise!Take
  BY <1>2 DEF Promise!Take
<1>3. ASSUME NEW b \in blocks, NEW e, e \notin blocks \ {b}, blocks' = (blocks \ {b}) \cup {e}
      PROVE  Promise!Exchange
  <2>1. Promise!Fresh(e, blocks' \ {e})
    BY <1>3, FreshBlock DEF GuestStep
  <2>2. blocks' \ {e} = blocks \ {b} /\ e \in blocks'
    BY <1>3
  <2> QED BY <1>3, <2>1, <2>2 DEF Promise!Exchange
<1> QED BY <1>1, <1>2, <1>3 DEF GuestStep, Promise!HeapNext

(* ImplementsHeap: the blocks malloc, calloc, valloc, posix_memalign and    *)
(* realloc give out lie in the heap, clear of every reserved segment and of *)
(* the stack, and apart from the blocks the guest already holds.            *)
THEOREM AllocatorImplementsHeap ==
  ASSUME SegmentsAligned, SegmentsApart
  PROVE  AllocSpec => ImplementsHeap
<1>1. AllocInit => Promise!HeapInit
  BY DEF AllocInit, Promise!HeapInit
<1>2. ASSUME BlockInv, [AllocNext]_allocVars
      PROVE  [Promise!HeapNext]_blocks
  <2>1. CASE toLoad = {} /\ AllocNext
    BY <1>2, <2>1, GuestSteps, GuestStepIsHeapStep
  <2>2. CASE toLoad # {} /\ AllocNext
    BY <1>2, <2>2, LoadSteps
  <2>3. CASE UNCHANGED allocVars
    BY <2>3 DEF allocVars
  <2> QED BY <1>2, <2>1, <2>2, <2>3
<1> QED BY <1>1, <1>2, BlockInvAlways, PTL DEF AllocSpec, ImplementsHeap, Promise!HeapSpec

(* HandedOutZeroed, in both settings of zero_memory_on_free, as long as no   *)
(* realloc of a block larger than __PAGEZERO is refused: the copy Mem::      *)
(* realloc makes all the same would leave free memory that is not zero.     *)
THEOREM HeapHandsOutZeroes ==
  ASSUME SegmentsAligned, SegmentsApart
  PROVE  AllocSpec /\ [][~CopyPastNull]_allocVars => HandedOutZeroed
<1> DEFINE Zero == FreeIsZero(heap, dirty)
           Given == blocks \subseteq blocks' =>
                      \A b \in blocks' \ blocks : Span(b.ptr, b.size) \cap dirty' = {}
<1>1. ASSUME BlockInv, Zero, [AllocNext]_allocVars, [~CopyPastNull]_allocVars
      PROVE  Zero' /\ [Given]_allocVars
  <2>1. CASE toLoad = {} /\ AllocNext /\ ~CopyPastNull
    <3>1. GuestStep /\ ZeroStep
      BY <1>1, <2>1, GuestSteps
    <3> QED BY <1>1, <3>1 DEF GuestStep, ZeroStep, FreeIsZero
  <2>2. CASE toLoad # {} /\ AllocNext
    <3>1. blocks' = {} /\ dirty' = {}
      BY <1>1, <2>2, LoadSteps
    <3> QED BY <3>1 DEF FreeIsZero
  <2>3. CASE UNCHANGED allocVars
    BY <1>1, <2>3 DEF allocVars, FreeIsZero
  <2> QED BY <1>1, <2>1, <2>2, <2>3
<1>2. AllocInit => Zero
  BY BlockInvInit
<1> HIDE DEF Zero
<1> QED BY <1>1, <1>2, BlockInvAlways, PTL DEF AllocSpec, HandedOutZeroed
=============================================================================
