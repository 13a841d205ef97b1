----------------------------- MODULE Allocator ------------------------------
(***************************************************************************)
(* The guest heap: Allocator of mem/allocator.rs, the operations of Mem    *)
(* that use it (mem.rs) and the malloc family of libc/stdlib.rs.           *)
(*                                                                         *)
(* The allocator keeps used and unused chunks of the address space.  The   *)
(* size buckets of the unused chunks are derived from their sizes; the     *)
(* order inside a bucket, which only breaks ties between chunks of the     *)
(* same size, is left open.  Of the contents of memory only `dirty` is     *)
(* kept: the addresses that may hold something other than zero.            *)
(***************************************************************************)
EXTENDS Integers, FiniteSets, FiniteSetsExt

CONSTANTS
  MIN_CHUNK_SIZE, PAGE_SIZE,
  AddressBits,   \* 32: the width of sizes and addresses
  StackLow,      \* MAIN_THREAD_STACK_LOW_END
  NullSize,      \* the size of __PAGEZERO
  Segments,      \* the chunks the Mach-O loader reserves
  Header,        \* the word posix_memalign stores before the block
  Sizes,         \* the sizes the guest asks for
  Alignments,    \* the alignments it passes to posix_memalign
  MaxBlocks      \* bound: blocks the guest holds at once

AddressSpace == 2 ^ AddressBits

ASSUME AllocAssumption ==
  /\ AddressBits \in Nat
  /\ {MIN_CHUNK_SIZE, PAGE_SIZE, AddressSpace, StackLow, NullSize, Header}
       \subseteq Nat \ {0}
  /\ MIN_CHUNK_SIZE < PAGE_SIZE /\ PAGE_SIZE % MIN_CHUNK_SIZE = 0
  /\ StackLow % PAGE_SIZE = 0 /\ AddressSpace % PAGE_SIZE = 0
  /\ NullSize % PAGE_SIZE = 0 /\ NullSize < StackLow /\ StackLow < AddressSpace
  /\ Sizes \subseteq 0 .. AddressSpace - 1
  /\ Alignments \subseteq Nat
  /\ Segments \subseteq [base : Nat, size : Nat \ {0}]

VARIABLES
  heap,         \* [used, unused]: the chunks [base, size] of the allocator
  reserved,     \* the chunks reserved so far, the main thread's stack included
  toLoad,       \* segments still to be reserved; guest code runs after the last
  zero_memory_on_free,
  dirty,
  blocks        \* the blocks the guest holds: [ptr, size], size as asked for

allocVars == <<heap, reserved, toLoad, zero_memory_on_free, dirty, blocks>>

NULL == 0

-----------------------------------------------------------------------------
(* Chunks. *)

Chunk(base, size) == [base |-> base, size |-> size]

Span(base, size) == base .. base + size - 1

ChunkBytes(c) == Span(c.base, c.size)

BytesOf(chunks) == UNION {ChunkBytes(c) : c \in chunks}

PageAligned(base) == base % PAGE_SIZE = 0

(* trisect_by: what is left of c on the two sides of middle. *)
Trisect(c, middle) ==
  {d \in {Chunk(c.base, middle.base - c.base),
          Chunk(middle.base + middle.size,
                (c.base + c.size) - (middle.base + middle.size))} : d.size > 0}

(* Chunks too small for the bucketed list are dropped wherever they arise. *)
Tracked(chunks) == {c \in chunks : c.size >= MIN_CHUNK_SIZE}

(* u32::ilog2: how many of the powers 2, 4, 8, ... are at most n. *)
Ilog2(n) == Cardinality({k \in 1 .. AddressBits : 2 ^ k <= n})

bucket_for(size) == Ilog2(size) - Ilog2(MIN_CHUNK_SIZE)

-----------------------------------------------------------------------------
(* Allocator.  The operations map a heap to the set of their outcomes. *)

(* The loop of allocate_in_bucket: the smallest chunks that fit. *)
BestInBucket(unused, size, bucket) ==
  LET fit == {c \in unused : bucket_for(c.size) = bucket /\ c.size >= size} IN
  {c \in fit : \A d \in fit : c.size <= d.size}

(* Mutant: of the larger buckets only the next one is searched. *)
FitsInNextBucket(unused, size) ==
  LET own == BestInBucket(unused, size, bucket_for(size)) IN
  IF own # {} THEN own ELSE BestInBucket(unused, size, bucket_for(size) + 1)

(* The chunks allocate may take: from the bucket of the size, else from     *)
(* the next bucket that is not empty.                                       *)
FitsFor(unused, size) ==
  LET bucket == bucket_for(size)
      own    == BestInBucket(unused, size, bucket)
      larger == {bucket_for(c.size) : c \in unused} \ (0 .. bucket)
  IN IF own # {} \/ larger = {} THEN own
     ELSE BestInBucket(unused, size, Min(larger))

(* Mutant: the part of the page after the allocation is forgotten. *)
RumpFromNextPage(existing, size) ==
  LET rump == Chunk(existing.base + size, existing.size - size) IN
  IF rump.size >= PAGE_SIZE /\ ~PageAligned(rump.base)
    THEN {Chunk(existing.base + PAGE_SIZE, existing.size - PAGE_SIZE)}
    ELSE {rump}

(* What remains of a chunk after `size` bytes: in two, where that keeps a   *)
(* chunk of a page or more page-aligned.                                    *)
Rump(existing, size) ==
  LET rump == Chunk(existing.base + size, existing.size - size) IN
  IF rump.size >= PAGE_SIZE /\ ~PageAligned(rump.base)
    THEN {Chunk(rump.base, PAGE_SIZE - size),
          Chunk(existing.base + PAGE_SIZE, existing.size - PAGE_SIZE)}
    ELSE {rump}

(* The rest of allocate_in_bucket: the chunk is cut unless a piece would be *)
(* too small to keep track of.                                              *)
Carve(existing, size) ==
  LET rest == Rump(existing, size) IN
  IF Tracked(rest) = rest
    THEN [alloc |-> Chunk(existing.base, size), rest |-> rest]
    ELSE [alloc |-> existing, rest |-> {}]

(* align: NULL stands for an overflow. *)
Align(size, align) ==
  LET aligned == ((size + align - 1) \div align) * align IN
  IF aligned < AddressSpace THEN aligned ELSE NULL

AlignedSize(size) ==
  IF size < PAGE_SIZE
    THEN Align(IF size < MIN_CHUNK_SIZE THEN MIN_CHUNK_SIZE ELSE size,
               MIN_CHUNK_SIZE)
    ELSE Align(size, PAGE_SIZE)

(* alloc *)
AllocOutcomes(h, size) ==
  LET n    == AlignedSize(size)
      fits == IF n = NULL THEN {} ELSE FitsFor(h.unused, n)
  IN IF fits = {} THEN {[heap |-> h, ptr |-> NULL]}
     ELSE {LET cut == Carve(c, n) IN
           [heap |-> [used   |-> h.used \cup {cut.alloc},
                      unused |-> (h.unused \ {c}) \cup cut.rest],
            ptr  |-> c.base] : c \in fits}

IsKnown(h, base) == \E c \in h.used : c.base = base

UsedAt(h, base) == CHOOSE c \in h.used : c.base = base

find_allocated_size(h, base) ==
  IF IsKnown(h, base) THEN UsedAt(h, base).size ELSE 0

(* What grow_in_place leaves of a free chunk it splits. *)
GrowRest(c, extra) == Chunk(c.base + extra, c.size - extra)

(* grow_in_place: the chunk at base takes over free space that follows it; *)
(* the empty set stands for None.                                          *)
GrowOutcomes(h, base, old_size, new_size) ==
  LET extra == new_size - old_size
      room(c) == /\ c.base = base + old_size
                 /\ c.size >= extra
      splits(c) == c.size < PAGE_SIZE /\ c.size - extra >= MIN_CHUNK_SIZE
      grown(c) == IF splits(c) THEN new_size ELSE old_size + c.size
  IN {[used   |-> (h.used \ {UsedAt(h, base)}) \cup {Chunk(base, grown(c))},
       unused |-> (h.unused \ {c}) \cup
                    (IF splits(c) THEN {GrowRest(c, extra)}
                     ELSE {})] :
      c \in {d \in h.unused : /\ IsKnown(h, base)
                              /\ room(d)
                              /\ grown(d) < PAGE_SIZE \/ PageAligned(base)}}

(* Mutant: chunks are combined whatever the result. *)
NeverKeptApart(joint) == FALSE

(* Chunks that would make up a page or more off a page boundary. *)
KeptApart(joint) == joint.size >= PAGE_SIZE /\ ~PageAligned(joint.base)

(* free: the chunk is combined with the free chunk after it or, if there   *)
(* is none, with the one before it, unless that breaks page alignment.     *)
FreeChunk(h, base) ==
  LET freed  == UsedAt(h, base)
      after  == {c \in h.unused : c.base = freed.base + freed.size}
      before == {c \in h.unused : c.base + c.size = freed.base}
      merge  == IF after # {} THEN after ELSE before
      joint(c) == Chunk(IF c.base < freed.base THEN c.base ELSE freed.base,
                        freed.size + c.size)
      back   == IF merge = {} THEN {freed}
                ELSE UNION {IF KeptApart(joint(c)) THEN {c, freed} ELSE {joint(c)} :
                            c \in merge}
  IN [used   |-> h.used \ {freed},
      unused |-> (h.unused \ merge) \cup Tracked(back)]

-----------------------------------------------------------------------------
(* Mem.  An outcome is [heap, dirty, ptr]. *)

(* Mem::alloc *)
MemAlloc(h, d, size) ==
  {[heap |-> o.heap, ptr |-> o.ptr,
    dirty |-> IF zero_memory_on_free \/ o.ptr = NULL THEN d
              ELSE d \ Span(o.ptr, size)] : o \in AllocOutcomes(h, size)}

(* Mutant: freed memory is not zeroed. *)
MemFreeUnzeroed(h, d, ptr) ==
  IF ptr = NULL \/ ~IsKnown(h, ptr) THEN [heap |-> h, dirty |-> d]
  ELSE [heap |-> FreeChunk(h, ptr), dirty |-> d]

(* Mem::free: NULL, and what is not the base of a used chunk, is ignored.  *)
MemFree(h, d, ptr) ==
  IF ptr = NULL \/ ~IsKnown(h, ptr) THEN [heap |-> h, dirty |-> d]
  ELSE [heap |-> FreeChunk(h, ptr),
        dirty |-> IF zero_memory_on_free THEN d \ ChunkBytes(UsedAt(h, ptr)) ELSE d]

(* memmove to a block (or to NULL, where the copy lands at address 0);     *)
(* 2^31 bytes and more are taken for a negative size and not copied.       *)
Moved(d, dest, src, size) ==
  IF 2 * size >= AddressSpace THEN d
  ELSE (d \ Span(dest, size)) \cup
         {dest + (a - src) : a \in d \cap Span(src, size)}

(* Mem::realloc of a pointer that is not null *)
MemRealloc(h, d, ptr, size) ==
  LET old_size == find_allocated_size(h, ptr)
      grown    == GrowOutcomes(h, ptr, old_size, size)
      moved(o) == LET f == MemFree(o.heap, Moved(o.dirty, o.ptr, ptr, old_size), ptr)
                  IN [heap |-> f.heap, dirty |-> f.dirty, ptr |-> o.ptr]
  IN IF old_size >= size THEN {[heap |-> h, dirty |-> d, ptr |-> ptr]}
     ELSE IF grown # {} THEN
       {[heap |-> g, ptr |-> ptr,
         dirty |-> IF zero_memory_on_free
                     THEN d \ (ChunkBytes(UsedAt(g, ptr)) \ Span(ptr, old_size))
                     ELSE d] : g \in grown}
     ELSE {moved(o) : o \in MemAlloc(h, d, size)}

-----------------------------------------------------------------------------
(* Loading: Mem::set_null_segment_size and Mem::reserve. *)

NullSegment == Chunk(0, NullSize)

AllocInit ==
  LET stack == Chunk(StackLow, AddressSpace - StackLow) IN
  /\ heap = [used |-> {stack}, unused |-> {Chunk(0, StackLow)}]
  /\ reserved = {stack}
  /\ toLoad = Segments \cup {NullSegment}
  /\ zero_memory_on_free \in BOOLEAN
  /\ dirty = {}
  /\ blocks = {}

(* The segments Chunk::new accepts, and none that leaves free memory off a  *)
(* page boundary behind it.  Nothing in the code checks this, and reserve  *)
(* expects others too; TLC and the theorems use it as a condition.         *)
SegmentsAligned ==
  \A c \in Segments :
    (c.size >= PAGE_SIZE => PageAligned(c.base)) /\ PageAligned(c.base + c.size)

(* Segments that overlap neither one another, nor __PAGEZERO, nor the low    *)
(* end of the stack: of an overlapping one reserve would skip what is free. *)
SegmentsApart ==
  /\ \A c, e \in Segments \cup {NullSegment} : c # e => ChunkBytes(c) \cap ChunkBytes(e) = {}
  /\ \A c \in Segments : c.base + c.size <= StackLow \/ c.base >= StackLow

(* Allocator::reserve: a chunk that is not inside one free chunk is skipped. *)
Reserve(chunk) ==
  /\ LET around == {c \in heap.unused : ChunkBytes(chunk) \subseteq ChunkBytes(c)} IN
     IF around = {} THEN UNCHANGED <<heap, reserved>>
     ELSE \E c \in around :
            /\ heap' = [used   |-> heap.used \cup {chunk},
                        unused |-> (heap.unused \ {c}) \cup Tracked(Trisect(c, chunk))]
            /\ reserved' = reserved \cup {chunk}
  /\ toLoad' = toLoad \ {chunk}
  /\ UNCHANGED <<zero_memory_on_free, dirty, blocks>>

set_null_segment_size == NullSegment \in toLoad /\ Reserve(NullSegment)

LoadSegment == \E c \in Segments \cap toLoad : Reserve(c)

-----------------------------------------------------------------------------
(* The guest. *)

HeapBlock(ptr, size) == [ptr |-> ptr, size |-> size]

MayHold == toLoad = {} /\ Cardinality(blocks) < MaxBlocks

UseOutcome(o) ==
  /\ heap' = o.heap
  /\ dirty' = o.dirty
  /\ UNCHANGED <<reserved, toLoad, zero_memory_on_free>>

(* The guest receives the pointer of outcome o for a request of `size`. *)
Receive(o, size) ==
  /\ UseOutcome(o)
  /\ blocks' = IF o.ptr = NULL THEN blocks ELSE blocks \cup {HeapBlock(o.ptr, size)}

(* NSZoneMalloc; malloc_zone_malloc is the same for a size that is not 0.  *)
NSZoneMalloc(size) ==
  LET n == IF size = 0 THEN 1 ELSE size IN
  /\ MayHold
  /\ \E o \in MemAlloc(heap, dirty, n) : Receive(o, n)

(* The sizes malloc passes on: those near 2^32 are taken for negative ones *)
(* and negated; zero becomes one.                                          *)
MallocSize(size) ==
  IF size > 15 * (AddressSpace \div 16) THEN AddressSpace - size
  ELSE IF size = 0 THEN 1 ELSE size

MallocLimit == AddressSpace \div 8

malloc(size) ==
  /\ MayHold
  /\ MallocSize(size) <= MallocLimit
  /\ \E o \in MemAlloc(heap, dirty, MallocSize(size)) : Receive(o, MallocSize(size))

(* calloc, of the product of its arguments *)
calloc(total) ==
  LET n == IF total = 0 THEN 1 ELSE total IN
  /\ MayHold
  /\ total <= MallocLimit
  /\ \E o \in MemAlloc(heap, dirty, n) :
       Receive([o EXCEPT !.dirty = IF o.ptr = NULL THEN @ ELSE @ \ Span(o.ptr, n)], n)

(* posix_memalign for alignments above the natural one: the aligned block  *)
(* inside a larger one, as an outcome.                                     *)
AlignUp(a, alignment) == ((a + alignment - 1) \div alignment) * alignment

(* Mutant: the space for moving the block up is not asked for. *)
MemalignTotalUnpadded(alignment, size) == size + Header

MemalignTotal(alignment, size) == size + alignment + Header

MemalignOutcomes(h, d, alignment, size) ==
  {[o EXCEPT !.ptr = IF o.ptr = NULL THEN NULL ELSE AlignUp(o.ptr + Header, alignment),
             !.dirty = IF o.ptr = NULL THEN @
                       ELSE @ \cup Span(AlignUp(o.ptr + Header, alignment) - Header, Header)] :
   o \in MemAlloc(h, d, MemalignTotal(alignment, size))}

(* Size 0 is left out, here and in valloc: it gives a block without bytes. *)
posix_memalign(alignment, size) ==
  /\ MayHold
  /\ alignment > MIN_CHUNK_SIZE /\ size > 0
  /\ MemalignTotal(alignment, size) < AddressSpace
  /\ \E o \in MemalignOutcomes(heap, dirty, alignment, size) : Receive(o, size)

(* valloc: posix_memalign to a page, with a temporary word for the result; *)
(* it fails at once when there is no room for the word.                    *)
valloc(size) ==
  /\ MayHold
  /\ size > 0 /\ MemalignTotal(PAGE_SIZE, size) < AddressSpace
  /\ \E t \in MemAlloc(heap, dirty, Header) :
       /\ t.ptr # NULL
       /\ \E o \in MemalignOutcomes(t.heap, t.dirty, PAGE_SIZE, size) :
            LET d == IF o.ptr = NULL THEN o.dirty ELSE o.dirty \cup Span(t.ptr, Header)
                f == MemFree(o.heap, d, t.ptr)
            IN Receive([heap |-> f.heap, dirty |-> f.dirty, ptr |-> o.ptr], size)

(* realloc of a block the guest holds.  When no room is found the block is *)
(* freed all the same, unless it came from posix_memalign.                 *)
realloc(b, size) ==
  LET n == IF size = 0 THEN 1 ELSE size IN
  /\ toLoad = {} /\ b \in blocks
  /\ \E o \in MemRealloc(heap, dirty, b.ptr, n) :
       /\ UseOutcome(o)
       /\ blocks' = IF o.ptr # NULL THEN (blocks \ {b}) \cup {HeapBlock(o.ptr, n)}
                    ELSE IF IsKnown(heap, b.ptr) THEN blocks \ {b} ELSE blocks

free(b) ==
  /\ toLoad = {} /\ b \in blocks
  /\ UseOutcome(MemFree(heap, dirty, b.ptr))
  /\ blocks' = blocks \ {b}

(* The guest fills a block it holds.  Bound: not before all memory is zero *)
(* again; a property about zeroed memory is about one dirty area anyway.   *)
WriteBlock(b) ==
  /\ toLoad = {} /\ b \in blocks
  /\ dirty = {}
  /\ dirty' = dirty \cup Span(b.ptr, b.size)
  /\ UNCHANGED <<heap, reserved, toLoad, zero_memory_on_free, blocks>>

AllocNext ==
  \/ set_null_segment_size
  \/ LoadSegment
  \/ \E size \in Sizes : \/ NSZoneMalloc(size)
                         \/ malloc(size)
                         \/ calloc(size)
                         \/ valloc(size)
  \/ \E size \in Sizes, alignment \in Alignments : posix_memalign(alignment, size)
  \/ \E b \in blocks : \/ free(b)
                       \/ WriteBlock(b)
                       \/ \E size \in Sizes : realloc(b, size)

AllocSpec == AllocInit /\ [][AllocNext]_allocVars

-----------------------------------------------------------------------------
(* Properties. *)

Chunks == heap.used \cup heap.unused

(* What the assertions of Chunk::new and of insert demand: a chunk of a    *)
(* page or more starts on a page, and no free chunk is below the minimum;  *)
(* otherwise the emulator panics.  And whatever was carved, grown in place *)
(* and merged before, no byte belongs to two chunks, used or free.         *)
ChunksWellFormed ==
  /\ \A c \in Chunks : c.size > 0 /\ (c.size >= PAGE_SIZE => PageAligned(c.base))
  /\ \A c \in heap.unused : c.size >= MIN_CHUNK_SIZE
  /\ heap.used \cap heap.unused = {}
  /\ \A c, e \in Chunks : c # e => ChunkBytes(c) \cap ChunkBytes(e) = {}
  /\ BytesOf(Chunks) \subseteq 0 .. AddressSpace - 1

(* The search through the buckets overlooks no chunk: a request is refused *)
(* only when no free chunk is large enough.                                *)
AllocFindsRoom ==
  \A size \in Sizes :
    LET n == AlignedSize(size) IN
    n # NULL /\ (\E c \in heap.unused : c.size >= n) => FitsFor(heap.unused, n) # {}

(* A block given out (not one moved or grown by realloc) reads as zero,    *)
(* whether memory is zeroed when it is freed or when it is handed out.     *)
HandedOutZeroed ==
  [][blocks \subseteq blocks' =>
       \A b \in blocks' \ blocks : Span(b.ptr, b.size) \cap dirty' = {}]_allocVars

(* A realloc that is refused for a block larger than __PAGEZERO: its       *)
(* contents are copied to address 0 and over what follows __PAGEZERO.      *)
CopyPastNull ==
  \E b \in blocks, size \in Sizes :
    /\ realloc(b, size)
    /\ b \notin blocks' /\ blocks' \subseteq blocks
    /\ find_allocated_size(heap, b.ptr) > NullSize

(* Once guest code runs, the two tables together cover the same bytes: what *)
(* is carved, cut by growing in place, merged or moved falls out of neither. *)
(* That somebody still holds what is in use is the business of FreeReleases. *)
NoBytesLost ==
  [][toLoad = {} => BytesOf(heap'.used \cup heap'.unused) = BytesOf(Chunks)]_allocVars

(* "so free() can find it again": the memory of a block passed to free, one *)
(* of posix_memalign or valloc included, is free memory afterwards.        *)
FreeReleases ==
  [][\A b \in blocks :
       free(b) => Span(b.ptr, b.size) \subseteq BytesOf(heap'.unused)]_allocVars

(* The allocator implements Heap: blocks the guest holds never overlap one *)
(* another, a reserved segment or the stack.                               *)
HeapBytes ==
  (0 .. StackLow - 1) \ (Span(0, NullSize) \cup BytesOf(Segments))

Promise == INSTANCE Heap
ImplementsHeap == Promise!HeapSpec
=============================================================================
