-------------------------------- MODULE Heap --------------------------------
(***************************************************************************)
(* What the guest is promised by malloc and its relatives: the blocks it   *)
(* holds lie in the heap, apart from one another.  Nothing is said of      *)
(* where a block is put or of when a request is refused.                   *)
(***************************************************************************)
EXTENDS Integers

CONSTANT HeapBytes \* the addresses that may ever be handed out

VARIABLE blocks    \* the blocks the guest holds, [ptr, size] each

Bytes(b) == b.ptr .. b.ptr + b.size - 1

(* A block that may be handed out beside the blocks `others`. *)
Fresh(b, others) ==
  /\ b.size > 0 /\ Bytes(b) \subseteq HeapBytes
  /\ \A c \in others : Bytes(b) \cap Bytes(c) = {}

HeapInit == blocks = {}

(* malloc, calloc, posix_memalign and valloc. *)
Give ==
  \E b \in blocks' \ blocks : Fresh(b, blocks) /\ blocks' = blocks \cup {b}

(* free, and a realloc that finds no room. *)
Take == \E b \in blocks : blocks' = blocks \ {b}

(* realloc. *)
Exchange ==
  \E old \in blocks, b \in blocks' :
    /\ Fresh(b, blocks \ {old})
    /\ blocks' = (blocks \ {old}) \cup {b}

HeapNext == Give \/ Take \/ Exchange

HeapSpec == HeapInit /\ [][HeapNext]_blocks
=============================================================================
