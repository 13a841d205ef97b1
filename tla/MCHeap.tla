------------------------------- MODULE MCHeap -------------------------------
(***************************************************************************)
(* Programs for the heap: the segments the loader reserves.                *)
(***************************************************************************)
EXTENDS Allocator

(* A segment near __PAGEZERO, with a gap before it that is too small for a  *)
(* chunk and is dropped; one of odd size that leaves an odd chunk before   *)
(* it; and one where the stack is already, which is skipped.               *)
MCSegments == {[base |-> 10, size |-> 6], [base |-> 35, size |-> 5],
               [base |-> 48, size |-> 8]}

(* One segment that ends off a page, with pages of free memory after it. *)
OddSegments == {[base |-> 16, size |-> 5]}

(* A program loaded away from __PAGEZERO, which free memory follows. *)
SlidSegments == {[base |-> 32, size |-> 8]}
=============================================================================
