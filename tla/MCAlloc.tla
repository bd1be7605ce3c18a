------------------------------ MODULE MCAlloc ------------------------------
(* Alloc for TLC: the numbers of alloc.c scaled down to two buckets. *)
EXTENDS Alloc

\* Sizes on both sides of a multiple of 8, the largest one allowed, and one above it.
MCSizes == {5, 8, 9, 17}
=============================================================================
