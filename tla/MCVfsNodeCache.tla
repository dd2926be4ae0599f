--------------------------- MODULE MCVfsNodeCache ---------------------------
(* VfsNodeCache for TLC: two directories a and b with one entry each, which
   either may be renamed to the other; pointers and files are interchangeable. *)
EXTENDS VfsNodeCache, TLC

CONSTANTS a, b

MCNames == {a, b}
MCPath == {<<>>, <<a>>, <<b>>, <<a, a>>, <<b, a>>}

Interchangeable == Permutations(Refs) \cup Permutations(Files)
=============================================================================
