------------------------------- MODULE MCFiles -------------------------------
(***************************************************************************)
(* Instances of Files for TLC: two transfers; the second file is smaller.  *)
(***************************************************************************)
EXTENDS Files

\* The first file may have lost its last bytes or all of them, or have grown by
\* more than a chunk, between the offer and the reading; the second keeps its size.
Sizes == <<3, 1>>
Drifting == <<{0, 2, 3, 6}, {1}>>
=============================================================================
