------------------------------- MODULE MCGralloc -------------------------------
(* An instance of Gralloc: two threads, two buffers, sizes at the edges.  The word *)
(* has 7 bits, so that the size of a row wraps.                                    *)
EXTENDS Gralloc, TLC

CONSTANTS t1, t2, b1, b2, a1, a2

MCThreads == {t1, t2}
MCBuffers == {b1, b2}
MCAddrs == {a1, a2}
MCInfos ==
  {[format |-> "YCBCR_420_SP", width |-> 16, height |-> 3],
   [format |-> "YCRCB_420_P", width |-> 5, height |-> 4],
   [format |-> "YCBCR_422_SP", width |-> 6, height |-> 2],
   [format |-> "YCRCB_422_P", width |-> 31, height |-> 2],
   [format |-> "BGR_565", width |-> 9, height |-> 1],
   [format |-> "RGB_565", width |-> 4, height |-> 4]}
Symmetry == Permutations(MCThreads) \cup Permutations(MCBuffers) \cup Permutations(MCAddrs)
=============================================================================
