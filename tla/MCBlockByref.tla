---------------------------- MODULE MCBlockByref ----------------------------
(* Blocks are alike, and so are the threads that run code of the frame.    *)
EXTENDS BlockByref, TLC

Symmetry == Permutations(Block) \cup Permutations(FrameThreads)
=============================================================================
