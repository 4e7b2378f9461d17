-------------------------- MODULE MCBlockRefcount --------------------------
(* Three references make the count reach the mask: with four pointers the  *)
(* block can be exact, latched, and past the latch.                        *)
EXTENDS BlockRefcount

MCMask == 6
=============================================================================
