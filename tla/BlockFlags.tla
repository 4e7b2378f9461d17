----------------------------- MODULE BlockFlags -----------------------------
(***************************************************************************)
(* The low 16 bits of the flags word of a block or of a __block variable:  *)
(* the reference count in steps of two and BLOCK_DEALLOCATING in bit 0.    *)
(* "Byref refcount must use the same bits as Block_layout's refcount."     *)
(***************************************************************************)
EXTENDS Integers

CONSTANT Mask       \* BLOCK_REFCOUNT_MASK, 0xfffe in the code

ASSUME MaskAssumption == Mask \in Nat /\ Mask >= 4 /\ Mask % 2 = 0

Word == 0 .. Mask + 1

Count(w) == w - (w % 2)          \* w & BLOCK_REFCOUNT_MASK
Deallocating(w) == w % 2 = 1     \* w & BLOCK_DEALLOCATING
LatchIgnored(w) == FALSE                   \* mutant of Latched
Latched(w) == Count(w) = Mask

(***************************************************************************)
(* The values the compare-and-swap loops store, and what the loops do to   *)
(* the word when nobody interferes.                                        *)
(***************************************************************************)
Incremented(w) == w + 2
LastReleaseAnyBit(w) == Count(w) = 2       \* mutant of LastRelease: bit not masked in
LastReleaseOffByOne(w) == w = 0            \* mutant of LastRelease
LastRelease(w) == w = 2          \* w & (MASK | DEALLOCATING) == 2
DecrementedPlain(w) == w - 2               \* mutant of Decremented: bit not set
Decremented(w) == IF LastRelease(w) THEN w - 1 ELSE w - 2

\* latching_incr_int
Retained(w) == IF Latched(w) THEN w ELSE Incremented(w)
\* latching_decr_int_should_deallocate: the word it leaves, and its result
Saturated(w) == Count(w) \in {0, Mask}
Released(w) == IF Saturated(w) THEN w ELSE Decremented(w)
ShouldDeallocate(w) == ~Saturated(w) /\ LastRelease(w)
=============================================================================
