--------------------------- MODULE BlockLifetime ---------------------------
(***************************************************************************)
(* What _Block_copy, _Block_release and _Block_tryRetain promise the users *)
(* of one block, without the flags word: owners come and go one at a time, *)
(* the departure of the last one ends the block's life, a life that ended  *)
(* does not start again, and memory is returned only after the end.  A     *)
(* block whose count saturated is leaked: it outlives its last owner.      *)
(***************************************************************************)
CONSTANT Ref

VARIABLES phase,    \* "unborn", "live", "ended", "freed"
          owners,   \* pointers that own the block
          leaked    \* the count saturated while the block was live

vars == <<phase, owners, leaked>>

Init == phase = "unborn" /\ owners = {} /\ leaked = FALSE

Create(r) == /\ phase = "unborn"
             /\ phase' = "live"
             /\ owners' = {r}
             /\ UNCHANGED leaked

\* A copy or a successful weak load: somebody must own the block, or it leaks.
Acquire(r) == /\ phase = "live"
              /\ owners # {} \/ leaked
              /\ owners' = owners \cup {r}
              /\ leaked' \in {leaked, TRUE}
              /\ UNCHANGED phase

Drop(r) == /\ phase = "live"
           /\ r \in owners
           /\ owners' = owners \ {r}
           /\ phase' = IF owners = {r} /\ ~leaked THEN "ended" ELSE "live"
           /\ UNCHANGED leaked

Reclaim == /\ phase = "ended"
           /\ phase' = "freed"
           /\ UNCHANGED <<owners, leaked>>

Next == (\E r \in Ref : Create(r) \/ Acquire(r) \/ Drop(r)) \/ Reclaim

Spec == Init /\ [][Next]_vars
=============================================================================
