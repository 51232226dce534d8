--------------------------- MODULE MCResponseCache ---------------------------
(* ResponseCache on a small instance: see the .cfg files for the bounds. *)
EXTENDS ResponseCache, TLC

CONSTANT Uncached   \* a key whose lifetime is set to 0

MCTtl == [k \in Keys |-> IF k = Uncached THEN 0 ELSE 2]
MCSymmetry == Permutations(Callers) \cup Permutations(Keys \ {Uncached})
=============================================================================
