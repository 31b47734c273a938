-------------------------- MODULE MCTransparencyStore --------------------------
(* Model-checking instances of the transparency store. *)
EXTENDS TransparencyStore, TLC

Symmetry == Permutations(Ids) \cup Permutations(Keys) \cup Permutations(Handlers)

================================================================================
