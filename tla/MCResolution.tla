----------------------------- MODULE MCResolution ------------------------------
(* Model-checking instances of resolution over the transparency store. *)
EXTENDS Resolution, TLC

Symmetry == Permutations(Operators) \cup Permutations(Resolvers)

\* A behaviour is followed up to the first rename over a pin that was not checked: beyond it
\* the properties of the pin promise nothing.
UpToARace == ~raced

================================================================================
