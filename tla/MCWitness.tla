------------------------------- MODULE MCWitness -------------------------------
(* Model-checking instances of the witnesses and their quorum. *)
EXTENDS Witness, TLC

CONSTANTS a, b, m1

\* Two roots for one size, one of them with a successor.
Branches == {[root |-> <<a>>, map |-> m1], [root |-> <<b>>, map |-> m1], [root |-> <<a, b>>, map |-> m1]}

WitnessSymmetry == Permutations(Honest) \cup Permutations(Faulty) \cup Permutations(Calls)

================================================================================
