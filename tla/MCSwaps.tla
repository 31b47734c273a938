-------------------------------- MODULE MCSwaps --------------------------------
(* Model-checking instances of the swap life cycles. *)
EXTENDS Swaps, TLC

================================================================================
