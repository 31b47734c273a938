----------------------------- MODULE MCLocalWallet -----------------------------
(* Model-checking instance of the receiver wallet's files. *)
EXTENDS LocalWallet, TLC

================================================================================
