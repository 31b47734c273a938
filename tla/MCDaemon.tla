-------------------------------- MODULE MCDaemon -------------------------------
(* Model-checking instances of the daemon's requests. *)
EXTENDS Daemon, TLC

CONSTANTS a1, a2, i1, i2

\* One invite for each alias.
TwoRecipients == i1 :> a1 @@ i2 :> a2

\* Requests are only compared.
Interchangeable == Permutations(Requests)

================================================================================
