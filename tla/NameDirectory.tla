----------------------------- MODULE NameDirectory -----------------------------
(***************************************************************************)
(* What the transparency store promises about names: an atomic directory.  *)
(* A name belongs to nobody, then to the key that registered it; its       *)
(* versions count up by one; the key changes only by a transfer; after a   *)
(* revocation the entry stays as it is.                                    *)
(***************************************************************************)
EXTENDS Naturals

CONSTANTS Names, Keys, None

VARIABLES owner, version, revoked

directory == <<owner, version, revoked>>

Init ==
    /\ owner = [n \in Names |-> None]
    /\ version = [n \in Names |-> 0]
    /\ revoked = [n \in Names |-> FALSE]

Bump(n) == version' = [version EXCEPT ![n] = @ + 1]

Live(n) == owner[n] # None /\ ~revoked[n]

Register(n, k) ==
    /\ owner[n] = None
    /\ owner' = [owner EXCEPT ![n] = k]
    /\ Bump(n)
    /\ UNCHANGED revoked

Update(n) ==
    /\ Live(n)
    /\ Bump(n)
    /\ UNCHANGED <<owner, revoked>>

Transfer(n, k) ==
    /\ Live(n)
    /\ k # owner[n]
    /\ owner' = [owner EXCEPT ![n] = k]
    /\ Bump(n)
    /\ UNCHANGED revoked

Revoke(n) ==
    /\ Live(n)
    /\ revoked' = [revoked EXCEPT ![n] = TRUE]
    /\ Bump(n)
    /\ UNCHANGED owner

Next ==
    \E n \in Names :
        \/ \E k \in Keys : Register(n, k) \/ Transfer(n, k)
        \/ Update(n)
        \/ Revoke(n)

Spec == Init /\ [][Next]_directory

================================================================================
