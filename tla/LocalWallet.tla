------------------------------- MODULE LocalWallet -----------------------------
(***************************************************************************)
(* The command line's receiver wallet (satspath-cli: wallet.rs,            *)
(* register.rs, proofs.rs, peer.rs, keystore.rs) over the files of one     *)
(* home directory: registry.json (satspath-core: registry.rs, rotation.rs),*)
(* wallet.json and one file per identity key.                              *)
(*                                                                         *)
(* One command runs at a time.  It reads the files, decides, and performs  *)
(* its writes in order; the process may die between two writes and inside  *)
(* the one that is not atomic.  Anyone can hand over a profile to import.  *)
(*                                                                         *)
(* Abstractions.  A signature is the key that made it.  A rotation         *)
(* statement is its contents and the keys that signed them.  An ownership  *)
(* proof is the method and the identity it was made for (Ownership).  The  *)
(* alias is in canonical form.  A command that refuses changes nothing.    *)
(***************************************************************************)
EXTENDS Integers, Sequences, SequencesExt, FiniteSets

CONSTANTS
    Aliases,   \* names
    Outsider,  \* a key of somebody else
    Rails,     \* kinds of receive method
    Life,      \* lifetime of a profile (30 days in the code)
    Grace,     \* check_profile_expiry's tolerance (60 s in the code)
    MaxKeys,   \* bound on the keys generated
    MaxSeq,    \* bound on sequence numbers
    MaxTime,   \* bound on the clock
    None,      \* an absent value
    Torn       \* a file that was cut off while it was written

ASSUME BoundsAssumption == {Life, Grace, MaxKeys, MaxSeq, MaxTime} \subseteq Nat

VARIABLES
    registry,   \* registry.json: an alias's signed profile, or None
    wallet,     \* wallet.json: [identity, alias, rails], or Torn
    keystore,   \* identity/: the keys that can be loaded
    generated,  \* keys ever generated here
    todo,       \* the running command's remaining writes
    published,  \* signed profiles of our keys that left this machine
    now         \* the wall clock

vars == <<registry, wallet, keystore, generated, todo, published, now>>

\* A key is named after the command that generates it.
OwnKeys == {"wallet", "register"} \X (1 .. MaxKeys)
AllKeys == OwnKeys \cup {Outsider}
ASSUME OutsiderAssumption == Outsider \notin OwnKeys
NoWallet == [identity |-> None, alias |-> None, rails |-> {}]

Init ==
    /\ registry = [a \in Aliases |-> None]
    /\ wallet = NoWallet
    /\ keystore = {} /\ generated = {} /\ published = {}
    /\ todo = <<>>
    /\ now = 0

--------------------------------------------------------------------------------
(* Rotation statements and the registry's rules *)

KeyRotation(alias, previous, new, sequence) ==
    [identifier |-> alias, previous |-> previous, new |-> new, sequence |-> sequence,
     signers |-> {previous, new}]

\* Mutant: the acceptance of the new key is enough.
VerifyRotation_NewKeyOnly(rotation) == rotation.sequence # 0 /\ rotation.new \in rotation.signers

\* Both the key that goes and the key that comes signed.
VerifyRotation(rotation) == rotation.sequence # 0 /\ {rotation.previous, rotation.new} \subseteq rotation.signers

verify_signed_profile(p) == p.signed_by = p.key

check_profile_expiry(p) == p.expires # None => now < p.expires + Grace

Seq0(sequence) == IF sequence = None THEN 0 ELSE sequence

validate_profile_write(p) == check_profile_expiry(p) /\ verify_signed_profile(p)

\* A new key needs a rotation from the registered one, an old key must not carry any.
KeyContinuity(existing, p) ==
    IF p.key = existing.key THEN p.rotation = None
    ELSE /\ p.rotation # None
         /\ p.rotation.previous = existing.key /\ p.rotation.new = p.key
         /\ p.rotation.identifier = p.alias
         /\ p.rotation.sequence = Seq0(p.sequence)
         /\ p.rotation.sequence = Seq0(existing.sequence) + 1
         /\ VerifyRotation(p.rotation)

\* Nothing older replaces anything newer; a sequence number that is there stays.
NotOlder(existing, p) ==
    /\ p.updated >= existing.updated
    /\ existing.sequence # None => p.sequence # None /\ p.sequence > existing.sequence

update_profile_for(p) ==
    /\ validate_profile_write(p)
    /\ registry[p.alias] # None => KeyContinuity(registry[p.alias], p) /\ NotOlder(registry[p.alias], p)

register_profile_for(p) == validate_profile_write(p) /\ registry[p.alias] = None

\* A revoked entry is an error to whoever asks.
resolve_alias(a) == IF registry[a] = None \/ registry[a].revoked THEN None ELSE registry[a]

--------------------------------------------------------------------------------
(* What the commands write *)

SaveKey(k) == [file |-> "identity", key |-> k]
SaveRegistry(p) == [file |-> "registry", profile |-> p]
SaveWallet(state) == [file |-> "wallet", state |-> state]
Broadcast(p) == [file |-> "relays", profile |-> p]

Idle == todo = <<>>
Readable == wallet # Torn

Run(writes) == todo' = writes /\ UNCHANGED <<registry, wallet, keystore, published, now>>

NewKey(command, k) ==
    /\ k = <<command, Cardinality(generated) + 1>>
    /\ k \in OwnKeys

\* A BOLT12 offer names the identity as its issuer.
build_methods(state) ==
    {[rail |-> r, issuer |-> IF r = "Bolt12" THEN state.identity ELSE None] : r \in state.rails}

\* The profile every wallet command signs: the next sequence number, no ownership proofs.
WalletProfile(state, rotation) ==
    [alias |-> state.alias, key |-> state.identity, signed_by |-> state.identity,
     sequence |-> (IF resolve_alias(state.alias) = None THEN 0
                   ELSE Seq0(resolve_alias(state.alias).sequence)) + 1,
     updated |-> now, expires |-> now + Life, methods |-> build_methods(state),
     rotation |-> rotation, proofs |-> {}, revoked |-> FALSE]

\* sign_and_store, then save_wallet.
SignAndStore(state) ==
    LET p == WalletProfile(state, None)
    IN  /\ build_methods(state) # {}
        /\ state.identity \in keystore
        /\ p.sequence <= MaxSeq
        /\ update_profile_for(p)
        /\ Run(<<SaveRegistry(p), SaveWallet(state)>>)
        /\ UNCHANGED generated

--------------------------------------------------------------------------------
(* Commands *)

cmd_wallet_init ==
    /\ Idle /\ Readable /\ wallet.identity = None
    /\ \E k \in OwnKeys :
          /\ NewKey("wallet", k)
          /\ generated' = generated \cup {k}
          /\ Run(<<SaveKey(k), SaveWallet([wallet EXCEPT !.identity = k])>>)

cmd_wallet_add_methods(a, r) ==
    /\ Idle /\ Readable /\ wallet.identity # None
    /\ SignAndStore([wallet EXCEPT !.alias = a, !.rails = @ \cup {r}])

\* add-lightning, add-bolt12, add-onchain, add-ark.
update_one(r) ==
    /\ Idle /\ Readable /\ wallet.identity # None /\ wallet.alias # None
    /\ SignAndStore([wallet EXCEPT !.rails = @ \cup {r}])

\* Mutant: the ownership proofs of the old identity are kept.
RotatedProfile_KeepProofs(state, rotation) ==
    [WalletProfile(state, rotation) EXCEPT
        !.proofs = IF registry[state.alias] = None THEN {} ELSE registry[state.alias].proofs]

RotatedProfile(state, rotation) == WalletProfile(state, rotation)

\* Mutant: the new key is saved last.
RotateWrites_KeyLast(k, state, p) == <<SaveRegistry(p), SaveWallet(state), SaveKey(k)>>

\* The new key, then the profile that names it, then the wallet.
RotateWrites(k, state, p) == <<SaveKey(k), SaveRegistry(p), SaveWallet(state)>>

\* The new key is on disk even when the rest is refused.
cmd_wallet_rotate ==
    /\ Idle /\ Readable
    /\ wallet.identity \in keystore
    /\ \E k \in OwnKeys :
          LET state == [wallet EXCEPT !.identity = k]
              sequence == WalletProfile(state, None).sequence
              p == RotatedProfile(state, KeyRotation(state.alias, wallet.identity, k, sequence))
          IN  /\ NewKey("wallet", k)
              /\ generated' = generated \cup {k}
              /\ IF state.alias # None /\ build_methods(state) # {} /\ update_profile_for(p)
                 THEN sequence <= MaxSeq /\ Run(RotateWrites(k, state, p))
                 ELSE Run(<<SaveKey(k)>>)

\* The registry is written before the key.
cmd_register(a, r) ==
    /\ Idle /\ registry[a] = None
    /\ \E k \in OwnKeys :
          LET p == [WalletProfile([identity |-> k, alias |-> a, rails |-> {"Lightning", r}], None)
                       EXCEPT !.sequence = 1]
          IN  /\ NewKey("register", k)
              /\ generated' = generated \cup {k}
              /\ register_profile_for(p)
              /\ Run(<<SaveRegistry(p), SaveKey(k), Broadcast(p)>>)

upsert_method_verification(proofs, proof) ==
    {q \in proofs : q.method # proof.method} \cup {proof}

\* The profile is signed again as it stands, its rotation statement included, so the registry
\* refuses this for a profile that has just been rotated.
cmd_attach_proof(a, r) ==
    LET e == resolve_alias(a)
        p == [e EXCEPT !.proofs = upsert_method_verification(@, [method |-> r, identity |-> e.key]),
                       !.updated = now, !.sequence = Seq0(@) + 1, !.signed_by = e.key]
    IN  /\ Idle /\ e # None
        /\ \E m \in e.methods : m.rail = r
        /\ e.key \in keystore
        /\ p.sequence <= MaxSeq
        /\ update_profile_for(p)
        /\ Run(<<SaveRegistry(p)>>) /\ UNCHANGED generated

cmd_import(p) ==
    /\ Idle
    /\ update_profile_for(p)
    /\ Run(<<SaveRegistry(p)>>) /\ UNCHANGED generated

\* wallet publish, export.  What somebody else signed is known already.
cmd_export(a) ==
    /\ Idle /\ resolve_alias(a) # None
    /\ verify_signed_profile(resolve_alias(a))
    /\ published' = published \cup {p \in {resolve_alias(a)} : p.key \in generated}
    /\ UNCHANGED <<registry, wallet, keystore, generated, todo, now>>

--------------------------------------------------------------------------------
(* The files and the environment *)

\* The next write of the command takes place; registry.json is replaced by a rename.
Write ==
    /\ todo # <<>>
    /\ LET w == Head(todo)
       IN  /\ registry' = IF w.file = "registry"
                          THEN [registry EXCEPT ![w.profile.alias] = w.profile] ELSE registry
           /\ keystore' = IF w.file = "identity" THEN keystore \cup {w.key} ELSE keystore
           /\ wallet' = IF w.file = "wallet" THEN w.state ELSE wallet
           /\ published' = IF w.file = "relays" THEN published \cup {w.profile} ELSE published
    /\ todo' = Tail(todo)
    /\ UNCHANGED <<generated, now>>

\* wallet.json is emptied before it is written.
TearWallet ==
    /\ todo # <<>> /\ Head(todo).file = "wallet"
    /\ wallet' = Torn
    /\ todo' = <<>>
    /\ UNCHANGED <<registry, keystore, generated, published, now>>

Crash ==
    /\ todo # <<>>
    /\ todo' = <<>>
    /\ UNCHANGED <<registry, wallet, keystore, generated, published, now>>

Tick ==
    /\ Idle /\ now < MaxTime
    /\ now' = now + 1
    /\ UNCHANGED <<registry, wallet, keystore, generated, todo, published>>

\* What somebody else can make up: their own signatures on anything, and what they have seen.
ForeignRotations(a) ==
    {[KeyRotation(a, k, Outsider, s) EXCEPT !.signers = {Outsider}] : k \in AllKeys, s \in 1 .. MaxSeq}
Forged ==
    {[alias |-> a, key |-> Outsider, signed_by |-> Outsider, sequence |-> s, updated |-> now,
      expires |-> None, methods |-> {}, rotation |-> t, proofs |-> {}, revoked |-> s = 1] :
        a \in Aliases, s \in {None} \cup 1 .. MaxSeq, t \in {None} \cup UNION {ForeignRotations(b) : b \in Aliases}}
Altered == {[p EXCEPT !.sequence = Seq0(@) + 1, !.signed_by = Outsider] : p \in published}

Next ==
    \/ cmd_wallet_init
    \/ \E a \in Aliases, r \in Rails : cmd_wallet_add_methods(a, r)
    \/ \E r \in Rails : update_one(r)
    \/ cmd_wallet_rotate
    \/ \E a \in Aliases, r \in Rails : cmd_register(a, r)
    \/ \E a \in Aliases, r \in Rails : cmd_attach_proof(a, r)
    \/ \E p \in Forged \cup Altered \cup published : cmd_import(p)
    \/ \E a \in Aliases : cmd_export(a)
    \/ Write
    \/ TearWallet
    \/ Crash
    \/ Tick

Spec == Init /\ [][Next]_vars

--------------------------------------------------------------------------------
(* Properties *)

\* An alias held by a key generated here never passes to a key of somebody else, whatever
\* profiles and rotation statements are imported, replayed or made up (update_profile_for).
NoTakeover ==
    [][\A a \in Aliases : registry[a] # None /\ registry[a].key \in generated =>
           registry'[a].key \in generated']_vars

\* Whenever the process dies, the wallet can still sign: the key wallet.json names, and the
\* key of every profile a wallet command stored, are in the keystore.
OwnKeysKept ==
    /\ wallet # Torn /\ wallet.identity # None => wallet.identity \in keystore
    /\ \A a \in Aliases :
          registry[a] # None /\ registry[a].key \in generated /\ registry[a].key[1] = "wallet" =>
              registry[a].key \in keystore

\* Every ownership proof stored for a profile of ours was made for the identity the profile now
\* has: a proof that names a replaced key would be shown as an invalid one.  So was the issuer
\* of its offers.
ProofsMatchIdentity ==
    \A a \in Aliases :
        registry[a] # None /\ registry[a].key \in generated =>
            /\ \A q \in registry[a].proofs : q.identity = registry[a].key
            /\ \A m \in registry[a].methods : m.issuer \in {None, registry[a].key}

================================================================================
