--------------------------- MODULE LocalWalletProofs ---------------------------
(***************************************************************************)
(* Machine-checked proofs about the receiver wallet's files, for any       *)
(* aliases, rails, lifetimes and bounds.                                   *)
(***************************************************************************)
EXTENDS LocalWallet, SequenceTheorems, TLAPS

\* Ownership proofs and offers name the identity of their profile.
Matches(p) ==
    /\ \A q \in p.proofs : q.identity = p.key
    /\ \A m \in p.methods : m.issuer \in {None, p.key}

ProfileFields == {"alias", "key", "signed_by", "sequence", "updated", "expires", "methods",
                  "rotation", "proofs", "revoked"}

WalletFields == {"identity", "alias", "rails"}

\* What holds of every profile, wherever it is.
Known(p) ==
    /\ DOMAIN p = ProfileFields
    /\ p.key \in generated \cup {Outsider}
    /\ p.key \in generated => Matches(p)

FromWallet(k) == k \in generated /\ k[1] = "wallet"

\* A key is on disk by the time the i-th write of the command takes place.
Written(i, k) == k \in keystore \/ \E j \in 1 .. i - 1 : todo[j] = SaveKey(k)

RegistryWrite(i) ==
    todo[i].file = "registry" =>
        /\ Known(todo[i].profile)
        /\ FromWallet(todo[i].profile.key) => Written(i, todo[i].profile.key)
        /\ \A a \in Aliases :
              a = todo[i].profile.alias /\ registry[a] # None /\ registry[a].key \in generated =>
                  todo[i].profile.key \in generated

OtherWrite(i) ==
    /\ todo[i].file = "identity" => todo[i].key \in generated
    /\ todo[i].file = "wallet" =>
          /\ DOMAIN todo[i].state = WalletFields
          /\ todo[i].state.identity # None => Written(i, todo[i].state.identity)
    /\ todo[i].file = "relays" =>
          /\ Known(todo[i].profile)
          /\ todo[i].profile.key \in generated
          /\ ~FromWallet(todo[i].profile.key)

TodoInv ==
    /\ \E S : todo \in Seq(S)
    /\ \A i \in 1 .. Len(todo) : RegistryWrite(i) /\ OtherWrite(i)
    /\ \A i, j \in 1 .. Len(todo) : todo[i].file = "registry" /\ todo[j].file = "registry" => i = j

\* A profile that is public or in the registry is one the wallet can still sign for.
Held(p) == Known(p) /\ (FromWallet(p.key) => p.key \in keystore)

FilesInv ==
    /\ generated \subseteq OwnKeys
    /\ keystore \subseteq generated
    /\ registry = [a \in Aliases |-> registry[a]]
    /\ \A a \in Aliases : registry[a] # None => Held(registry[a])
    /\ \A p \in published : Held(p) /\ p.key \in generated
    /\ wallet # Torn =>
          /\ DOMAIN wallet = WalletFields
          /\ wallet.identity # None => wallet.identity \in keystore

Inv == FilesInv /\ TodoInv

--------------------------------------------------------------------------------
(* Facts about profiles *)

\* Every profile the wallet signs names its own identity.
LEMMA WalletProfileMatches ==
    ASSUME NEW state, NEW rotation
    PROVE  LET p == WalletProfile(state, rotation)
           IN  /\ DOMAIN p = ProfileFields /\ Matches(p)
               /\ p.key = state.identity /\ p.alias = state.alias /\ p.proofs = {}
  BY DEF WalletProfile, build_methods, Matches, ProfileFields

\* Keys that are generated later are not the keys of profiles that exist.
LEMMA HeldStays ==
    ASSUME generated \subseteq generated', generated' \subseteq OwnKeys, keystore \subseteq keystore',
           NEW p, Held(p)
    PROVE  Held(p)'
<1>1. p.key \in generated' => p.key \in generated
  BY OutsiderAssumption DEF Held, Known
<1> QED BY <1>1 DEF Held, Known, FromWallet, Matches

\* What somebody else made up carries a foreign key, and takes no alias of ours.
LEMMA ForeignIsHarmless ==
    ASSUME FilesInv, NEW p \in Forged \cup Altered \cup published, update_profile_for(p)
    PROVE  /\ Held(p)
           /\ \A a \in Aliases : a = p.alias /\ registry[a] # None /\ registry[a].key \in generated =>
                  p.key \in generated
<1>1. CASE p \in published
  BY <1>1 DEF FilesInv
<1>2. CASE p \in Forged
  <2> PICK a \in Aliases, s \in {None} \cup 1 .. MaxSeq,
           t \in {None} \cup UNION {ForeignRotations(b) : b \in Aliases} :
           p = [alias |-> a, key |-> Outsider, signed_by |-> Outsider, sequence |-> s, updated |-> now,
                expires |-> None, methods |-> {}, rotation |-> t, proofs |-> {}, revoked |-> s = 1]
    BY <1>2 DEF Forged
  <2>1. p.key = Outsider /\ p.rotation = t /\ p.alias = a /\ DOMAIN p = ProfileFields
    BY DEF ProfileFields
  <2>2. Outsider \notin generated
    BY OutsiderAssumption DEF FilesInv
  <2>3. Held(p)
    BY <2>1, <2>2 DEF Held, Known, FromWallet
  <2>4. ASSUME t # None PROVE t.signers = {Outsider}
    <3>1. PICK b \in Aliases : t \in ForeignRotations(b)
      BY <2>4
    <3>2. PICK k \in AllKeys, n \in 1 .. MaxSeq :
              t = [KeyRotation(b, k, Outsider, n) EXCEPT !.signers = {Outsider}]
      BY <3>1 DEF ForeignRotations
    <3> QED BY <3>2 DEF KeyRotation
  <2>5. ASSUME registry[a] # None, registry[a].key \in generated PROVE FALSE
    <3>1. KeyContinuity(registry[a], p)
      BY <2>1, <2>5 DEF update_profile_for
    <3>2. t # None /\ t.previous = registry[a].key /\ VerifyRotation(t)
      BY <2>1, <2>2, <2>5, <3>1 DEF KeyContinuity
    <3> QED BY <2>2, <2>4, <2>5, <3>2 DEF VerifyRotation
  <2> QED BY <2>1, <2>3, <2>5
<1>3. CASE p \in Altered
  <2> PICK q \in published : p = [q EXCEPT !.sequence = Seq0(q.sequence) + 1, !.signed_by = Outsider]
    BY <1>3 DEF Altered
  <2>1. DOMAIN q = ProfileFields /\ q.key \in generated
    BY DEF FilesInv, Held, Known
  <2>2. p.signed_by = Outsider /\ p.key = q.key
    BY <2>1 DEF ProfileFields
  <2>3. p.signed_by = p.key
    BY DEF update_profile_for, validate_profile_write, verify_signed_profile
  <2> QED BY <2>1, <2>2, <2>3, OutsiderAssumption DEF FilesInv
<1> QED BY <1>1, <1>2, <1>3

--------------------------------------------------------------------------------
(* Writes *)

\* The files keep their invariant when a command starts.
LEMMA CommandStarts ==
    ASSUME Inv, NEW ws, Run(ws), generated \subseteq generated', generated' \subseteq OwnKeys, TodoInv'
    PROVE  Inv'
<1>1. UNCHANGED <<registry, wallet, keystore, published>>
  BY DEF Run
<1>2. \A p : Held(p) => Held(p)'
  BY <1>1, HeldStays
<1>3. FilesInv'
  BY <1>1, <1>2 DEF Inv, FilesInv
<1> QED BY <1>3 DEF Inv

\* The next write of a command keeps the invariant: what it needs has been written before it.
LEMMA WriteKeepsInv ==
    ASSUME Inv, Write
    PROVE  Inv'
<1> PICK S : todo \in Seq(S)
  BY DEF Inv, TodoInv
<1> DEFINE w == Head(todo)
<1>1. /\ w = todo[1] /\ 1 \in 1 .. Len(todo) /\ Len(todo) \in Nat
      /\ todo' \in Seq(S) /\ Len(todo') = Len(todo) - 1
      /\ \A i \in 1 .. Len(todo') : todo'[i] = todo[i + 1] /\ i + 1 \in 1 .. Len(todo)
  BY DEF Write
<1>2. /\ registry' = IF w.file = "registry" THEN [registry EXCEPT ![w.profile.alias] = w.profile] ELSE registry
      /\ keystore' = IF w.file = "identity" THEN keystore \cup {w.key} ELSE keystore
      /\ wallet' = IF w.file = "wallet" THEN w.state ELSE wallet
      /\ published' = IF w.file = "relays" THEN published \cup {w.profile} ELSE published
      /\ UNCHANGED generated
  BY DEF Write
<1>3. RegistryWrite(1) /\ OtherWrite(1)
  BY <1>1 DEF Inv, TodoInv
<1>4. \A k : Written(1, k) => k \in keystore
  BY DEF Written
<1>5. \A p : (Known(p) => Known(p)') /\ (Held(p) => Held(p)')
  BY <1>2 DEF Known, Held, FromWallet, Matches
<1>6. FilesInv'
  <2>1. generated' \subseteq OwnKeys /\ keystore' \subseteq generated'
    BY <1>1, <1>2, <1>3 DEF Inv, FilesInv, OtherWrite
  <2>2. registry' = [a \in Aliases |-> registry'[a]]
    BY <1>2 DEF Inv, FilesInv
  <2>3. (\A a \in Aliases : registry[a] # None => Held(registry[a]))'
    <3>1. CASE w.file = "registry"
      <4>1. Held(w.profile)
        BY <1>1, <1>3, <1>4, <3>1 DEF RegistryWrite, Held
      <4>2. \A a \in Aliases : registry'[a] = IF a = w.profile.alias THEN w.profile ELSE registry[a]
        BY <1>2, <3>1 DEF Inv, FilesInv
      <4> QED BY <1>2, <3>1, <4>1, <4>2 DEF Inv, FilesInv, Held, Known, FromWallet, Matches
    <3>2. CASE w.file # "registry"
      BY <1>2, <3>2 DEF Inv, FilesInv, Held, Known, FromWallet, Matches
    <3> QED BY <3>1, <3>2
  <2>4. (\A p \in published : Held(p) /\ p.key \in generated)'
    <3>1. w.file = "relays" => Held(w.profile) /\ w.profile.key \in generated
      BY <1>1, <1>3 DEF OtherWrite, Held
    <3> QED BY <1>2, <1>5, <3>1 DEF Inv, FilesInv
  <2>5. (wallet # Torn => /\ DOMAIN wallet = WalletFields
                          /\ wallet.identity # None => wallet.identity \in keystore)'
    BY <1>1, <1>2, <1>3, <1>4 DEF Inv, FilesInv, OtherWrite
  <2> QED BY <2>1, <2>2, <2>3, <2>4, <2>5 DEF FilesInv
<1>7. ASSUME NEW i \in 1 .. Len(todo') PROVE RegistryWrite(i)' /\ OtherWrite(i)'
  <2>1. RegistryWrite(i + 1) /\ OtherWrite(i + 1) /\ todo'[i] = todo[i + 1]
    BY <1>1 DEF Inv, TodoInv
  <2>2. ASSUME NEW k, Written(i + 1, k) PROVE Written(i, k)'
    <3>1. CASE k \in keystore
      BY <1>2, <3>1 DEF Written
    <3>2. ASSUME NEW j \in 1 .. i, todo[j] = SaveKey(k) PROVE Written(i, k)'
      <4>1. CASE j = 1
        BY <1>1, <1>2, <3>2, <4>1 DEF Written, SaveKey
      <4>2. CASE j # 1
        <5>1. j - 1 \in 1 .. i - 1 /\ j - 1 \in 1 .. Len(todo') /\ (j - 1) + 1 = j
          BY <1>1, <4>2
        <5> QED BY <1>1, <3>2, <5>1 DEF Written, SaveKey
      <4> QED BY <4>1, <4>2
    <3>3. (i + 1) - 1 = i
      BY <1>1
    <3> QED BY <2>2, <3>1, <3>2, <3>3 DEF Written
  <2>3. RegistryWrite(i)'
    <3>1. SUFFICES ASSUME todo[i + 1].file = "registry" PROVE RegistryWrite(i)'
      BY <2>1 DEF RegistryWrite
    <3>2. w.file # "registry"
      BY <1>1, <3>1 DEF Inv, TodoInv
    <3> QED BY <1>2, <1>5, <2>1, <2>2, <3>1, <3>2 DEF RegistryWrite, FromWallet
  <2>4. OtherWrite(i)'
    BY <1>2, <1>5, <2>1, <2>2 DEF OtherWrite, FromWallet
  <2> QED BY <2>3, <2>4
<1>8. \A i, j \in 1 .. Len(todo') : todo'[i].file = "registry" /\ todo'[j].file = "registry" => i = j
  BY <1>1 DEF Inv, TodoInv
<1> QED BY <1>1, <1>6, <1>7, <1>8 DEF Inv, TodoInv

--------------------------------------------------------------------------------
(* Commands *)

\* A write of a profile under a key generated here that is on disk, or will be by then.
LEMMA OwnProfileWrite ==
    ASSUME NEW i, NEW p, todo'[i] = SaveRegistry(p), DOMAIN p = ProfileFields, Matches(p),
           p.key \in generated', Written(i, p.key)' \/ ~FromWallet(p.key)'
    PROVE  (RegistryWrite(i) /\ OtherWrite(i))'
  BY DEF RegistryWrite, OtherWrite, SaveRegistry, Known, Matches

LEMMA KeyWrite ==
    ASSUME NEW i, NEW k, todo'[i] = SaveKey(k), k \in generated'
    PROVE  (RegistryWrite(i) /\ OtherWrite(i))'
  BY DEF RegistryWrite, OtherWrite, SaveKey

LEMMA WalletWrite ==
    ASSUME NEW i, NEW state, todo'[i] = SaveWallet(state), DOMAIN state = WalletFields,
           Written(i, state.identity)'
    PROVE  (RegistryWrite(i) /\ OtherWrite(i))'
  BY DEF RegistryWrite, OtherWrite, SaveWallet

\* sign_and_store with a key on disk.
LEMMA SignAndStoreKeepsInv ==
    ASSUME Inv, NEW state, DOMAIN state = WalletFields, SignAndStore(state)
    PROVE  Inv'
<1> DEFINE p == WalletProfile(state, None)
<1>1. /\ state.identity \in keystore /\ UNCHANGED generated
      /\ Run(<<SaveRegistry(p), SaveWallet(state)>>)
  BY DEF SignAndStore
<1>2. UNCHANGED keystore /\ todo' = <<SaveRegistry(p), SaveWallet(state)>>
  BY <1>1 DEF Run
<1>3. DOMAIN p = ProfileFields /\ Matches(p) /\ p.key = state.identity
  BY WalletProfileMatches
<1>4. /\ state.identity \in generated'
      /\ \A i : Written(i, state.identity)'
  BY <1>1, <1>2 DEF Inv, FilesInv, Written
<1> HIDE DEF p
<1>5. todo' \in Seq({SaveRegistry(p), SaveWallet(state)}) /\ Len(todo') = 2
  BY <1>2
<1>6. ASSUME NEW i \in 1 .. Len(todo') PROVE (RegistryWrite(i) /\ OtherWrite(i))'
  <2>1. CASE i = 1
    <3>1. todo'[i] = SaveRegistry(p)
      BY <1>2, <2>1
    <3> QED BY <3>1, <1>3, <1>4, OwnProfileWrite
  <2>2. CASE i = 2
    <3>1. todo'[i] = SaveWallet(state)
      BY <1>2, <2>2
    <3> QED BY <3>1, <1>4, WalletWrite
  <2> QED BY <1>5, <2>1, <2>2
<1>7. \A i, j \in 1 .. Len(todo') : todo'[i].file = "registry" /\ todo'[j].file = "registry" => i = j
  BY <1>2 DEF SaveRegistry, SaveWallet
<1> QED BY <1>1, <1>5, <1>6, <1>7, CommandStarts DEF Inv, FilesInv, TodoInv

\* The new key precedes the wallet that names it.
LEMMA InitKeepsInv ==
    ASSUME Inv, cmd_wallet_init
    PROVE  Inv'
<1> PICK k \in OwnKeys :
        /\ generated' = generated \cup {k}
        /\ Run(<<SaveKey(k), SaveWallet([wallet EXCEPT !.identity = k])>>)
  BY DEF cmd_wallet_init
<1> DEFINE state == [wallet EXCEPT !.identity = k]
<1>1. state.identity = k /\ DOMAIN state = WalletFields
  BY DEF Inv, FilesInv, WalletFields, cmd_wallet_init, Readable
<1> HIDE DEF state
<1>2. todo' = <<SaveKey(k), SaveWallet(state)>>
  BY DEF Run, state
<1>3. todo' \in Seq({SaveKey(k), SaveWallet(state)}) /\ Len(todo') = 2
  BY <1>2
<1>4. ASSUME NEW i \in 1 .. Len(todo') PROVE (RegistryWrite(i) /\ OtherWrite(i))'
  <2>1. CASE i = 1
    <3>1. todo'[i] = SaveKey(k)
      BY <1>2, <2>1
    <3> QED BY <3>1, KeyWrite
  <2>2. CASE i = 2
    <3>1. todo'[i] = SaveWallet(state) /\ todo'[1] = SaveKey(k) /\ 1 \in 1 .. i - 1
      BY <1>2, <2>2
    <3>2. Written(i, k)'
      BY <3>1 DEF Written
    <3> QED BY <3>1, <3>2, <1>1, WalletWrite
  <2> QED BY <1>3, <2>1, <2>2
<1>5. \A i, j \in 1 .. Len(todo') : todo'[i].file = "registry" /\ todo'[j].file = "registry" => i = j
  BY <1>2 DEF SaveKey, SaveWallet
<1>6. TodoInv'
  BY <1>3, <1>4, <1>5 DEF TodoInv
<1> QED BY <1>6, CommandStarts DEF Inv, FilesInv

LEMMA AddMethodsKeepsInv ==
    ASSUME Inv, \/ \E a \in Aliases, r \in Rails : cmd_wallet_add_methods(a, r)
                \/ \E r \in Rails : update_one(r)
    PROVE  Inv'
<1>1. wallet # Torn /\ DOMAIN wallet = WalletFields
  BY DEF Inv, FilesInv, cmd_wallet_add_methods, update_one, Readable
<1>2. ASSUME NEW a \in Aliases, NEW r \in Rails, cmd_wallet_add_methods(a, r) PROVE Inv'
  <2>1. SignAndStore([wallet EXCEPT !.alias = a, !.rails = wallet.rails \cup {r}])
    BY <1>2 DEF cmd_wallet_add_methods
  <2>2. DOMAIN [wallet EXCEPT !.alias = a, !.rails = wallet.rails \cup {r}] = WalletFields
    BY <1>1
  <2> QED BY <2>1, <2>2, SignAndStoreKeepsInv
<1>3. ASSUME NEW r \in Rails, update_one(r) PROVE Inv'
  <2>1. SignAndStore([wallet EXCEPT !.rails = wallet.rails \cup {r}])
    BY <1>3 DEF update_one
  <2>2. DOMAIN [wallet EXCEPT !.rails = wallet.rails \cup {r}] = WalletFields
    BY <1>1
  <2> QED BY <2>1, <2>2, SignAndStoreKeepsInv
<1> QED BY <1>2, <1>3

\* A rotation writes the new key before the profile and the wallet that name it.
LEMMA RotateKeepsInv ==
    ASSUME Inv, cmd_wallet_rotate
    PROVE  Inv'
<1> PICK k \in OwnKeys :
        LET state == [wallet EXCEPT !.identity = k]
            sequence == WalletProfile(state, None).sequence
            p == RotatedProfile(state, KeyRotation(state.alias, wallet.identity, k, sequence))
        IN  /\ generated' = generated \cup {k}
            /\ Run(RotateWrites(k, state, p)) \/ Run(<<SaveKey(k)>>)
  BY DEF cmd_wallet_rotate
<1> DEFINE state == [wallet EXCEPT !.identity = k]
           rotation == KeyRotation(state.alias, wallet.identity, k, WalletProfile(state, None).sequence)
           p == RotatedProfile(state, rotation)
<1>1. state.identity = k /\ DOMAIN state = WalletFields
  BY DEF Inv, FilesInv, WalletFields, cmd_wallet_rotate, Readable
<1>2. DOMAIN p = ProfileFields /\ Matches(p) /\ p.key = k
  BY <1>1, WalletProfileMatches DEF RotatedProfile
<1>3. generated' = generated \cup {k} /\ (Run(RotateWrites(k, state, p)) \/ Run(<<SaveKey(k)>>))
  OBVIOUS
<1> HIDE DEF state, p, rotation
<1>4. CASE Run(<<SaveKey(k)>>)
  <2>1. todo' = <<SaveKey(k)>>
    BY <1>4 DEF Run
  <2>2. todo' \in Seq({SaveKey(k)}) /\ Len(todo') = 1
    BY <2>1
  <2>3. ASSUME NEW i \in 1 .. Len(todo') PROVE (RegistryWrite(i) /\ OtherWrite(i))'
    <3>1. todo'[i] = SaveKey(k)
      BY <2>1, <2>2
    <3> QED BY <3>1, <1>3, KeyWrite
  <2>4. \A i, j \in 1 .. Len(todo') : todo'[i].file = "registry" /\ todo'[j].file = "registry" => i = j
    BY <2>2
  <2>5. TodoInv'
    BY <2>2, <2>3, <2>4 DEF TodoInv
  <2> QED BY <1>3, <1>4, <2>5, CommandStarts DEF Inv, FilesInv
<1>5. CASE Run(RotateWrites(k, state, p))
  <2>1. todo' = <<SaveKey(k), SaveRegistry(p), SaveWallet(state)>>
    BY <1>5 DEF Run, RotateWrites
  <2>2. todo' \in Seq({SaveKey(k), SaveRegistry(p), SaveWallet(state)}) /\ Len(todo') = 3
    BY <2>1
  <2>3. ASSUME NEW i \in 1 .. Len(todo') PROVE (RegistryWrite(i) /\ OtherWrite(i))'
    <3>1. CASE i = 1
      <4>1. todo'[i] = SaveKey(k)
        BY <2>1, <3>1
      <4> QED BY <4>1, <1>3, KeyWrite
    <3>2. CASE i \in {2, 3}
      <4>1. todo'[1] = SaveKey(k) /\ 1 \in 1 .. i - 1
        BY <2>1, <3>2
      <4>2. Written(i, k)'
        BY <4>1 DEF Written
      <4>3. (i = 2 => todo'[i] = SaveRegistry(p)) /\ (i = 3 => todo'[i] = SaveWallet(state))
        BY <2>1
      <4>4. CASE i = 2
        BY <1>2, <1>3, <4>2, <4>3, <4>4, OwnProfileWrite
      <4>5. CASE i = 3
        BY <1>1, <4>2, <4>3, <4>5, WalletWrite
      <4> QED BY <3>2, <4>4, <4>5
    <3> QED BY <2>2, <3>1, <3>2
  <2>4. \A i, j \in 1 .. Len(todo') : todo'[i].file = "registry" /\ todo'[j].file = "registry" => i = j
    BY <2>1 DEF SaveKey, SaveWallet, SaveRegistry
  <2>5. TodoInv'
    BY <2>2, <2>3, <2>4 DEF TodoInv
  <2> QED BY <1>3, <1>5, <2>5, CommandStarts DEF Inv, FilesInv
<1> QED BY <1>3, <1>4, <1>5

\* register writes the registry first; its keys are not the wallet's.
LEMMA RegisterKeepsInv ==
    ASSUME Inv, NEW a \in Aliases, NEW r \in Rails, cmd_register(a, r)
    PROVE  Inv'
<1> PICK k \in OwnKeys :
        LET p == [WalletProfile([identity |-> k, alias |-> a, rails |-> {"Lightning", r}], None)
                     EXCEPT !.sequence = 1]
        IN  /\ NewKey("register", k)
            /\ generated' = generated \cup {k}
            /\ Run(<<SaveRegistry(p), SaveKey(k), Broadcast(p)>>)
  BY DEF cmd_register
<1> DEFINE state == [identity |-> k, alias |-> a, rails |-> {"Lightning", r}]
           full == WalletProfile(state, None)
           p == [full EXCEPT !.sequence = 1]
<1>1. DOMAIN full = ProfileFields /\ Matches(full) /\ full.key = k
  BY WalletProfileMatches
<1>2. DOMAIN p = ProfileFields /\ p.key = k /\ p.proofs = full.proofs /\ p.methods = full.methods
  <2> HIDE DEF full
  <2> QED BY <1>1 DEF ProfileFields
<1>3. Matches(p)
  BY <1>1, <1>2 DEF Matches
<1>4. k[1] = "register"
  BY DEF NewKey
<1>5. ~FromWallet(k)'
  BY <1>4 DEF FromWallet
<1>6. /\ generated' = generated \cup {k}
      /\ Run(<<SaveRegistry(p), SaveKey(k), Broadcast(p)>>)
  OBVIOUS
<1> HIDE DEF p
<1>7. todo' = <<SaveRegistry(p), SaveKey(k), Broadcast(p)>>
  BY <1>6 DEF Run
<1>8. todo' \in Seq({SaveRegistry(p), SaveKey(k), Broadcast(p)}) /\ Len(todo') = 3
  BY <1>7
<1>9. ASSUME NEW i \in 1 .. Len(todo') PROVE (RegistryWrite(i) /\ OtherWrite(i))'
  <2>1. /\ i = 1 => todo'[i] = SaveRegistry(p)
        /\ i = 2 => todo'[i] = SaveKey(k)
        /\ i = 3 => todo'[i] = Broadcast(p)
        /\ i \in {1, 2, 3}
    BY <1>7, <1>8
  <2>2. CASE i = 1
    BY <1>2, <1>3, <1>5, <1>6, <2>1, <2>2, OwnProfileWrite
  <2>3. CASE i = 2
    BY <1>6, <2>1, <2>3, KeyWrite
  <2>4. CASE i = 3
    <3>1. todo'[i].file = "relays" /\ todo'[i].profile = p
      BY <2>1, <2>4 DEF Broadcast
    <3> QED BY <1>2, <1>3, <1>5, <1>6, <3>1 DEF RegistryWrite, OtherWrite, Known, Matches
  <2> QED BY <2>1, <2>2, <2>3, <2>4
<1>10. \A i, j \in 1 .. Len(todo') : todo'[i].file = "registry" /\ todo'[j].file = "registry" => i = j
  BY <1>7 DEF SaveRegistry, SaveKey, Broadcast
<1>11. TodoInv'
  BY <1>8, <1>9, <1>10 DEF TodoInv
<1> QED BY <1>6, <1>11, CommandStarts DEF Inv, FilesInv

\* One profile is written to the registry.
LEMMA ProfileWriteKeepsInv ==
    ASSUME Inv, NEW p, Run(<<SaveRegistry(p)>>), UNCHANGED generated, Held(p),
           \A a \in Aliases : a = p.alias /\ registry[a] # None /\ registry[a].key \in generated =>
               p.key \in generated
    PROVE  Inv'
<1>1. todo' = <<SaveRegistry(p)>> /\ UNCHANGED <<keystore, registry>>
  BY DEF Run
<1>2. todo' \in Seq({SaveRegistry(p)}) /\ Len(todo') = 1
  BY <1>1
<1>3. ASSUME NEW i \in 1 .. Len(todo') PROVE (RegistryWrite(i) /\ OtherWrite(i))'
  <2>1. todo'[i] = SaveRegistry(p)
    BY <1>1, <1>2
  <2> QED BY <1>1, <2>1
          DEF RegistryWrite, OtherWrite, SaveRegistry, Held, Known, Matches, FromWallet, Written
<1>4. \A i, j \in 1 .. Len(todo') : todo'[i].file = "registry" /\ todo'[j].file = "registry" => i = j
  BY <1>2
<1>5. TodoInv'
  BY <1>2, <1>3, <1>4 DEF TodoInv
<1> QED BY <1>5, CommandStarts DEF Inv, FilesInv

\* An attached proof names the key of the profile it is attached to.
LEMMA AttachKeepsInv ==
    ASSUME Inv, NEW a \in Aliases, NEW r \in Rails, cmd_attach_proof(a, r)
    PROVE  Inv'
<1> DEFINE e == resolve_alias(a)
           proofs == upsert_method_verification(e.proofs, [method |-> r, identity |-> e.key])
           p == [e EXCEPT !.proofs = proofs, !.updated = now, !.sequence = Seq0(e.sequence) + 1,
                          !.signed_by = e.key]
<1>1. e # None /\ Run(<<SaveRegistry(p)>>) /\ UNCHANGED generated
  BY DEF cmd_attach_proof
<1>2. e = registry[a] /\ Held(e)
  BY <1>1 DEF resolve_alias, Inv, FilesInv
<1>3. \A q \in proofs : q \in e.proofs \/ q.identity = e.key
  BY DEF upsert_method_verification
<1>4. Held(p) /\ p.key = e.key /\ p.alias = e.alias
  <2> HIDE DEF e, proofs
  <2>1. DOMAIN e = ProfileFields
    BY <1>2 DEF Held, Known
  <2>2. /\ DOMAIN p = ProfileFields /\ p.key = e.key /\ p.alias = e.alias
        /\ p.proofs = proofs /\ p.methods = e.methods
    BY <2>1 DEF ProfileFields
  <2> QED BY <1>2, <1>3, <2>2 DEF Held, Known, FromWallet, Matches
<1>5. p.key \in generated
  BY <1>4 DEF cmd_attach_proof, Inv, FilesInv
<1> HIDE DEF p
<1> QED BY <1>1, <1>4, <1>5, ProfileWriteKeepsInv

\* What is handed over from outside takes no alias of ours.
LEMMA ImportKeepsInv ==
    ASSUME Inv, NEW p \in Forged \cup Altered \cup published, cmd_import(p)
    PROVE  Inv'
<1>1. update_profile_for(p) /\ Run(<<SaveRegistry(p)>>) /\ UNCHANGED generated
  BY DEF cmd_import
<1>2. /\ Held(p)
      /\ \A a \in Aliases : a = p.alias /\ registry[a] # None /\ registry[a].key \in generated =>
             p.key \in generated
  BY <1>1, ForeignIsHarmless DEF Inv
<1> QED BY <1>1, <1>2, ProfileWriteKeepsInv

\* What is published is what the registry holds.
LEMMA ExportKeepsInv ==
    ASSUME Inv, NEW a \in Aliases, cmd_export(a)
    PROVE  Inv'
<1>1. /\ UNCHANGED <<registry, wallet, keystore, generated, todo>>
      /\ published' = published \cup {p \in {registry[a]} : p.key \in generated}
      /\ registry[a] # None
  BY DEF cmd_export, resolve_alias
<1>2. \A p : (Known(p) => Known(p)') /\ (Held(p) => Held(p)')
  BY <1>1 DEF Known, Held, FromWallet, Matches
<1>3. FilesInv'
  BY <1>1, <1>2 DEF Inv, FilesInv
<1>4. TodoInv'
  BY <1>1 DEF Inv, TodoInv, RegistryWrite, OtherWrite, Written, Known, FromWallet, Matches
<1> QED BY <1>3, <1>4 DEF Inv

\* A command that dies leaves files that agree.
LEMMA CrashKeepsInv ==
    ASSUME Inv, TearWallet \/ Crash
    PROVE  Inv'
<1>1. /\ UNCHANGED <<registry, keystore, generated, published>>
      /\ todo' = <<>> /\ wallet' \in {wallet, Torn}
  BY DEF TearWallet, Crash
<1>2. \A p : Held(p) => Held(p)'
  BY <1>1 DEF Known, Held, FromWallet, Matches
<1>3. FilesInv'
  BY <1>1, <1>2 DEF Inv, FilesInv
<1>4. TodoInv'
  <2>1. todo' \in Seq({}) /\ Len(todo') = 0
    BY <1>1
  <2> QED BY <2>1 DEF TodoInv
<1> QED BY <1>3, <1>4 DEF Inv

\* Time, and a step that changes nothing.
LEMMA IdleKeepsInv ==
    ASSUME Inv, UNCHANGED <<registry, wallet, keystore, generated, todo, published>>
    PROVE  Inv'
<1>1. \A p : Held(p) => Held(p)'
  BY DEF Known, Held, FromWallet, Matches
<1>2. FilesInv'
  BY <1>1 DEF Inv, FilesInv
<1>3. TodoInv'
  BY DEF Inv, TodoInv, RegistryWrite, OtherWrite, Written, Known, FromWallet, Matches
<1> QED BY <1>2, <1>3 DEF Inv

--------------------------------------------------------------------------------
(* The theorems *)

LEMMA InitInv == Init => Inv
<1> SUFFICES ASSUME Init PROVE Inv
  OBVIOUS
<1>1. FilesInv
  BY DEF Init, FilesInv, NoWallet, WalletFields
<1>2. TodoInv
  <2>1. todo \in Seq({}) /\ Len(todo) = 0
    BY DEF Init
  <2> QED BY <2>1 DEF TodoInv
<1> QED BY <1>1, <1>2 DEF Inv

LEMMA NextInv == Inv /\ [Next]_vars => Inv'
<1> SUFFICES ASSUME Inv, [Next]_vars PROVE Inv'
  OBVIOUS
<1>1. CASE cmd_wallet_init
  BY <1>1, InitKeepsInv
<1>2. CASE \E a \in Aliases, r \in Rails : cmd_wallet_add_methods(a, r)
  BY <1>2, AddMethodsKeepsInv
<1>3. CASE \E r \in Rails : update_one(r)
  BY <1>3, AddMethodsKeepsInv
<1>4. CASE cmd_wallet_rotate
  BY <1>4, RotateKeepsInv
<1>5. CASE \E a \in Aliases, r \in Rails : cmd_register(a, r)
  BY <1>5, RegisterKeepsInv
<1>6. CASE \E a \in Aliases, r \in Rails : cmd_attach_proof(a, r)
  BY <1>6, AttachKeepsInv
<1>7. CASE \E p \in Forged \cup Altered \cup published : cmd_import(p)
  BY <1>7, ImportKeepsInv
<1>8. CASE \E a \in Aliases : cmd_export(a)
  BY <1>8, ExportKeepsInv
<1>9. CASE Write
  BY <1>9, WriteKeepsInv
<1>10. CASE TearWallet \/ Crash
  BY <1>10, CrashKeepsInv
<1>11. CASE Tick
  BY <1>11, IdleKeepsInv DEF Tick
<1>12. CASE UNCHANGED vars
  BY <1>12, IdleKeepsInv DEF vars
<1> QED BY <1>1, <1>2, <1>3, <1>4, <1>5, <1>6, <1>7, <1>8, <1>9, <1>10, <1>11, <1>12 DEF Next

LEMMA Invariance == Spec => []Inv
  BY InitInv, NextInv, PTL DEF Spec

\* Whenever the process dies, and whatever was imported, the keys that wallet.json and the
\* wallet's registered profiles name can be loaded (the order of the writes of wallet.rs).
THEOREM OwnKeysKeptHolds == Spec => []OwnKeysKept
<1>1. Inv => OwnKeysKept
  BY DEF Inv, FilesInv, Held, FromWallet, OwnKeysKept
<1> QED BY <1>1, Invariance, PTL

\* The ownership proofs and offers stored with a profile of ours name the identity it now has,
\* after any sequence of rotations, attached proofs and imports.
THEOREM ProofsMatchIdentityHolds == Spec => []ProofsMatchIdentity
<1>1. Inv => ProofsMatchIdentity
  BY DEF Inv, FilesInv, Held, Known, Matches, ProofsMatchIdentity
<1> QED BY <1>1, Invariance, PTL

\* The registry rules of update_profile_for are enough: no import, replayed or made up, moves an
\* alias from a key generated here to a key of somebody else.
THEOREM NoTakeoverHolds == Spec => NoTakeover
<1> DEFINE Step == \A a \in Aliases : registry[a] # None /\ registry[a].key \in generated =>
                      registry'[a].key \in generated'
<1>1. Inv /\ [Next]_vars => [Step]_vars
  <2> SUFFICES ASSUME Inv, Next PROVE Step
    OBVIOUS
  <2>1. CASE Write
    <3> PICK S : todo \in Seq(S)
      BY DEF Inv, TodoInv
    <3>1. Head(todo) = todo[1] /\ 1 \in 1 .. Len(todo)
      BY <2>1 DEF Write
    <3>2. RegistryWrite(1)
      BY <3>1 DEF Inv, TodoInv
    <3> QED BY <2>1, <3>1, <3>2 DEF Write, RegistryWrite, Inv, FilesInv
  <2>2. ASSUME ~Write PROVE UNCHANGED registry /\ generated \subseteq generated'
    BY <2>2 DEF Next, cmd_wallet_init, cmd_wallet_add_methods, update_one, cmd_wallet_rotate,
                cmd_register, cmd_attach_proof, cmd_import, cmd_export, TearWallet, Crash, Tick,
                SignAndStore, Run
  <2> QED BY <2>1, <2>2
<1> QED BY <1>1, Invariance, PTL DEF Spec, NoTakeover

================================================================================
