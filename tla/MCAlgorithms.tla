------------------------------ MODULE MCAlgorithms -----------------------------
(***************************************************************************)
(* The pure algorithms, each checked on every input of a small set: one    *)
(* state is one input.  Properties compare what the code computes with     *)
(* what it is for.  Two machines run here too: the payment requests, which *)
(* use most of these algorithms, and the rate limiter.  They share only    *)
(* the start: from it exactly one of the three goes on.                    *)
(***************************************************************************)
EXTENDS MCPayments, RateLimiter

CONSTANTS
    Down, Empty, Infinity,           \* Resolvers, MerkleTree, SilentPayments
    l1, l2, l3, l4, l5, l6, l7, l8,  \* leaves of the tree of events
    forged                           \* a leaf that is in no tree

VARIABLE case

Start == [kind |-> "start", input |-> None]
AnyInit == case = Start /\ LimiterInit /\ Init

LimiterResting ==
    /\ seconds = 0 /\ window = << >>
    /\ \A w \in Workers : worker[w].pc = "idle"
PaymentsResting == clock = 0 /\ \A q \in Fetches : request[q].pc = "new"

\* The inputs are tried, and requests made, beside one configuration of the limiter.
Untouched ==
    /\ case = Start /\ LimiterResting /\ trust_proxy_headers /\ PaymentsResting
    /\ UNCHANGED <<lvars, vars>>

Try(kind, inputs) == Untouched /\ \E i \in inputs : case' = [kind |-> kind, input |-> i]

Is(kind) == case.kind = kind
Input == case.input

--------------------------------------------------------------------------------
(* BOLT12's codec, with bytes of two bits so that short numbers reach every length prefix *)

Small == INSTANCE Bolt12 WITH Base <- 4, KeyLen <- 1

Numbers == Try("number", 0 .. 300)

SmallRecords == {Record(t, v) : t \in {0, 1, 5, 20}, v \in {<<>>, <<3>>, <<0, 1>>}}
Streams == Try("stream", SeqOf(SmallRecords, 2))

Hops == {[node |-> <<n>>, payload |-> p] : n \in {0, 3}, p \in {<<>>, <<2>>, <<1, 3>>}}
Paths == Try("path", [introduction : {<<0>>, <<3>>}, blinding : {None, <<2>>}, hops : SeqOf(Hops, 2)])

Invoices == Try("invoice", [amount_msats : {0, 1, 255, 256, 65536}, created_at : {0, 3},
                            relative_expiry : {None, 0, 2}, absolute_expiry : {None}])

\* What the encoders write is what the decoders read, at every length prefix: numbers, TLV
\* streams (sorted by tag, nothing lost, a cut stream never mistaken for a longer one), blinded
\* paths with bytes after them, requests and invoices, whose expiry survives the trip.
CodecRoundTrip ==
    /\ Is("number") =>
           /\ Small!read_bigsize(Small!write_bigsize(Input) \o <<1>>) = [ok |-> TRUE, value |-> Input, rest |-> <<1>>]
           /\ Small!read_tu64(Small!write_tu64(Input)) = Input
    /\ Is("stream") =>
           LET bytes == Small!encode_tlv_stream(Input)
               decoded == Small!decode_tlv_stream[bytes]
               out == decoded.records
               Count(seq, r) == Cardinality({i \in DOMAIN seq : seq[i] = r})
           IN  /\ decoded.ok
               /\ \A r \in Range(Input) : Count(out, r) = Count(Input, r)
               /\ Len(out) = Len(Input)
               /\ \A i, j \in DOMAIN out : i < j => out[i].tag <= out[j].tag
               /\ \A n \in 0 .. Len(bytes) - 1 :
                     LET cut == Small!decode_tlv_stream[SubSeq(bytes, 1, n)]
                     IN  cut.ok => IsStrictPrefix(cut.records, out)
    /\ Is("path") =>
           LET read == Small!DecodeBlindedPath(Small!BlindedPathBytes(Input) \o <<1>>)
           IN  read = [ok |-> TRUE, path |-> [Input EXCEPT !.blinding = IF @ = None THEN <<0>> ELSE @]]
    /\ Is("invoice") =>
           LET parsed == parse_bolt12_invoice(EncodeInvoice(Input))
               wanted == [offer |-> [hrp |-> "lno", data |-> <<>>], amount_msats |-> Input.amount_msats,
                          quantity |-> Input.relative_expiry]
               asked == parse_bolt12_invoice_request(EncodeInvoiceRequest(wanted))
           IN  /\ asked = [ok |-> TRUE, amount_msats |-> wanted.amount_msats, quantity |-> wanted.quantity]
               /\ parsed.amount_msats = Input.amount_msats
               /\ \A now \in 0 .. 6 :
                     validate_bolt12_invoice(parsed, Input.amount_msats, now) <=>
                         (Input.relative_expiry # None => now < Input.created_at + Input.relative_expiry)

--------------------------------------------------------------------------------
(* Trees *)

Tree == INSTANCE MerkleTree WITH Depth <- 2

Leaves == <<l1, l2, l3, l4, l5, l6, l7, l8>>
LeavesOf(n) == SubSeq(Leaves, 1, n)
Root(n) == Tree!merkle_root(LeavesOf(n))

\* The nodes of the subtrees of a tree of up to five leaves, and a forged one.
Nodes == {forged} \cup {Tree!merkle_root(SubSeq(Leaves, i, j)) : <<i, j>> \in
                          {<<1, 1>>, <<2, 2>>, <<3, 3>>, <<4, 4>>, <<5, 5>>, <<1, 2>>, <<3, 4>>, <<1, 4>>, <<1, 5>>}}

TreeProofs == Try("tree", [size : 1 .. 8, at : 0 .. 7])
Forgeries == Try("forgery", [size : 1 .. 5, at : 0 .. 4, leaf : {l1, l3, l4, l5, forged}])
Forks == Try("fork", [size : 2 .. 5, old : 1 .. 5, root : Nodes])

PartialMaps == UNION {[D -> {"v1", "v2"}] : D \in SUBSET Tree!Keys}
Maps == Try("map", PartialMaps)

\* Every proof the log makes verifies, and no proof made of nodes of the tree shows a leaf at a
\* place where it is not, a history the tree does not extend, or a value an identifier does not
\* have.
TreeProofsSound ==
    /\ Is("tree") /\ Input.at < Input.size =>
           LET leaves == LeavesOf(Input.size)
           IN  /\ Tree!verify_inclusion_proof(Tree!inclusion_proof(leaves, Input.at))
               /\ Tree!verify_consistency(Input.at + 1, Input.size, Root(Input.at + 1), Root(Input.size),
                                          Tree!consistency_proof(leaves, Input.at + 1))
    /\ Is("forgery") /\ Input.at < Input.size /\ Leaves[Input.at + 1] # Input.leaf =>
           \A path \in SeqOf(Nodes, 3) :
               ~Tree!verify_inclusion_proof([index |-> Input.at, size |-> Input.size, leaf |-> Input.leaf,
                                             path |-> path, root |-> Root(Input.size)])
    /\ Is("fork") /\ Input.old <= Input.size /\ Input.root # Root(Input.old) =>
           \A proof \in SeqOf(Nodes, 4) :
               ~Tree!verify_consistency(Input.old, Input.size, Input.root, Root(Input.size), proof)
    /\ Is("map") =>
           \A key \in Tree!Keys :
               LET proof == Tree!prove(key, Input, None)
                   hashes == {Empty, Tree!empty_hash(1)} \cup Range(proof.path)
               IN  /\ Tree!verify_state_map_proof(proof, Tree!MapRoot(Input), None)
                   /\ \A value \in {"v1", "v2", None} \ {proof.value}, path \in [1 .. 2 -> hashes] :
                         ~Tree!verify_state_map_proof([key |-> key, value |-> value, path |-> path],
                                                      Tree!MapRoot(Input), None)

--------------------------------------------------------------------------------
(* Ownership proofs *)

Own == INSTANCE Ownership

\* The owner has identity i1 and the key of the first three methods; the others are mallory's.
OnchainMethod(key) == [Own!NoMethod EXCEPT !.rail = "Onchain", !.network = "mainnet",
                          !.address = [form |-> "p2wpkh", key |-> key, network |-> "mainnet"]]
ArkMethod(key) == [Own!NoMethod EXCEPT !.rail = "Ark", !.server = "s", !.pubkey = key]
LightningMethod == [Own!NoMethod EXCEPT !.rail = "Lightning",
                       !.lightning_address = [user |-> "u", domain |-> "owner.org"]]
OwnMethods == {OnchainMethod("owner"), ArkMethod("owner"), LightningMethod}
AnyMethod == OwnMethods \cup {OnchainMethod("mallory")}

Challenges(identities, methods) ==
    {Own!ownership_challenge_message(i, Own!ownership_descriptor(m), t) :
        i \in identities, m \in methods, t \in {1, 2}}
ArkChallenge(alias, identity) ==
    Own!ark_ownership_challenge(alias, identity, "s", "owner", <<"ark", "owner">>)

\* The owner signs for its own identity and methods, mallory signs anything.
OwnerSignatures ==
    {Own!Sign("owner", c) : c \in Challenges({"i1"}, OwnMethods) \cup {ArkChallenge("a1", "i1")}}
        \cup {Own!Sign("i1", c) : c \in Challenges({"i1"}, OwnMethods)}
Signatures ==
    OwnerSignatures
        \cup {Own!Sign(k, c) : k \in {"mallory", "i2"},
                               c \in Challenges({"i1", "i2"}, AnyMethod) \cup {ArkChallenge("a2", "i2")}}

MessageProofs == {[kind |-> "MessageSignature", message |-> s.message, signature |-> s, pubkey |-> k] :
                     s \in Signatures, k \in {"owner", "mallory", "i1", "i2"}}
ServedBody == {"nonce", "i2"}
WellKnownProof(host) == [kind |-> "WellKnownChallenge", url |-> [scheme |-> "https", host |-> host],
                         nonce |-> "nonce", expected_body_hash |-> ServedBody]

SignatureTypes == {"OnchainAddressSignature", "ArkPubkeySignature", "ManualAttestation", "Bip353Dnssec"}
ClaimsOf(method) ==
    {[method_descriptor |-> Own!ownership_descriptor(method), proof_type |-> type, verified_at |-> at,
      expires_at |-> expires, proof |-> proof] :
        type \in SignatureTypes, at \in {1, 2}, expires \in {None, 3}, proof \in MessageProofs}

Ownerships ==
    \E method \in AnyMethod :
        Try("ownership", [method : {method}, identity : {"i1", "i2"}, claim : ClaimsOf(method), now : {2, 3}])

\* An Ark method with its own proof, in a profile of anybody.
ArkProofs ==
    Try("ark", [alias : {"a1", "a2"}, identity : {"i1", "i2"}, now : {2, 3}, expires : {None, 3},
                proof : {[message |-> s.message, signature |-> s, pubkey |-> k] :
                            s \in Signatures, k \in {"owner", "mallory"}}])

\* A body that mallory serves from a host of its own.
Served == Try("served", [method : AnyMethod, type : Own!DomainProofs, host : {"owner.org", "mallory.org"}])

\* The owner attaches a proof to a profile that may already have one for the method.
Attachments ==
    Try("attach", [method : OwnMethods \ {LightningMethod}, at : {1, 2}, expires : {None, 4}, old : BOOLEAN])

\* A method counts as verified only for the identity its own key signed for, within the proof's
\* time: nobody passes off another's method, whichever signatures are put together; a Lightning
\* address counts for a body served by its own domain only.  And the owner's proof is accepted
\* until it expires, a renewed one too.
OwnershipSound ==
    /\ Is("ownership") =>
           LET profile == [alias |-> "a1", identity |-> Input.identity, methods |-> <<Input.method>>,
                           verifications |-> <<Input.claim>>]
               state == Own!verify_payment_method_states(profile, Input.now)[1]
           IN  state.trust = "Verified" =>
                   /\ state.tier = "Cryptographic"
                   /\ Input.claim.expires_at # None => Input.now < Input.claim.expires_at
                   /\ Input.method \in OwnMethods => Input.identity = "i1"
                   /\ Input.claim.proof.signature.key \in {"owner", "mallory"}
    /\ Is("ark") =>
           LET method == [ArkMethod("owner") EXCEPT !.proof = Input.proof, !.expires_at = Input.expires]
               profile == [alias |-> Input.alias, identity |-> Input.identity, methods |-> <<method>>,
                           verifications |-> <<>>]
           IN  Own!verify_payment_method_states(profile, Input.now)[1].trust = "Verified" =>
                   /\ Input.identity = "i1" /\ Input.alias = "a1"
                   /\ Input.expires # None => Input.now < Input.expires
    /\ Is("served") =>
           LET url == [scheme |-> "https", host |-> Input.host]
               v == Own!attach_well_known_proof(Input.method, "i2", Input.type, url, "nonce", ServedBody, 1, None)
           IN  v # None /\ Input.type = "LightningAddressChallenge" =>
                   /\ Input.method = LightningMethod
                   /\ url = Own!well_known_url_for_method(Input.method)
    /\ Is("attach") =>
           LET m == Input.method
               type == IF m.rail = "Ark" THEN "ArkPubkeySignature" ELSE "OnchainAddressSignature"
               v == Own!build_signature_attestation(m, "i1", type, "owner", Input.at, Input.expires)
               stale == Own!build_manual_attestation(m, "i1", 0, 1)
               profile == [alias |-> "a1", identity |-> "i1", methods |-> <<m>>,
                           verifications |-> Own!upsert_method_verification(IF Input.old THEN <<stale>> ELSE <<>>, v)]
           IN  /\ v # None /\ Own!validate_method_verification(v)
               /\ \A now \in 0 .. 5 :
                     Own!verify_payment_method_states(profile, now)[1].trust =
                         IF Input.expires # None /\ now >= Input.expires THEN "Expired" ELSE "Verified"

--------------------------------------------------------------------------------
(* Silent payments, in a group of seven *)

HashOf(outpoint, key) == ((3 * outpoint + key) % 6) + 1
TweakOf(secret, k) == ((secret + 2 * k * k + k) % 6) + 1
SP == INSTANCE SilentPayments WITH Order <- 7, InputHash <- HashOf, Tweak <- TweakOf, ScanLimit <- 3

SpendInputs == {<<i>> : i \in [secret : SP!Scalars, outpoint : {1, 2, Infinity}]}
                 \cup {<<i, j>> : i, j \in [secret : SP!Scalars, outpoint : {2, Infinity}]}

Sends == Try("send", [inputs : SpendInputs, scan : {1, 3, 6}, spend : SP!Scalars, outputs : 1 .. 3])
SilentAddresses == Try("address", [scan : SP!Scalars, spend : SP!Scalars, network : {"mainnet", "testnet"}])

\* What a sender pays to an address, the recipient finds when it scans the transaction with the
\* sum of the input keys, and the key it derives for each output opens it, with even parity;
\* the address survives the trip.
SilentPaymentsFound ==
    /\ Is("send") =>
           LET secrets == [i \in DOMAIN Input.inputs |-> Input.inputs[i].secret]
               sum == FoldLeft(+, 0, secrets) % 7
               outpoints == {Input.inputs[i].outpoint : i \in DOMAIN Input.inputs} \ {Infinity}
               hash == IF outpoints = {} THEN 1 ELSE HashOf(Min(outpoints), sum)
               S == (sum * Input.scan * hash) % 7
               script == [k \in 0 .. 2 |-> SP!create_output_with_index(Input.inputs, Input.scan, Input.spend, k)]
               scripts == {script[k] : k \in 0 .. Input.outputs - 1}
               found == IF outpoints = {}
                        THEN SP!detect_silent_payment_outputs(Input.scan, Input.spend, secrets, scripts)
                        ELSE SP!detect_outputs_with_input_hash(Input.scan, Input.spend, sum, hash, scripts)
           IN  sum # 0 /\ (\A k \in 0 .. 2 : (Input.spend + TweakOf(S, k)) % 7 # 0) =>
                   /\ 0 .. Input.outputs - 1 \subseteq found
                   /\ \A k \in 0 .. Input.outputs - 1 :
                         LET key == SP!derive_spending_privkey(Input.spend, S, k)
                         IN  SP!Script(key) = script[k] /\ ~SP!OddParity(key)
    /\ Is("address") =>
           LET address == SP!create_silent_payment_address_for_network(Input.scan, Input.spend, Input.network)
           IN  SP!parse_silent_payment_address(address) = Input

--------------------------------------------------------------------------------
(* The rate limiter: two tokens of two parts each, one part back per second *)

SomeHeaders == {<<>>, <<[field |-> "x-real-ip", value |-> 2], [field |-> "x-forwarded-for", value |-> 1]>>,
                <<[field |-> "x-forwarded-for", value |-> 0]>>}

\* Workers are only compared.
Interchangeable == Permutations(Workers)

Limiter == case = Start /\ PaymentsResting /\ LimiterNext /\ UNCHANGED <<case, vars>>

--------------------------------------------------------------------------------
(* Route selections *)

OfferFor(msats) == [hrp |-> "lno", data |-> encode_tlv_stream(<<Record(TLV_OFFER_AMOUNT, write_tu64(msats))>>)]
Ark(server) == [NoMethod EXCEPT !.rail = "Ark", !.server = server, !.opaque = server = ""]
Lightnings == {[NoMethod EXCEPT !.address = TRUE], [NoMethod EXCEPT !.lnurl = TRUE, !.address = TRUE],
               [NoMethod EXCEPT !.offer = OfferFor(2000000)],
               [NoMethod EXCEPT !.rail = "Bolt12", !.offer = OfferFor(2000000), !.minimum = 1]}
SomeMethods == Lightnings \cup {Chain, Ark(""), Ark("s")}

Selections ==
    Try("select", [methods : SeqOf(SomeMethods, 2) \cup {<<a, b, c>> : a, b \in Lightnings, c \in {Chain, Ark("s")}},
                   sats : {1, 999, 1000, 2000, 99999, 100000, 5000001},
                   est : {<<1, 1, 1, 1, 1>>, <<1, 5, 9, 10, 31>>, <<1, 20, 40, 60, 80>>},
                   urgency : DOMAIN Urgencies])

Splits == Try("split", [total : {0, 1, 99, 100, 101, 12345}, percents : SeqOf({1, 33, 34, 50, 100}, 3)])

\* The selections agree with each other where they should and never go wrong where they differ:
\* the deterministic one decides as the live one; neither gives up while the profile has an
\* on-chain or an Ark method; the browser's chooses the same among methods without Lightning;
\* the scored one stays within the limit on the fee; the shares of a split never exceed the
\* total and lose less than a sat each.
SelectionsAgree ==
    /\ Is("select") =>
           LET ms == Input.methods
               live == select_route(ms, Input.sats, Input.est, Input.urgency)
               wasm == wasm_select_route(ms, Input.sats, Input.est, Input.urgency)
               priority == select_priority_route(ms, Input.sats, Input.est, FALSE)
               onchainOrArk == \E i \in DOMAIN ms : ms[i].rail \in {"Onchain", "Ark"}
           IN  /\ live = select_route_with_fees(ms, Input.sats, Input.est, Input.urgency)
               /\ live = None => ~onchainOrArk
               /\ priority = None <=> ms = <<>>
               /\ (\A i \in DOMAIN ms : ms[i] \notin Lightnings) /\ live # None => wasm.method = live.method
               /\ \A limit \in {None, 0, 1, 200}, ark, cheap \in BOOLEAN :
                     LET prefs == [ark |-> ark, privacy |-> ~cheap, speed |-> ark, cheap |-> cheap,
                                   max_fee |-> limit]
                     IN  \A c \in {score_routes(ms, Input.sats, prefs, Input.est[3], <<"Ark", "Lightning">>)} :
                            c # None => /\ limit # None => c.fee <= limit
                                        /\ c.rail = "Ark" => ark
                                        /\ c.rail = "Onchain" => Input.sats >= 546
               /\ \A server \in {None, "s"}, lightning \in BOOLEAN :
                     LET plan == plan_ark_route([server |-> server, lightning |-> lightning, onchain |-> TRUE], ms)
                     IN  plan = "ArkToArk" => server = "s" /\ Ark("s") \in Range(ms)
    /\ Is("split") /\ ValidSplit(Input.percents) =>
           LET parts == [i \in DOMAIN Input.percents |-> SplitAmount(Input.total, Input.percents[i])]
               sum == FoldLeft(+, 0, parts)
               routed == route_split_payment(Input.total, Input.percents, [i \in DOMAIN parts |-> <<Chain>>],
                                             <<1, 1, 1, 1, 1>>, "Normal")
           IN  /\ sum <= Input.total /\ Input.total - sum < Len(parts)
               /\ routed.all_routed /\ routed.amount = sum

--------------------------------------------------------------------------------
(* Resolvers *)

Names == INSTANCE Resolvers WITH Public <- {"d", "r1", "r2"}, MaxRelays <- 2, Grace <- 0

Alice == [sign |-> FALSE, user |-> "alice", domain |-> "d"]
SignedAlice == [Alice EXCEPT !.sign = TRUE]
Hidden == [Alice EXCEPT !.domain = "localhost"]

\* Profiles of the owner's key and of mallory's; one that mallory changed.
Signed(alias, key, sequence) ==
    [alias |-> alias, key |-> key, signed_by |-> key, sequence |-> sequence, expires |-> None,
     revoked |-> FALSE, updated |-> 0, methods |-> {[rail |-> "Onchain", pointer |-> "a"]}]
Genuine(alias) == Signed(alias, "owner", 2)
Older(alias) == Signed(alias, "owner", None)
Overdue(alias) == [Genuine(alias) EXCEPT !.expires = 1]
Revoked(alias) == [Signed(alias, "owner", 3) EXCEPT !.revoked = TRUE]
Changed(alias) == [Genuine(alias) EXCEPT !.signed_by = "mallory", !.sequence = 4]
Substitute == Signed([Alice EXCEPT !.user = "mallory"], "mallory", 5)

TxtRecord == [bitcoin |-> TRUE, address |-> "a", b12 |-> None, lno |-> None, lightning |-> "x", pointer |-> FALSE,
              required |-> FALSE, strings |-> 1, validated |-> TRUE]
SomeRecords == {Down, <<>>, <<[TxtRecord EXCEPT !.bitcoin = FALSE], TxtRecord>>,
                <<[TxtRecord EXCEPT !.address = None, !.lno = "o", !.strings = 2, !.validated = FALSE]>>,
                <<TxtRecord, TxtRecord>>, <<[TxtRecord EXCEPT !.address = None]>>}

Event(profile) == [author |-> "owner", profile |-> profile]
RelayStates(alias) ==
    {Down, <<>>} \cup {<<Event(p)>> : p \in {Genuine(alias), Older(alias), Revoked(alias), Changed(alias)}}
        \cup {<<[author |-> "mallory", profile |-> Changed(alias)], Event(Older(alias))>>, <<Event(Substitute)>>}

\* What the registry, the name servers, the web server and the relays may hold.
Worlds(alias) ==
    [registered : {None, Genuine(alias), Overdue(alias), Revoked(alias)},
     records : SomeRecords,
     answer : {Down, None, Garbage, Genuine(alias), Changed(alias), Overdue(alias), Substitute},
     document : {Down, [key |-> "owner", relays |-> <<"localhost", "r1", "r2">>], [key |-> None, relays |-> <<>>]},
     fallback : {<<"r1">>},
     relays : [r1 : RelayStates(alias), r2 : RelayStates(alias)],
     key : {"moment"}]

Resolutions ==
    \E alias \in {Alice, SignedAlice, Hidden} :
        Untouched /\ \E w \in Worlds(alias) :
            case' = [kind |-> "resolve", input |-> [alias |-> alias, world |-> w]]

Lookups == Try("lookup", [records : SomeRecords, policy : {"Strict", "DevInsecure"}, alias : {Alice, SignedAlice}])

\* Whatever the chain returns was asked for, is signed by the key it names, is within its time,
\* and was not overtaken: a name whose entry here is revoked or expired is not served from
\* elsewhere, a changed, expired or substituted answer ends the search instead of being passed
\* over, and of what the relays hold the highest sequence number counts, a revocation too.  The
\* strict lookup agrees that a record belongs to a profile only if DNSSEC vouches for it.
NoSubstitution ==
    /\ Is("resolve") =>
           LET w == Input.world
               a == Input.alias
               result == Names!Resolve(a, w, 1)
               p == result.profile
               relay == [r \in {"r1", "r2"} |-> Names!query_relay(w.relays[r], "owner", a, 1)]
               fromRelays == p # None /\ p.key = "owner" /\ p # w.registered /\ p # w.answer
           IN  /\ result.kind = "Ok" =>
                     p.alias = a /\ p.signed_by = p.key /\ (p.expires # None => 1 < p.expires)
               /\ w.registered # None =>
                     IF w.registered = Genuine(a) THEN p = w.registered ELSE result.kind # "Ok"
               /\ w.registered = None /\ w.answer \in {Changed(a), Overdue(a), Substitute} /\ ~a.sign =>
                     result.kind # "Ok"
               /\ fromRelays =>
                     /\ ~p.revoked
                     /\ \A r \in {"r1", "r2"} :
                           relay[r].kind = "Ok" => Names!Seq0(relay[r].profile.sequence) <= Names!Seq0(p.sequence)
               /\ LET browser == Names!WasmResolve(a, w.records, w.answer, 1)
                  IN  browser.kind = "Ok" => browser.profile.alias = a
    /\ Is("lookup") =>
           LET found == Names!resolve_bip353_with(Input.alias, Input.records, Input.policy)
           IN  found.kind = "Ok" =>
                   /\ Input.policy = "Strict" => found.record.validated
                   /\ Names!verify_bip353_ownership(found, Genuine(Alice)) =>
                         found.record.validated /\ found.record.address = "a"

--------------------------------------------------------------------------------
Requests == case = Start /\ LimiterResting /\ trust_proxy_headers /\ Next /\ UNCHANGED <<case, lvars>>

AnyNext ==
    \/ Numbers
    \/ Streams
    \/ Paths
    \/ Invoices
    \/ TreeProofs
    \/ Forgeries
    \/ Forks
    \/ Maps
    \/ Ownerships
    \/ ArkProofs
    \/ Served
    \/ Attachments
    \/ Sends
    \/ SilentAddresses
    \/ Limiter
    \/ Requests
    \/ Selections
    \/ Splits
    \/ Resolutions
    \/ Lookups

AnySpec == AnyInit /\ [][AnyNext]_<<case, lvars, vars>>

================================================================================
