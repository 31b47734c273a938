-------------------------------- MODULE Ownership ------------------------------
(***************************************************************************)
(* Proofs that the owner of a profile controls its payment methods         *)
(* (satspath-core: ownership.rs, ark.rs, resolver.rs): how a proof is      *)
(* built or attached, how a client verifies it and what it then says of    *)
(* the method.                                                             *)
(*                                                                         *)
(* Abstractions.  A signature is the pair of its key and its message.  An  *)
(* address is its form, the key it derives from and its network.  A served *)
(* body is the set of strings it contains, its hash the body itself.       *)
(* Syntax checks on hex, URLs and private material hold by construction.   *)
(***************************************************************************)
EXTENDS Integers, Sequences, SequencesExt

CONSTANT None

SignatureProofs == {"OnchainAddressSignature", "ArkPubkeySignature"}
DomainProofs == {"DomainWellKnown", "LightningAddressChallenge"}

trust_tier(type) ==
    CASE type \in SignatureProofs -> "Cryptographic"
      [] type \in DomainProofs \cup {"Bip353Dnssec"} -> "DomainControl"
      [] type = "ManualAttestation" -> "SelfAsserted"

Sign(key, message) == [key |-> key, message |-> message]
verify_message_signature(message, signature, pubkey) == signature = Sign(pubkey, message)

\* A payment method; None is an absent field.
NoMethod == [rail |-> None, network |-> None, address |-> None, silent |-> None,
             lightning_address |-> None, lnurl |-> None, offer |-> None,
             pubkey |-> None, server |-> None, proof |-> None, expires_at |-> None]

\* The first field that is there names the method; an Ark server is not part of the name.
ownership_descriptor(method) ==
    CASE method.rail = "Onchain" ->
            <<"onchain", method.network, IF method.silent # None THEN method.silent ELSE method.address>>
      [] method.rail = "Lightning" ->
            IF method.lightning_address # None THEN <<"ln-address", method.lightning_address>>
            ELSE IF method.lnurl # None THEN <<"lnurl", method.lnurl>>
            ELSE <<"bolt12", method.offer>>
      [] method.rail = "Bolt12" -> <<"bolt12", method.offer>>
      [] method.rail = "Ark" -> <<"ark", method.pubkey>>

\* Mutant: the identity is left out of the signed message.
ownership_challenge_message_AnyIdentity(identity, descriptor, issued) ==
    [method |-> descriptor, issued |-> issued]

ownership_challenge_message(identity, descriptor, issued) ==
    [identity |-> identity, method |-> descriptor, issued |-> issued]

--------------------------------------------------------------------------------
(* Verification *)

\* A P2WPKH or a key-path P2TR address of the key, or any silent payment address.
pubkey_controls_address(pubkey, address, network) ==
    \/ address.form \in {"p2wpkh", "p2tr"} /\ address.key = pubkey /\ address.network = network
    \/ address.form = "sp"

\* The message must be the challenge, and the named key must have signed it.
SignedBy(key, challenge, proof) ==
    /\ proof.kind = "MessageSignature"
    /\ proof.pubkey = key
    /\ proof.message = challenge
    /\ verify_message_signature(proof.message, proof.signature, key)

verify_onchain_signature(method, challenge, proof) ==
    /\ proof.kind = "MessageSignature" /\ proof.pubkey # None
    /\ method.rail = "Onchain"
    /\ SignedBy(proof.pubkey, challenge, proof)
    /\ LET target == IF method.silent # None THEN method.silent ELSE method.address
       IN  /\ target # None
           /\ target.form # "sp"
           /\ pubkey_controls_address(proof.pubkey, target, method.network)

verify_ark_signature(method, challenge, proof) ==
    method.rail = "Ark" /\ SignedBy(method.pubkey, challenge, proof)

verify_manual(identity, challenge, proof) == SignedBy(identity, challenge, proof)

\* The domain of a Lightning Address or an LNURL, None for another method.
lightning_method_domain(method) ==
    IF method.rail # "Lightning" THEN None
    ELSE IF method.lightning_address # None THEN method.lightning_address.domain ELSE method.lnurl

\* Domain: the host the proof must be served from, or AnyHost.
AnyHost == "any host"
verify_well_known(identity, domain, proof, body) ==
    /\ proof.kind = "WellKnownChallenge"
    /\ proof.url.scheme = "https"
    /\ domain \in {AnyHost, proof.url.host}
    /\ body = proof.expected_body_hash
    /\ {proof.nonce, identity} \subseteq body

ProofHolds(method, identity, v, body) ==
    LET challenge == ownership_challenge_message(identity, ownership_descriptor(method), v.verified_at)
        domain == IF v.proof_type = "DomainWellKnown" THEN AnyHost ELSE lightning_method_domain(method)
    IN  CASE v.proof_type = "OnchainAddressSignature" -> verify_onchain_signature(method, challenge, v.proof)
          [] v.proof_type = "ArkPubkeySignature" -> verify_ark_signature(method, challenge, v.proof)
          [] v.proof_type = "ManualAttestation" -> verify_manual(identity, challenge, v.proof)
          [] v.proof_type \in DomainProofs ->
                body # None /\ domain # None /\ verify_well_known(identity, domain, v.proof, body)
          [] v.proof_type = "Bip353Dnssec" -> FALSE

\* The tier of a verification that holds, "Invalid" or "Expired".
verify_method_verification(method, identity, v, now, body) ==
    IF v.method_descriptor # ownership_descriptor(method) THEN "Invalid"
    ELSE IF v.expires_at # None /\ now >= v.expires_at THEN "Expired"
    ELSE IF ProofHolds(method, identity, v, body) THEN trust_tier(v.proof_type)
    ELSE "Invalid"

--------------------------------------------------------------------------------
(* Building *)

validate_method_verification(v) == v.expires_at = None \/ v.expires_at > v.verified_at

Verification(method, type, proof, at, expires) ==
    [method_descriptor |-> ownership_descriptor(method), proof_type |-> type,
     verified_at |-> at, expires_at |-> expires, proof |-> proof]

\* What was just built is verified before it is handed out.
IfVerified(method, identity, v, body) ==
    IF verify_method_verification(method, identity, v, v.verified_at, body) \in {"Invalid", "Expired"}
    THEN None ELSE v

attach_signature_proof(method, identity, type, pubkey, signature, at, expires) ==
    LET message == ownership_challenge_message(identity, ownership_descriptor(method), at)
        proof == [kind |-> "MessageSignature", message |-> message, signature |-> signature, pubkey |-> pubkey]
    IN  IF type \notin SignatureProofs THEN None
        ELSE IfVerified(method, identity, Verification(method, type, proof, at, expires), None)

build_signature_attestation(method, identity, type, key, at, expires) ==
    LET message == ownership_challenge_message(identity, ownership_descriptor(method), at)
    IN  attach_signature_proof(method, identity, type, key, Sign(key, message), at, expires)

build_manual_attestation(method, identity, at, expires) ==
    LET message == ownership_challenge_message(identity, ownership_descriptor(method), at)
        proof == [kind |-> "MessageSignature", message |-> message,
                  signature |-> Sign(identity, message), pubkey |-> identity]
    IN  Verification(method, "ManualAttestation", proof, at, expires)

well_known_url_for_method(method) ==
    IF method.rail = "Lightning" /\ method.lightning_address # None
    THEN [scheme |-> "https", host |-> method.lightning_address.domain]
    ELSE None

attach_well_known_proof(method, identity, type, url, nonce, body, at, expires) ==
    LET proof == [kind |-> "WellKnownChallenge", url |-> url, nonce |-> nonce, expected_body_hash |-> body]
    IN  IF type \notin DomainProofs THEN None
        ELSE IfVerified(method, identity, Verification(method, type, proof, at, expires), body)

\* Mutant: a renewed proof is added behind the old one.
upsert_method_verification_Push(verifications, v) == Append(verifications, v)

upsert_method_verification(verifications, v) ==
    LET i == SelectInSeq(verifications, LAMBDA w : w.method_descriptor = v.method_descriptor)
    IN  IF i = 0 THEN Append(verifications, v) ELSE ReplaceAt(verifications, i, v)

--------------------------------------------------------------------------------
(* What a client says of a method *)

\* The first verification for the method, or None.
stored_status_for_method(verifications, method) ==
    LET i == SelectInSeq(verifications, LAMBDA w : w.method_descriptor = ownership_descriptor(method))
    IN  IF i = 0 THEN None ELSE verifications[i]

Verified(tier) == [trust |-> "Verified", tier |-> tier]
Trust(name) == [trust |-> name, tier |-> None]

evaluate_method_trust(method, identity, verifications, now, body) ==
    LET v == stored_status_for_method(verifications, method)
        tier == verify_method_verification(method, identity, v, now, body)
    IN  IF v = None THEN Trust("Unverified")
        ELSE IF v.expires_at # None /\ now >= v.expires_at THEN Trust("Expired")
        ELSE IF v.proof_type \in DomainProofs /\ body = None THEN Trust("NeedsNetworkCheck")
        ELSE IF tier \in {"SelfAsserted", "Invalid", "Expired"} THEN Trust(tier)
        ELSE Verified(tier)

ark_ownership_challenge(alias, identity, server, pubkey, nonce) ==
    [alias |-> alias, identity |-> identity, method |-> <<"ark", server, pubkey>>, issued |-> nonce]

\* The proof inside an Ark method: it has no time of its own and lives as long as the pointer.
verify_ark_ownership_proof(alias, identity, method, now) ==
    IF method.expires_at # None /\ method.expires_at <= now THEN Trust("Expired")
    ELSE IF method.proof.pubkey # method.pubkey THEN Trust("Invalid")
    ELSE IF method.proof.message
              # ark_ownership_challenge(alias, identity, method.server, method.pubkey, <<"ark", method.pubkey>>)
    THEN Trust("Invalid")
    ELSE IF verify_message_signature(method.proof.message, method.proof.signature, method.pubkey)
    THEN Verified("Cryptographic")
    ELSE Trust("Unverified")

evaluate_method_trust_for_profile(profile, method, now, body) ==
    LET base == evaluate_method_trust(method, profile.identity, profile.verifications, now, body)
    IN  IF base = Trust("Unverified") /\ method.rail = "Ark" /\ method.proof # None
        THEN verify_ark_ownership_proof(profile.alias, profile.identity, method, now)
        ELSE base

\* What a resolution reports: no body is fetched, and two proofs for one method count for none.
verify_payment_method_states(profile, now) ==
    [i \in DOMAIN profile.methods |->
        LET method == profile.methods[i]
            matching == {j \in DOMAIN profile.verifications :
                            profile.verifications[j].method_descriptor = ownership_descriptor(method)}
        IN  IF \E j, k \in matching : j # k THEN Trust("Unverified")
            ELSE evaluate_method_trust_for_profile(profile, method, now, None)]

================================================================================
