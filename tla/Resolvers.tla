-------------------------------- MODULE Resolvers ------------------------------
(***************************************************************************)
(* Finding the profile of a name: the chain of resolvers (satspath-core:   *)
(* resolver.rs, registry.rs, resolvers/bip353.rs, resolvers/http.rs,       *)
(* resolvers/nostr.rs, ssrf.rs; the order comes from the command line's    *)
(* get_resolver and the router's default_resolver), the strict BIP-353     *)
(* lookup (bip353.rs, bip321.rs) and the browser's chain                   *)
(* (satspath-wasm/resolver.rs), as functions of what the registry, the     *)
(* name servers, the web server and the relays say.                        *)
(*                                                                         *)
(* Abstractions.  A name is in canonical form: [sign, user, domain], sign  *)
(* for a leading bitcoin sign.  A signature is the key that made it.  A    *)
(* bitcoin: URI is its address and its parameters.  Text too large, not    *)
(* JSON or not reachable is a model value.                                 *)
(***************************************************************************)
EXTENDS Integers, Sequences, FiniteSets, SequencesExt, FiniteSetsExt

CONSTANTS
    None,       \* an absent value
    Down,       \* a server that does not answer
    Garbage,    \* an answer that is not what it should be
    Public,     \* domains and relays validate_url lets through
    MaxRelays,  \* relays asked (8 in the code)
    Grace       \* check_profile_expiry's tolerance (60 s in the code)

Ok(profile) == [kind |-> "Ok", profile |-> profile]
Err(kind) == [kind |-> kind, profile |-> None]

verify_signed_profile(p) == p.signed_by = p.key
check_profile_expiry(p, now) == p.expires # None => now < p.expires + Grace
Seq0(sequence) == IF sequence = None THEN 0 ELSE sequence

\* The checks of a resolver that fetched a profile: the signature, then the expiry.
Checked(p, now) ==
    IF ~verify_signed_profile(p) THEN Err("InvalidSignature")
    ELSE IF ~check_profile_expiry(p, now) THEN Err("Expired")
    ELSE Ok(p)

validate_url(host) == host \in Public

--------------------------------------------------------------------------------
(* The local registry *)

\* Registered: the entry of a name, or None.  Its signature was verified when it was stored.
RegistryResolve(registered, now) ==
    IF registered = None THEN Err("AliasNotFound")
    ELSE IF registered.revoked THEN Err("RegistryError")
    ELSE IF ~check_profile_expiry(registered, now) THEN Err("Expired")
    ELSE Ok(registered)

--------------------------------------------------------------------------------
(* Names in DNS *)

\* A TXT record: [bitcoin, address, b12, lno, lightning, pointer, required, strings, validated];
\* strings is the number of character-strings the URI is cut into.
Cut == "cut off"

\* The first string of a record; the parameters of a longer URI are cut off with the rest.
FirstString(record) ==
    LET CutOff(value) == IF value # None /\ record.strings > 1 THEN Cut ELSE value
    IN  [record EXCEPT !.b12 = CutOff(@), !.lno = CutOff(@)]

\* The methods of a URI: its address, then the offer of b12 or else of lno.
UriMethods(uri) ==
    LET offer == IF uri.b12 # None THEN uri.b12 ELSE uri.lno
    IN  (IF uri.address = None THEN {} ELSE {[rail |-> "Onchain", pointer |-> uri.address]})
          \cup (IF offer = None THEN {} ELSE {[rail |-> "Lightning", pointer |-> offer]})

\* The profile made up for a name in DNS, signed by a key of the moment.
SyntheticProfile(alias, key, methods, now) ==
    [alias |-> alias, key |-> key, signed_by |-> key, sequence |-> 1, expires |-> None,
     revoked |-> FALSE, updated |-> now, methods |-> methods]

\* Only names with the bitcoin sign are looked up, and the first URI counts.
Bip353Resolve(alias, records, key, now) ==
    LET i == IF records = Down THEN 0 ELSE SelectInSeq(records, LAMBDA r : r.bitcoin)
        methods == UriMethods(FirstString(records[i]))
    IN  IF ~alias.sign \/ alias.domain = None THEN Err("AliasNotFound")
        ELSE IF records = Down THEN Err("NetworkError")
        ELSE IF i = 0 THEN Err("AliasNotFound")
        ELSE IF methods = {} THEN Err("AliasNotFound")
        ELSE Ok(SyntheticProfile(alias, key, methods, now))

\* An unknown required parameter invalidates the whole URI.
parse_bip321(record) == ~record.required

\* Two names are the same DNS name whether or not they carry the sign.
parse_bip353_name(alias) ==
    IF alias.domain = None THEN None ELSE [user |-> alias.user, domain |-> alias.domain]

\* The strict lookup: exactly one URI, put together from all its strings, and DNSSEC.
resolve_bip353_with(alias, records, policy) ==
    LET matching == IF records = Down THEN <<>> ELSE SelectSeq(records, LAMBDA r : r.bitcoin)
    IN  IF parse_bip353_name(alias) = None THEN Err("Bip353")
        ELSE IF records = Down THEN Err("NetworkError")
        ELSE IF Len(matching) # 1 THEN Err("Bip353")
        ELSE IF ~parse_bip321(matching[1]) THEN Err("InvalidPaymentUri")
        ELSE IF policy = "Strict" /\ ~matching[1].validated THEN Err("DnssecUnavailable")
        ELSE [kind |-> "Ok", name |-> parse_bip353_name(alias), record |-> matching[1]]

\* The record belongs to a profile: a pointer to a profile is enough, else a method is in both.
verify_bip353_ownership(resolution, p) ==
    /\ resolution.record.validated
    /\ verify_signed_profile(p)
    /\ parse_bip353_name(p.alias) = resolution.name
    /\ \/ resolution.record.pointer
       \/ \E m \in p.methods :
             \/ m.rail = "Onchain" /\ m.pointer = resolution.record.address
             \/ m.rail = "Lightning" /\ m.pointer \in {resolution.record.b12, resolution.record.lno}

--------------------------------------------------------------------------------
(* The web server of the domain *)

\* Answer: Down (also an error status or a body above 50 KB), None (404), Garbage or a profile.
HttpResolve(alias, answer, now) ==
    CASE alias.domain = None -> Err("AliasNotFound")
      [] alias.domain # None /\ ~validate_url(alias.domain) -> Err("ValidationError")
      [] OTHER -> IF answer = Down THEN Err("NetworkError")
                  ELSE IF answer = None THEN Err("AliasNotFound")
                  ELSE IF answer = Garbage THEN Err("SerializationError")
                  ELSE Checked(answer, now)

--------------------------------------------------------------------------------
(* Nostr relays *)

\* The domain's NIP-05 document: Down, Garbage or [key, relays]; the key is None for another name.
\* Of the relays it names, or else the default ones, the first that are allowed are asked.
resolve_nip05(alias, document, fallback) ==
    LET named == IF document.relays = <<>> THEN fallback ELSE document.relays
        allowed == {i \in DOMAIN named : validate_url(named[i])}
        asked == {i \in allowed : Cardinality({j \in allowed : j <= i}) <= MaxRelays}
    IN  IF alias.domain = None THEN Err("AliasNotFound")
        ELSE IF document = Down THEN Err("NetworkError")
        ELSE IF document = Garbage THEN Err("SerializationError")
        ELSE IF document.key = None THEN Err("AliasNotFound")
        ELSE IF asked = {} THEN Err("NetworkError")
        ELSE [kind |-> "Ok", key |-> document.key, relays |-> [i \in asked |-> named[i]]]

\* An event of another kind, author or d tag is skipped.
signed_profile_from_event(event, key, alias, now) ==
    IF event.author # key THEN None
    ELSE IF event.profile = Garbage THEN Err("SerializationError")
    ELSE IF event.profile.alias # alias THEN Err("InvalidRoute")
    ELSE IF event.profile.key # key THEN Err("InvalidSignature")
    ELSE Checked(event.profile, now)

\* The first event that is not skipped decides.
query_relay(events, key, alias, now) ==
    LET results == IF events = Down THEN <<>>
                   ELSE [i \in DOMAIN events |-> signed_profile_from_event(events[i], key, alias, now)]
        i == SelectInSeq(results, LAMBDA r : r # None)
    IN  IF events = Down THEN Err("NetworkError")
        ELSE IF i = 0 THEN Err("AliasNotFound") ELSE results[i]

\* Mutant: the first relay's profile is taken.
Newer_Never(p, q) == FALSE

\* A profile takes the place of one with a lower sequence number.
Newer(p, q) == Seq0(p.sequence) > Seq0(q.sequence)

\* Relays: the events each relay has.  All are asked; of the newest profiles the first counts, or
\* the last error if no relay has one.
NostrResolve(alias, document, fallback, relays, now) ==
    LET nip05 == resolve_nip05(alias, document, fallback)
        results == [i \in DOMAIN nip05.relays |-> query_relay(relays[nip05.relays[i]], nip05.key, alias, now)]
        found == {i \in DOMAIN results : results[i].kind = "Ok"}
        newest == {i \in found : \A j \in found : ~Newer(results[j].profile, results[i].profile)}
        best == results[Min(newest)]
    IN  IF nip05.kind # "Ok" THEN nip05
        ELSE IF found = {} THEN results[Max(DOMAIN results)]
        ELSE IF best.profile.revoked THEN Err("RegistryError")
        ELSE best

--------------------------------------------------------------------------------
(* The chain *)

\* A name that is not found and a network failure pass the question on, any other failure ends it.
PassesOn(result) == result.kind \in {"AliasNotFound", "NetworkError"}

\* Mutant: whatever the resolver returned is taken.
SubstitutionCheck_None(alias, result) == result

\* A profile for another name ends the search.
SubstitutionCheck(alias, result) ==
    IF result.kind = "Ok" /\ result.profile.alias # alias THEN Err("AliasNotFound") ELSE result

ChainResolve(alias, results) ==
    LET i == SelectInSeq(results, LAMBDA r : ~PassesOn(r))
    IN  IF i = 0 THEN Err("AliasNotFound") ELSE SubstitutionCheck(alias, results[i])

\* get_resolver and default_resolver: registry, DNS, web, Nostr.  World: [registered, records,
\* answer, document, fallback, relays, key].
Resolve(alias, world, now) ==
    ChainResolve(alias,
        <<RegistryResolve(world.registered, now),
          Bip353Resolve(alias, world.records, world.key, now),
          HttpResolve(alias, world.answer, now),
          NostrResolve(alias, world.document, world.fallback, world.relays, now)>>)

--------------------------------------------------------------------------------
(* The browser *)

\* The record is looked up for the domain alone.  Of a URI the browser reads other parameters
\* than the native resolver, and its address never: it lands in the host of the URL it parses.
WasmBip353Resolve(alias, records, now) ==
    IF alias.domain = None \/ records = Down THEN Err("not_found")
    ELSE LET i == SelectInSeq(records, LAMBDA r : r.bitcoin)
             methods == IF records[i].address = None \/ records[i].lightning = None THEN {}
                        ELSE {[rail |-> "Lightning", pointer |-> records[i].lightning]}
         IN  IF i = 0 THEN Err("not_found")
             ELSE Ok([SyntheticProfile(alias, alias.domain, methods, now) EXCEPT
                         !.signed_by = None, !.sequence = None])

\* The alias is all that is compared.
WasmHttpsResolve(alias, answer) ==
    IF alias.domain \notin Public \/ answer \in {Down, None, Garbage} THEN Err("not_found")
    ELSE IF answer.alias # alias THEN Err("mismatch") ELSE Ok(answer)

\* The in-memory registry cannot be filled and the relays cannot be asked.
WasmResolve(alias, records, answer, now) ==
    LET results == <<Err("not_found"), WasmBip353Resolve(alias, records, now),
                     WasmHttpsResolve(alias, answer), Err("not_found")>>
        i == SelectInSeq(results, LAMBDA r : r.kind = "Ok")
    IN  IF i = 0 THEN Err("not_found") ELSE results[i]

================================================================================
