-------------------------------- MODULE Payments -------------------------------
(***************************************************************************)
(* From a recipient's name to something a wallet can pay: the quote of the *)
(* router (quote_response.rs) and of the daemon (handlers/quote.rs,        *)
(* handlers/send.rs), the pay, preview and quote commands, and the quote   *)
(* of the browser (satspath-wasm/router.rs), which never gets past reading *)
(* the profile, on top of the shared fee cache (Fees), the route           *)
(* selections (Routing) and BOLT12 (Bolt12).                               *)
(*                                                                         *)
(* A request resolves the name, waits for fee sources when no Lightning    *)
(* route serves the amount, waits for an invoice where its door fetches    *)
(* one, and answers.  Time passes at every wait; the recipient's servers   *)
(* answer as they like.  Nothing here moves funds: the answer is a pointer *)
(* or an invoice for the user's own wallet.                                *)
(*                                                                         *)
(* Abstractions.  The resolver finds a signed profile, finds none or       *)
(* fails (Resolvers models it).  A payload is its kind.  Checks for private*)
(* material and of syntax hold for the profiles considered.                *)
(***************************************************************************)
EXTENDS Fees, Routing

CONSTANTS
    Profiles,      \* what resolvers may find: [valid, expires, methods, verified]
    Asks,          \* each request's possible calls: an entry point and an amount in sats
    LnurlAnswers,  \* what an LNURL server may do: [min, max, pr]
    Bolt12Answers, \* what the BOLT12 proxy may answer
    Grace          \* check_profile_expiry's tolerance (60 s in the code)

--------------------------------------------------------------------------------
(* The entry points *)

\* What an entry point decides on its own:
\*   zero        its answer to an amount of 0, None where it does not look
\*   missing     its answer when the name is not found
\*   failed      its answer when the resolver fails otherwise
\*   invalid     its answer when the signature does not verify
\*   tolerance   how long after its expiry it takes a profile, None where it does not look
\*   expired     its answer after that
\*   unroutable  its answer when there is no route, or nothing to pay on it
\* The order of the decisions is the same everywhere: Ask, Found, FeesArrive and Routed below.

\* The router's quote: whatever cannot be resolved becomes an invite.
quote_inner ==
    [zero |-> None, missing |-> "invite", failed |-> "invite", invalid |-> "invalid_signature",
     tolerance |-> Grace, expired |-> "no_route", unroutable |-> "no_route"]

\* The daemon's quote; its pay passes the answer on.
quote_response ==
    [zero |-> "no_route", missing |-> "no_route", failed |-> "no_route",
     invalid |-> "invalid_signature", tolerance |-> Grace, expired |-> "no_route",
     unroutable |-> "no_route"]

\* The daemon's send.  The invite it stores is an action of Daemon.
send_response ==
    [zero |-> "no_route", missing |-> "invite", failed |-> "invite",
     invalid |-> "invalid_signature", tolerance |-> None, expired |-> "no_route",
     unroutable |-> "no_route"]

cmd_pay ==
    [zero |-> "error", missing |-> "invite", failed |-> "error", invalid |-> "error",
     tolerance |-> None, expired |-> "error", unroutable |-> "error"]

build_mainnet_preview_response ==
    [zero |-> "error", missing |-> "invite", failed |-> "error", invalid |-> "invalid_signature",
     tolerance |-> 0, expired |-> "expired", unroutable |-> "error"]

cmd_quote ==
    [zero |-> None, missing |-> "error", failed |-> "error", invalid |-> "error",
     tolerance |-> None, expired |-> "error", unroutable |-> "error"]

\* The browser's resolver chain encodes as JSON what is JSON already; its quote decodes once,
\* gets a string where it wants a profile, and fails, whatever the profile.
wasm_quote ==
    [zero |-> None, missing |-> "error", failed |-> "error", invalid |-> "error",
     tolerance |-> None, expired |-> "error", unroutable |-> "error"]

Doors == [quote |-> quote_inner, daemon |-> quote_response, send |-> send_response,
          pay |-> cmd_pay, preview |-> build_mainnet_preview_response,
          previewInvoice |-> build_mainnet_preview_response, cli |-> cmd_quote,
          wasm |-> wasm_quote]

ASSUME AsksAssumption == Asks \in [Fetches -> SUBSET ((DOMAIN Doors) \X Nat)]
ASSUME GraceAssumption == Grace \in Nat
ASSUME ProfilesAssumption == \A p \in Profiles : p.methods \in Seq(Method)

VARIABLE request  \* each request, named like the fetch it may start

vars == <<fvars, request>>

NoAsk == [door |-> "quote", profile |-> None, sats |-> 0]

NewRequest == [pc |-> "new", ask |-> NoAsk, checked |-> 0, route |-> None,
               status |-> "none", payload |-> "none", invoice |-> None]

Init == FeesInit /\ request = [q \in Fetches |-> NewRequest]

--------------------------------------------------------------------------------
(* Answers *)

\* The request is answered.
Answer(q, r, status) == request' = [request EXCEPT ![q] = [r EXCEPT !.pc = "done", !.status = status]]

Expired(door, profile, now) ==
    /\ profile.expires # None /\ Doors[door].tolerance # None
    /\ now >= profile.expires + Doors[door].tolerance

\* Mutant: the allow-list is not applied.
Methods_Unfiltered(door, profile) == profile.methods

\* Vec::retain: the methods that are to be kept, in their order.
Retain(methods, keep) ==
    LET kept == {i \in DOMAIN methods : methods[i] \in keep}
        Nth(k) == CHOOSE i \in kept : Cardinality({j \in kept : j <= i}) = k
    IN  [k \in 1 .. Cardinality(kept) |-> methods[Nth(k)]]

\* quote_verified_profile keeps the methods with a verified ownership proof.
Methods(door, profile) ==
    IF door = "daemon" THEN Retain(profile.methods, profile.verified) ELSE profile.methods

--------------------------------------------------------------------------------
(* Payloads *)

\* build_qr_payload of the router.
QrPayload(m) ==
    CASE m.rail = "Lightning" -> IF m.lnurl THEN "lnurl" ELSE IF m.address THEN "address"
                                 ELSE IF m.offer # None THEN "offer" ELSE "none"
      [] m.rail = "Bolt12" -> "offer"
      [] m.rail = "Onchain" -> "bitcoin"
      [] m.rail = "Ark" -> "ark"

\* The daemon's send has no pointer for an offer.
SendPayload(m) ==
    CASE m.rail = "Lightning" -> IF m.address THEN "address" ELSE IF m.lnurl THEN "lnurl" ELSE "none"
      [] m.rail = "Onchain" -> "bitcoin"
      [] m.rail = "Ark" -> "ark"
      [] OTHER -> "none"

\* The pay command: a pointer, valid for mainnet.  A silent payment key is no address, and an
\* opaque Arkade method has no server.
PayPayload(m) ==
    CASE m.rail = "Lightning" -> IF m.address THEN "address" ELSE IF m.lnurl THEN "lnurl"
                                 ELSE IF m.offer # None THEN "offer" ELSE "none"
      [] m.rail = "Bolt12" -> "offer"
      [] m.rail = "Onchain" -> IF m.network = "mainnet" /\ ~m.silent THEN "bitcoin" ELSE "none"
      [] m.rail = "Ark" -> IF m.opaque THEN "none" ELSE "ark"

\* The preview; with the flag a Lightning method must give an invoice.
PreviewPayload(m) == PayPayload(m)

Payload(door, m) ==
    CASE door = "send" -> SendPayload(m)
      [] door = "pay" -> PayPayload(m)
      [] door \in {"preview", "previewInvoice"} -> PreviewPayload(m)
      [] OTHER -> QrPayload(m)

\* What the door asks for after the payload: an LNURL invoice, a BOLT12 invoice or nothing.
InvoiceFrom(door, m) ==
    CASE m.rail = "Lightning" /\ m.address /\ door \in {"quote", "cli", "previewInvoice"} -> "lnurl"
      [] m.rail = "Lightning" /\ m.offer # None /\ ~m.address /\ door = "quote" -> "bolt12"
      [] m.rail = "Bolt12" /\ door = "quote" -> "bolt12"
      [] OTHER -> "nothing"

\* The route is known: build the payload, ask for an invoice or answer.
Routed(q, r, route) ==
    LET m == route.method
        payload == Payload(r.ask.door, m)
        new == [r EXCEPT !.route = route, !.payload = payload]
    IN  IF \/ payload = "none"
           \/ r.ask.door \in {"cli", "previewInvoice"} /\ m.rail = "Lightning" /\ ~m.address
        THEN Answer(q, [r EXCEPT !.route = route], Doors[r.ask.door].unroutable)
        ELSE IF InvoiceFrom(r.ask.door, m) # "nothing"
             THEN request' = [request EXCEPT ![q] = [new EXCEPT !.pc = "invoice"]]
             ELSE Answer(q, new, "ok")

--------------------------------------------------------------------------------
(* Steps of a request *)

\* The call: a door, a name and an amount.
Ask(q) ==
    /\ request[q].pc = "new"
    /\ \E ask \in Asks[q] :
          LET door == ask[1]
              sats == ask[2]
              r == [NewRequest EXCEPT !.ask = [door |-> door, profile |-> None, sats |-> sats]]
          IN  IF sats = 0 /\ Doors[door].zero # None
              THEN Answer(q, r, Doors[door].zero)
              ELSE request' = [request EXCEPT ![q] = [r EXCEPT !.pc = "resolve"]]
    /\ UNCHANGED fvars

\* The resolver finds nothing, or fails.
NotFound(q, failed) ==
    /\ request[q].pc = "resolve"
    /\ LET door == Doors[request[q].ask.door]
       IN  Answer(q, request[q], IF failed THEN door.failed ELSE door.missing)
    /\ UNCHANGED fvars

\* The resolver finds a profile: signature, expiry, allow-list, and the Lightning route where
\* the door looks for it before it asks for fees.
Found(q, profile) ==
    LET r == [request[q] EXCEPT !.ask.profile = profile, !.checked = clock]
        door == r.ask.door
        methods == Methods(door, profile)
        early == IF door = "send" THEN None ELSE LightningRoute(methods, r.ask.sats)
    IN  /\ request[q].pc = "resolve"
        /\ IF ~profile.valid \/ door = "wasm"
           THEN Answer(q, r, Doors[door].invalid) /\ UNCHANGED fvars
           ELSE IF Expired(door, profile, clock)
           THEN Answer(q, r, Doors[door].expired) /\ UNCHANGED fvars
           ELSE IF methods = <<>> /\ door = "daemon"
           THEN Answer(q, r, "no_route") /\ UNCHANGED fvars
           ELSE IF early # None THEN Routed(q, r, early) /\ UNCHANGED fvars
           ELSE /\ request' = [request EXCEPT ![q] = [r EXCEPT !.pc = "fees"]]
                /\ StartFetch(q)
                /\ UNCHANGED <<clock, cache>>

\* The route each door selects once the fees are known.
RouteWithFees(r, est) ==
    LET methods == Methods(r.ask.door, r.ask.profile)
    IN  CASE r.ask.door = "send" ->
               LET m == select_priority_route(methods, r.ask.sats, est, TRUE)
               IN  IF m = None THEN None ELSE Quote(m, 0, None)
          [] OTHER -> select_route(methods, r.ask.sats, est, "Normal")

RouteOrFail(q, est) ==
    LET r == request[q]
        route == RouteWithFees(r, est)
    IN  IF route = None THEN Answer(q, r, Doors[r.ask.door].unroutable) ELSE Routed(q, r, route)

\* The fee sources have answered or timed out.
FeesArrive(q) ==
    /\ request[q].pc = "fees"
    /\ FinishFetch(q)
    /\ RouteOrFail(q, fetch'[q].report.estimate)
    /\ clock' = clock

\* An invoice of another amount, without one, or expired, is refused.
validate_bolt11_invoice(pr, msats, now) == pr.amount = msats /\ now < pr.expires

\* fetch_lnurl_metadata and fetch_invoice; None is any failure on the way.
fetch_invoice(answer, sats, now) ==
    IF /\ answer # Silent
       /\ sats * 1000 >= answer.min /\ sats * 1000 <= answer.max
       /\ answer.pr # None
       /\ validate_bolt11_invoice(answer.pr, sats * 1000, now)
    THEN [amount_msats |-> answer.pr.amount, expires |-> answer.pr.expires] ELSE None

\* Without an invoice the quote falls back to the pointer, the preview fails and the quote
\* command shows nothing to pay.
Invoiced(q, invoice) ==
    LET r == request[q]
    IN  IF invoice # None
        THEN Answer(q, [r EXCEPT !.payload = "invoice", !.invoice = invoice], "ok")
        ELSE CASE r.ask.door = "quote" -> Answer(q, r, "ok")
               [] r.ask.door = "cli" -> Answer(q, [r EXCEPT !.payload = "none"], "unavailable")
               [] OTHER -> Answer(q, [r EXCEPT !.payload = "none"], "error")

LnurlInvoice(q) ==
    LET r == request[q]
    IN  /\ r.pc = "invoice" /\ InvoiceFrom(r.ask.door, r.route.method) = "lnurl"
        /\ \E answer \in LnurlAnswers \cup {Silent} :
              Invoiced(q, fetch_invoice(answer, r.ask.sats, clock))
        /\ UNCHANGED fvars

Bolt12Invoice(q) ==
    LET r == request[q]
        offer == parse_bolt12_offer(r.route.method.offer)
    IN  /\ r.pc = "invoice" /\ InvoiceFrom(r.ask.door, r.route.method) = "bolt12"
        /\ \E answer \in Bolt12Answers, gateway \in {"proxy", "none"} :
              Invoiced(q, IF offer.ok
                          THEN fetch_bolt12_invoice(offer, r.ask.sats * 1000, clock, gateway, answer)
                          ELSE None)
        /\ UNCHANGED fvars

Pass == Tick /\ UNCHANGED <<cache, fetch, request>>

Step(q) ==
    \/ Ask(q)
    \/ \E failed \in BOOLEAN : NotFound(q, failed)
    \/ \E profile \in Profiles : Found(q, profile)
    \/ FeesArrive(q)
    \/ LnurlInvoice(q)
    \/ Bolt12Invoice(q)

Next == Pass \/ \E q \in Fetches : Step(q)

Spec == Init /\ [][Next]_vars

--------------------------------------------------------------------------------
(* Properties *)

\* What the user is asked to pay belongs to the recipient: there is a pointer or an invoice to
\* pay, the method is one of a profile with a valid signature, through the daemon one whose
\* ownership is proved, and through the doors that use select_route one that carries the
\* amount asked for: a string that is no offer at all sets no limit.
PaysTheRecipient ==
    \A q \in Fetches :
        LET r == request[q]
            p == r.ask.profile
            m == r.route.method
        IN  r.status = "ok" =>
                /\ r.payload # "none"
                /\ p.valid
                /\ m \in Range(p.methods)
                /\ r.ask.door = "daemon" => m \in p.verified
                /\ r.ask.door # "send" /\ m.rail \in {"Lightning", "Bolt12"} =>
                       /\ r.ask.sats < LIGHTNING_THRESHOLD_SATS
                       /\ m.rail = "Bolt12" => r.ask.sats >= m.minimum
                       /\ m.offer # None /\ parse_bolt12_offer(m.offer).ok =>
                             r.ask.sats * 1000 >=
                               (IF parse_bolt12_offer(m.offer).amount_msats = None THEN 0
                                ELSE parse_bolt12_offer(m.offer).amount_msats)

================================================================================
