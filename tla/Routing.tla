-------------------------------- MODULE Routing --------------------------------
(***************************************************************************)
(* The route selections (satspath-router: router.rs, lightning.rs,         *)
(* onchain.rs, ark.rs, urgency.rs, priority.rs, scoring.rs, ark_routes.rs, *)
(* split_payments.rs; satspath-core: split.rs; satspath-wasm: router.rs)   *)
(* as functions of a profile's methods, an amount and a fee estimate.      *)
(*                                                                         *)
(* Abstractions.  A method is its rail and what the selections ask of it;  *)
(* labels, reasons and texts are left out.  Rates are whole sat/vB.        *)
(***************************************************************************)
EXTENDS Integers, Sequences, SequencesExt, FiniteSetsExt, Bolt12

Rails == {"Lightning", "Bolt12", "Onchain", "Ark"}

\* A method of a profile.
Method == [rail : Rails,
           address : BOOLEAN,  \* Lightning: a Lightning address
           lnurl : BOOLEAN,    \* Lightning: an LNURL
           offer : [hrp : STRING, data : Seq(Byte) \cup {Garbage}] \cup {None},
           minimum : Nat,      \* Bolt12: minimum_amount_sats, 0 when absent
           silent : BOOLEAN,   \* Onchain: a silent payment key
           network : {"mainnet", "testnet"},
           complexity : 1 .. 3,\* Onchain: what the descriptor hint says
           server : STRING,    \* Ark: the server
           opaque : BOOLEAN]   \* Ark: an opaque uri

NoMethod == [rail |-> "Lightning", address |-> FALSE, lnurl |-> FALSE, offer |-> None,
             minimum |-> 0, silent |-> FALSE, network |-> "mainnet", complexity |-> 1,
             server |-> "", opaque |-> FALSE]

\* The first method that passes a test (Iterator::find), the first one on a rail, and the first
\* of two choices that is there.
FirstThat(methods, Test(_)) ==
    LET i == SelectInSeq(methods, Test) IN IF i = 0 THEN None ELSE methods[i]
OnRail(methods, rail) == FirstThat(methods, LAMBDA m : m.rail = rail)
OrElse(choice, other) == IF choice # None THEN choice ELSE other

--------------------------------------------------------------------------------
(* What each rail can carry and costs *)

LIGHTNING_THRESHOLD_SATS == 100000
DEFAULT_MIN_SENDABLE_MSATS == 1000000

\* The tier each urgency pays for, from the slowest.
Urgencies == [Economy |-> 2, Normal |-> 3, Commercial |-> 4, Urgent |-> 5]

is_lightning_available(m) ==
    \/ m.rail = "Lightning" /\ (m.lnurl \/ m.address \/ m.offer # None)
    \/ m.rail = "Bolt12"

\* A string that is no offer at all does not bound the amount.
OfferAllows(offer, msats) == offer.ok => is_amount_valid(offer, msats)

\* With an address and an LNURL but no offer a method carries nothing.
is_lightning_available_for_amount_sync(m, sats) ==
    \/ /\ \/ m.rail = "Lightning" /\ m.offer # None
          \/ m.rail = "Bolt12" /\ sats >= m.minimum
       /\ OfferAllows(parse_bolt12_offer(m.offer), sats * 1000)
    \/ m.rail = "Lightning" /\ m.offer = None /\ m.lnurl /\ ~m.address
    \/ m.rail = "Lightning" /\ m.offer = None /\ m.address /\ ~m.lnurl
         /\ sats * 1000 >= DEFAULT_MIN_SENDABLE_MSATS

estimate_lightning_fee_sats(sats) == Max({1, sats \div 10000})

\* Multiples of ten whose product with 1.10 lies above the integer in floating point
\* (rates up to 240).
FloatExcess == {50, 90, 100, 110} \cup {10 * k : k \in 17 .. 23}

\* (rate as f64 * 1.10).ceil()
WithBuffer(rate) == (rate * 11 + 9) \div 10 + (IF rate \in FloatExcess THEN 1 ELSE 0)

apply_fee_safety_margin(rate) == Max({rate + (rate + 9) \div 10, 1})

estimate_onchain_fee_sats(rate) == 141 * apply_fee_safety_margin(rate)

Directive(m) ==
    CASE m.rail = "Bolt12" \/ (m.rail = "Lightning" /\ m.offer # None) -> "Bolt12Payment"
      [] m.rail = "Lightning" /\ m.offer = None -> "LightningPayment"
      [] m.rail = "Onchain" -> "ChainSwap"
      [] m.rail = "Ark" -> IF m.opaque THEN "ArkadeManual" ELSE "ArkTransfer"

Quote(m, fee, execution) ==
    [method |-> m, fee |-> fee, directive |-> Directive(m), execution |-> execution]

--------------------------------------------------------------------------------
(* select_route *)

\* Lightning is for small amounts.
LightningQuote(ln, sats) ==
    IF sats < LIGHTNING_THRESHOLD_SATS /\ ln # None
    THEN Quote(ln, estimate_lightning_fee_sats(sats), None)
    ELSE None

\* The first Lightning method that can carry the amount; fees are not looked at.
LightningRoute(methods, sats) ==
    LET Carries(m) == is_lightning_available(m) /\ is_lightning_available_for_amount_sync(m, sats)
    IN  LightningQuote(FirstThat(methods, Carries), sats)

\* Mutant: the last resort is forgotten.
ChainRoute_NoLastResort(methods, rate) ==
    LET onchain == OnRail(methods, "Onchain")
        ark == OnRail(methods, "Ark")
    IN  IF onchain # None /\ rate <= 10 THEN Quote(onchain, estimate_onchain_fee_sats(rate), None)
        ELSE IF ark # None THEN Quote(ark, 1, IF ark.opaque THEN "ManualWallet" ELSE None)
        ELSE None

\* On-chain when it is cheap, then Ark, then on-chain at any price.
ChainRoute(methods, rate) ==
    LET onchain == OnRail(methods, "Onchain")
        ark == OnRail(methods, "Ark")
    IN  IF onchain # None /\ rate <= 10 THEN Quote(onchain, estimate_onchain_fee_sats(rate), None)
        ELSE IF ark # None THEN Quote(ark, 1, IF ark.opaque THEN "ManualWallet" ELSE None)
        ELSE IF onchain # None THEN Quote(onchain, estimate_onchain_fee_sats(rate), None)
        ELSE None

select_route(methods, sats, est, urgency) ==
    OrElse(LightningRoute(methods, sats), ChainRoute(methods, WithBuffer(est[Urgencies[urgency]])))

\* The deterministic variant asks only for the amount.
select_route_with_fees(methods, sats, est, urgency) ==
    LET Carries(m) == is_lightning_available_for_amount_sync(m, sats)
    IN  OrElse(LightningQuote(FirstThat(methods, Carries), sats),
               ChainRoute(methods, WithBuffer(est[Urgencies[urgency]])))

--------------------------------------------------------------------------------
(* The browser's router *)

\* Any pointer will do, whatever the amount; Bolt12 is not a method here.
WasmLightningAvailable(m) == m.rail = "Lightning" /\ (m.address \/ m.lnurl \/ m.offer # None)

WasmLightningFee(sats) == (sats + 9999) \div 10000

WasmOnchainFee(rate) == Max({140 * rate, 1})

wasm_select_route(methods, sats, est, urgency) ==
    LET ln == FirstThat(methods, WasmLightningAvailable)
        onchain == OnRail(methods, "Onchain")
        ark == OnRail(methods, "Ark")
        rate == WithBuffer(est[Urgencies[urgency]])
        Onchain == Quote(onchain, WasmOnchainFee(rate), "ManualWallet")
    IN  IF sats < LIGHTNING_THRESHOLD_SATS /\ ln # None
        THEN Quote(ln, WasmLightningFee(sats), "ManualWallet")
        ELSE IF onchain # None /\ rate <= 10 THEN Onchain
        ELSE IF ark # None
             THEN Quote(ark, 1, IF ark.opaque THEN "ManualWallet" ELSE "TestnetExperimental")
        ELSE IF onchain # None THEN Onchain
        ELSE None

--------------------------------------------------------------------------------
(* The priority router: on-chain, Lightning, Ark *)

SMALL_PAYMENT_SATS == 1000
HIGH_FEE_SAT_VB == 30
LARGE_PAYMENT_SATS == 5000000

select_priority_route(methods, sats, est, routing_ok) ==
    LET onchain == OnRail(methods, "Onchain")
        lightning == FirstThat(methods, LAMBDA m : m.rail \in {"Lightning", "Bolt12"})
        ark == OnRail(methods, "Ark")
    IN  IF onchain # None /\ est[5] <= HIGH_FEE_SAT_VB /\ sats >= SMALL_PAYMENT_SATS THEN onchain
        ELSE IF lightning # None /\ routing_ok /\ sats <= LARGE_PAYMENT_SATS THEN lightning
        ELSE IF ark # None THEN ark
        ELSE IF onchain # None THEN onchain
        ELSE lightning

--------------------------------------------------------------------------------
(* The scored router *)

\* A route for an Ark sender or receiver.
plan_ark_route(sender, methods) ==
    LET ark == OnRail(methods, "Ark")
        lightning == \E i \in DOMAIN methods : methods[i].rail \in {"Lightning", "Bolt12"}
        onchain == OnRail(methods, "Onchain") # None
    IN  IF sender.server # None /\ ark # None /\ ark.server = sender.server THEN "ArkToArk"
        ELSE IF sender.server # None /\ lightning THEN "ArkToLightning"
        ELSE IF sender.lightning /\ ark # None THEN "LightningToArk"
        ELSE IF sender.server # None /\ onchain THEN "ArkToOnchain"
        ELSE IF sender.onchain /\ ark # None THEN "OnchainToArk"
        ELSE None

HasBlindedPath(offer) == offer.ok /\ offer.blinded

\* A method as a candidate; None for a Lightning method without a pointer.
Candidate(m, sats, prefs, rate) ==
    LET c == [rail |-> IF m.rail = "Bolt12" THEN "Lightning" ELSE m.rail, method |-> m,
              fee |-> 0, seconds |-> 0, privacy |-> 0, reliability |-> 0, available |-> TRUE]
        blinded == m.offer # None /\ HasBlindedPath(parse_bolt12_offer(m.offer))
    IN  CASE m.rail = "Lightning" ->
               IF ~is_lightning_available(m) THEN None
               ELSE [c EXCEPT !.fee = estimate_lightning_fee_sats(sats), !.seconds = 5,
                              !.privacy = IF m.address \/ m.lnurl THEN 7
                                          ELSE IF blinded THEN 9 ELSE 8,
                              !.reliability = 8]
          [] m.rail = "Bolt12" ->
               [c EXCEPT !.fee = estimate_lightning_fee_sats(sats), !.seconds = 2,
                         !.privacy = IF blinded THEN 9 ELSE 8, !.reliability = 9]
          [] m.rail = "Onchain" ->
               [c EXCEPT !.fee = rate * 141, !.seconds = 600, !.privacy = 4,
                         !.reliability = 10 - m.complexity, !.available = sats >= 546]
          [] m.rail = "Ark" ->
               [c EXCEPT !.fee = 1, !.seconds = 30, !.privacy = 8,
                         !.reliability = IF prefs.ark THEN 5 ELSE 2, !.available = prefs.ark]

\* The profile's own order of preference is a list of rails.
candidate_score(c, sats, prefs, order) ==
    LET position == {i \in DOMAIN order : order[i] = c.rail}
    IN  c.reliability * 10 + c.privacy * (IF prefs.privacy THEN 8 ELSE 2)
        - (IF prefs.speed THEN c.seconds \div 30 ELSE 0)
        - (IF prefs.cheap THEN c.fee \div 10 ELSE 0)
        + (IF c.rail = "Lightning" /\ sats <= 1000000 THEN 30 ELSE 0)
        + (IF c.rail = "Onchain" /\ sats >= 1000000 THEN 20 ELSE 0)
        - (IF c.rail = "Ark" /\ ~prefs.ark THEN 1000 ELSE 0)
        + (IF position = {} THEN 0 ELSE 50 - (Min(position) - 1) * 10)

\* Mutant: the limit on the fee is compared after the choice, so it filters nothing.
Eligible_AnyFee(c, prefs) == c # None /\ c.available

\* A candidate that is available and within the limit on the fee.
Eligible(c, prefs) ==
    c # None /\ c.available /\ (prefs.max_fee # None => c.fee <= prefs.max_fee)

\* Of candidates with their places (enumerate) the one with the highest score, the last of several.
BestOf(eligible, sats, prefs, order) ==
    LET Score(c) == candidate_score(c[2], sats, prefs, order)
    IN  CHOOSE best \in eligible :
            \A c \in eligible : Score(c) < Score(best) \/ (Score(c) = Score(best) /\ c[1] <= best[1])

score_routes(methods, sats, prefs, rate, order) ==
    LET candidates == {<<i, Candidate(methods[i], sats, prefs, rate)>> : i \in DOMAIN methods}
        eligible == {c \in candidates : Eligible(c[2], prefs)}
    IN  IF eligible = {} THEN None ELSE BestOf(eligible, sats, prefs, order)[2]

--------------------------------------------------------------------------------
(* Split payments *)

\* Percentages that add up to 100, none of them 0.
ValidSplit(percents) ==
    /\ percents # <<>>
    /\ FoldLeft(+, 0, percents) = 100
    /\ \A i \in DOMAIN percents : percents[i] # 0

\* Mutant: every share is rounded up.
SplitAmount_RoundedUp(total, percent) == (total * percent + 99) \div 100

\* Every share is rounded down.
SplitAmount(total, percent) == (total * percent) \div 100

\* What the routes of the shares add up to.
SplitResult(total, percents, routes) ==
    LET routed == {i \in DOMAIN percents : routes[i] # None}
    IN  [routes |-> routes,
         all_routed |-> routed = DOMAIN percents,
         amount |-> FoldLeft(LAMBDA acc, i : acc + (IF i \in routed
                                    THEN SplitAmount(total, percents[i]) ELSE 0), 0,
                               [i \in DOMAIN percents |-> i]),
         fee |-> FoldLeft(LAMBDA acc, i : acc + (IF i \in routed THEN routes[i].fee ELSE 0), 0,
                          [i \in DOMAIN percents |-> i])]

\* Each share is routed on its own; a share without a profile or a route is an error.
route_split_payment(total, percents, profiles, est, urgency) ==
    LET Route(i) == IF profiles[i] = None THEN None
                    ELSE select_route(profiles[i], SplitAmount(total, percents[i]), est, urgency)
    IN  SplitResult(total, percents, [i \in DOMAIN percents |-> Route(i)])

================================================================================
