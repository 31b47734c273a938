------------------------------- MODULE MCPayments ------------------------------
(* Model-checking instances of the payment requests. *)
EXTENDS Payments, TLC

CONSTANTS core, esplora, mempool, q1, q2

\* One source of each kind; the mempool server may say anything.
KindOf == core :> "core" @@ esplora :> "esplora" @@ mempool :> "mempool"
RepliesOf ==
    core :> {Silent, 1 :> 400 @@ 6 :> 81} @@
    esplora :> {2 :> 105 @@ 6 :> 62 @@ 144 :> 10} @@
    mempool :> {Silent, <<1, 1, 1, 1, 1>>, <<0, 300, 200, 100, 50>>}

\* An offer for two thousand sats with an expiry, and one without limits.
Offer(records) == [hrp |-> "lno", data |-> encode_tlv_stream(records)]
TwoThousand == Offer(<<Record(TLV_OFFER_ABSOLUTE_EXPIRY, write_tu64(2)),
                       Record(TLV_OFFER_AMOUNT, write_tu64(2000000))>>)

ByAddress == [NoMethod EXCEPT !.address = TRUE]
ByOffer == [NoMethod EXCEPT !.offer = TwoThousand]
Bolt12Method == [NoMethod EXCEPT !.rail = "Bolt12", !.offer = Offer(<<>>)]
Chain == [NoMethod EXCEPT !.rail = "Onchain"]
SilentChain == [Chain EXCEPT !.silent = TRUE]
ArkServer == [NoMethod EXCEPT !.rail = "Ark", !.server = "s"]
Arkade == [NoMethod EXCEPT !.rail = "Ark", !.opaque = TRUE]

ProfileOf(methods, verified, expires) ==
    [valid |-> TRUE, expires |-> expires, methods |-> methods, verified |-> verified]
SomeProfiles ==
    {ProfileOf(<<Chain, ByAddress>>, {Chain}, 1),
     ProfileOf(<<ByOffer, Arkade, SilentChain>>, {ByOffer, Arkade}, None),
     ProfileOf(<<Bolt12Method, ArkServer>>, {}, None),
     [ProfileOf(<<>>, {}, None) EXCEPT !.valid = FALSE]}

\* A server with an invoice of the amount, of another, of none, and one without any.
SomeLnurlAnswers ==
    {[min |-> 1000, max |-> 50000000, pr |-> [amount |-> 1000000, expires |-> 2]],
     [min |-> 1000, max |-> 50000000, pr |-> [amount |-> 2000000, expires |-> 2]],
     [min |-> 1000, max |-> 50000000, pr |-> [amount |-> None, expires |-> 3]],
     [min |-> 1000, max |-> 50000000, pr |-> None]}

InvoiceOf(msats, at) ==
    EncodeInvoice([amount_msats |-> msats, created_at |-> at, relative_expiry |-> 1])
SomeBolt12Answers == {InvoiceOf(1000000, 0), [hrp |-> "lni", data |-> Garbage], [hrp |-> "", data |-> Garbage]}

\* One request through any door, another that shares the fee cache with it.
AsksOf == q1 :> (DOMAIN Doors) \X {0, 1000, 100000} @@ q2 :> {<<"daemon", 100000>>}

================================================================================
