--------------------------------- MODULE Bolt12 --------------------------------
(***************************************************************************)
(* BOLT12 offers, invoice requests and invoices (satspath-router:          *)
(* bolt12.rs): the TLV codec, what the parsers read from a stream, what    *)
(* the builders write, and the checks an invoice passes.                   *)
(*                                                                         *)
(* Abstractions.  A byte is a digit in base Base (256 in the code) and a   *)
(* key takes KeyLen bytes (33 in the code), so that small instances reach  *)
(* every length prefix.  The bech32 layer is dropped: an encoded string is *)
(* its human-readable part and its bytes, Garbage for data that bech32     *)
(* refuses.  Signatures are written and read but verified nowhere in the   *)
(* code, so they are left out.                                             *)
(***************************************************************************)
EXTENDS Integers, Sequences, SequencesExt, FiniteSetsExt

CONSTANTS
    Base,    \* digits of a byte
    KeyLen,  \* bytes of a node id
    Garbage, \* data bech32 refuses
    None     \* an absent value

ASSUME BaseAssumption == Base \in Nat /\ Base >= 4
ASSUME KeyLenAssumption == KeyLen \in Nat \ {0}

--------------------------------------------------------------------------------
(* Numbers *)

Byte == 0 .. Base - 1

\* The number a byte string spells, most significant byte first.
FromBigEndian(bytes) == FoldLeft(LAMBDA acc, b : acc * Base + b, 0, bytes)

ToBigEndian(n, width) == [i \in 1 .. width |-> (n \div Base ^ (width - i)) % Base]

\* Read the first n bytes of a stream.
ReadExact(bytes, n) ==
    IF Len(bytes) < n THEN [ok |-> FALSE, value |-> <<>>, rest |-> <<>>]
    ELSE [ok |-> TRUE, value |-> SubSeq(bytes, 1, n), rest |-> SubSeq(bytes, n + 1, Len(bytes))]

\* The bytes that follow each of the three markers.
WidthAfter(first) ==
    IF first = Base - 3 THEN 2 ELSE IF first = Base - 2 THEN 4 ELSE 8

read_bigsize(bytes) ==
    IF bytes = <<>> THEN [ok |-> FALSE, value |-> 0, rest |-> <<>>]
    ELSE IF Head(bytes) <= Base - 4
         THEN [ok |-> TRUE, value |-> Head(bytes), rest |-> Tail(bytes)]
         ELSE LET r == ReadExact(Tail(bytes), WidthAfter(Head(bytes)))
              IN  [r EXCEPT !.value = FromBigEndian(r.value)]

\* Mutant: the two-byte form starts one value too late.
write_bigsize_OffByOne(n) ==
    IF n <= Base - 3 THEN <<n>>
    ELSE IF n < Base ^ 2 THEN <<Base - 3>> \o ToBigEndian(n, 2)
    ELSE IF n < Base ^ 4 THEN <<Base - 2>> \o ToBigEndian(n, 4)
    ELSE <<Base - 1>> \o ToBigEndian(n, 8)

write_bigsize(n) ==
    IF n <= Base - 4 THEN <<n>>
    ELSE IF n < Base ^ 2 THEN <<Base - 3>> \o ToBigEndian(n, 2)
    ELSE IF n < Base ^ 4 THEN <<Base - 2>> \o ToBigEndian(n, 4)
    ELSE <<Base - 1>> \o ToBigEndian(n, 8)

\* A truncated integer: no leading zero bytes, none at all for 0.
write_tu64(n) ==
    LET width == CHOOSE w \in 0 .. 8 : /\ n < Base ^ w
                                       /\ w > 0 => n >= Base ^ (w - 1)
    IN  ToBigEndian(n, width)

\* Leading zeros are accepted, more than eight bytes are not.
read_tu64(bytes) == IF Len(bytes) > 8 THEN None ELSE FromBigEndian(bytes)

--------------------------------------------------------------------------------
(* TLV streams *)

Record(tag, value) == [tag |-> tag, value |-> value]

\* The value that follows a tag and a length.
ReadValue(tag, len) ==
    LET val == ReadExact(len.rest, len.value)
    IN  [ok |-> tag.ok /\ len.ok /\ val.ok, record |-> Record(tag.value, val.value), rest |-> val.rest]

ReadRecord(tag) == ReadValue(tag, read_bigsize(tag.rest))

InFront(first, others) ==
    IF first.ok /\ others.ok THEN [ok |-> TRUE, records |-> <<first.record>> \o others.records]
    ELSE [ok |-> FALSE, records |-> <<>>]

\* The decoder checks neither the order of the tags nor their uniqueness.  A length that is
\* longer than what is left is an error here; in the code the buffer for it is allocated before
\* it is filled, so that a length no memory can hold ends the process instead.
decode_tlv_stream[bytes \in Seq(Byte)] ==
    IF bytes = <<>> THEN [ok |-> TRUE, records |-> <<>>]
    ELSE LET first == ReadRecord(read_bigsize(bytes))
         IN  InFront(first, decode_tlv_stream[first.rest])

\* The encoder sorts by tag; the sort is stable.
SortByTag(records) ==
    FoldLeft(LAMBDA sorted, r :
                 LET n == Cardinality({i \in DOMAIN sorted : sorted[i].tag <= r.tag})
                 IN  InsertAt(sorted, n + 1, r),
             <<>>, records)

encode_tlv_stream(records) ==
    FoldLeft(LAMBDA out, r : out \o write_bigsize(r.tag) \o write_bigsize(Len(r.value)) \o r.value,
             <<>>, SortByTag(records))

--------------------------------------------------------------------------------
(* Blinded paths *)

BlindedHop == [node : [1 .. KeyLen -> Byte], payload : Seq(Byte)]

\* An absent blinding point is written as zeros.
BlindedPathBytes(path) ==
    FoldLeft(LAMBDA out, hop : out \o hop.node \o write_bigsize(Len(hop.payload)) \o hop.payload,
             path.introduction
               \o (IF path.blinding = None THEN [i \in 1 .. KeyLen |-> 0] ELSE path.blinding)
               \o write_bigsize(Len(path.hops)),
             path.hops)

\* Read the next hop of a path: [ok, hops, rest].
ReadHop(state) ==
    LET node == ReadExact(state.rest, KeyLen)
        len == read_bigsize(node.rest)
        payload == ReadExact(len.rest, len.value)
    IN  IF state.ok /\ node.ok /\ len.ok /\ payload.ok
        THEN [ok |-> TRUE, rest |-> payload.rest,
              hops |-> Append(state.hops, [node |-> node.value, payload |-> payload.value])]
        ELSE [state EXCEPT !.ok = FALSE]

\* Bytes after the last hop are ignored.
DecodeBlindedPath(bytes) ==
    LET intro == ReadExact(bytes, KeyLen)
        blinding == ReadExact(intro.rest, KeyLen)
        count == read_bigsize(blinding.rest)
        hops == FoldLeft(LAMBDA state, i : ReadHop(state),
                         [ok |-> intro.ok /\ blinding.ok /\ count.ok,
                          rest |-> count.rest, hops |-> <<>>],
                         [i \in 1 .. count.value |-> i])
    IN  [ok |-> hops.ok,
         path |-> [introduction |-> intro.value, blinding |-> blinding.value, hops |-> hops.hops]]

--------------------------------------------------------------------------------
(* Offers *)

TLV_OFFER_AMOUNT == 8
TLV_OFFER_ABSOLUTE_EXPIRY == 14
TLV_OFFER_PATHS == 16
TLV_INVREQ_METADATA == 0
TLV_INVREQ_AMOUNT == 4
TLV_INVREQ_QUANTITY == 8
TLV_INVOICE_CREATED_AT == 6
TLV_INVOICE_RELATIVE_EXPIRY == 8
TLV_INVOICE_AMOUNT == 12

\* The records of an encoded string; its tags are below Base - 3 only when Base > 20.
Records(data) ==
    IF data = Garbage THEN [ok |-> FALSE, records |-> <<>>] ELSE decode_tlv_stream[data]

\* The number the last readable record with this tag holds.
NumberAt(records, tag, default) ==
    LET readable == {i \in DOMAIN records : records[i].tag = tag /\ Len(records[i].value) <= 8}
    IN  IF readable = {} THEN default ELSE read_tu64(records[Max(readable)].value)

OfferOf(string, r) ==
    LET amount == NumberAt(r, TLV_OFFER_AMOUNT, None)
    IN  [ok |-> string.hrp \in {"lno", "lnot", "lnob", "lnos"},
         string |-> string,
         amount_msats |-> amount,
         min_amount_msats |-> amount,
         max_amount_msats |-> None,
         absolute_expiry |-> NumberAt(r, TLV_OFFER_ABSOLUTE_EXPIRY, None),
         blinded |-> \E i \in DOMAIN r : r[i].tag = TLV_OFFER_PATHS /\ DecodeBlindedPath(r[i].value).ok]

\* A prefix that is not an offer's is an error; data that cannot be decoded is not: it
\* gives an offer without amount, limits or expiry.
parse_bolt12_offer(string) == OfferOf(string, Records(string.data).records)

OfferExpired(offer, now) == offer.absolute_expiry # None /\ now >= offer.absolute_expiry

is_amount_valid(offer, msats) ==
    /\ offer.amount_msats # None /\ offer.amount_msats > 0 => msats >= offer.amount_msats
    /\ offer.min_amount_msats # None => msats >= offer.min_amount_msats
    /\ offer.max_amount_msats # None => msats <= offer.max_amount_msats

--------------------------------------------------------------------------------
(* Invoice requests and invoices *)

create_invoice_request(offer, msats, quantity) ==
    [offer |-> offer.string, amount_msats |-> msats, quantity |-> quantity]

OptionalNumber(tag, n) == IF n = None THEN <<>> ELSE <<Record(tag, write_tu64(n))>>

EncodeInvoiceRequest(request) ==
    [hrp |-> IF request.offer.hrp = "lnot" THEN "lnrt" ELSE "lnr",
     data |-> encode_tlv_stream(
                  <<Record(TLV_INVREQ_METADATA, <<1, 2, 3>>),
                    Record(TLV_INVREQ_AMOUNT, write_tu64(request.amount_msats))>>
                  \o OptionalNumber(TLV_INVREQ_QUANTITY, request.quantity))]

parse_bolt12_invoice_request(string) ==
    LET r == Records(string.data).records
    IN  [ok |-> string.hrp \in {"lnr", "lnrt"},
         amount_msats |-> NumberAt(r, TLV_INVREQ_AMOUNT, 0),
         quantity |-> NumberAt(r, TLV_INVREQ_QUANTITY, None)]

\* Mutant: the relative expiry is left out.
EncodeInvoice_NoExpiry(invoice) ==
    [hrp |-> "lni",
     data |-> encode_tlv_stream(<<Record(TLV_INVOICE_CREATED_AT, write_tu64(invoice.created_at)),
                                  Record(TLV_INVOICE_AMOUNT, write_tu64(invoice.amount_msats))>>)]

EncodeInvoice(invoice) ==
    [hrp |-> "lni",
     data |-> encode_tlv_stream(
                  <<Record(TLV_INVOICE_CREATED_AT, write_tu64(invoice.created_at))>>
                  \o OptionalNumber(TLV_INVOICE_RELATIVE_EXPIRY, invoice.relative_expiry)
                  \o <<Record(TLV_INVOICE_AMOUNT, write_tu64(invoice.amount_msats))>>)]

\* Without a decodable amount the invoice is for 0, without an expiry it never expires.
parse_bolt12_invoice(string) ==
    LET r == Records(string.data).records
    IN  [ok |-> string.hrp \in {"lni", "lnit", "lnib"},
         amount_msats |-> NumberAt(r, TLV_INVOICE_AMOUNT, 0),
         created_at |-> NumberAt(r, TLV_INVOICE_CREATED_AT, 0),
         relative_expiry |-> NumberAt(r, TLV_INVOICE_RELATIVE_EXPIRY, None),
         absolute_expiry |-> None]

create_invoice_from_request(request, now, relative) ==
    [ok |-> TRUE, amount_msats |-> request.amount_msats, created_at |-> now,
     relative_expiry |-> IF relative = None THEN 7200 ELSE relative,
     absolute_expiry |-> None]

\* An absolute expiry counts, although no parser, builder or encoder here sets one.
InvoiceExpired(invoice, now) ==
    \/ invoice.absolute_expiry # None /\ now >= invoice.absolute_expiry
    \/ invoice.relative_expiry # None /\ now >= invoice.created_at + invoice.relative_expiry

\* An invoice without an amount passes.
validate_bolt12_invoice(invoice, msats, now) ==
    /\ invoice.amount_msats \in {0, msats}
    /\ ~InvoiceExpired(invoice, now)

validate_bolt12_invoice_against_offer(invoice, offer, msats, now) ==
    /\ validate_bolt12_invoice(invoice, msats, now)
    /\ offer.amount_msats # None /\ offer.amount_msats > 0 =>
           invoice.amount_msats = offer.amount_msats

\* The gateway's answer is parsed and validated for the amount, not against the offer.
\* Without a gateway the call fails; in mock mode the invoice is made here.
fetch_bolt12_invoice(offer, msats, now, gateway, answer) ==
    LET made == create_invoice_from_request(create_invoice_request(offer, msats, None), now, 3600)
        parsed == parse_bolt12_invoice(answer)
    IN  IF OfferExpired(offer, now) \/ ~is_amount_valid(offer, msats) THEN None
        ELSE CASE gateway = "mock" -> made
               [] gateway = "proxy" ->
                      IF parsed.ok /\ validate_bolt12_invoice(parsed, msats, now) THEN parsed ELSE None
               [] OTHER -> None

================================================================================
