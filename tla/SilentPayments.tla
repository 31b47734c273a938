----------------------------- MODULE SilentPayments ----------------------------
(***************************************************************************)
(* Silent payments (satspath-router: silent_payments.rs): what the sender  *)
(* derives from the recipient's two public keys and its own inputs, what   *)
(* the recipient finds when it scans a transaction, and the key that       *)
(* spends what it found.                                                   *)
(*                                                                         *)
(* Abstractions.  The curve is the additive group of the integers modulo a *)
(* prime: a point is written as its discrete logarithm, so the public key  *)
(* of a secret is the secret, ECDH is multiplication and an addition that  *)
(* gives the point at infinity (0) fails.  A point and its negative share  *)
(* the x coordinate and differ in parity.  Hashes are parameters.  The     *)
(* address string is its network and its two keys.                         *)
(***************************************************************************)
EXTENDS Integers, Sequences, SequencesExt, FiniteSetsExt

CONSTANTS
    Order,           \* the order of the group
    InputHash(_, _), \* compute_input_hash of an outpoint and an aggregate key
    Tweak(_, _),     \* TaggedHash("BIP0352/SharedSecret") of a secret and an index
    ScanLimit,       \* indices the scan looks at (10 in the code)
    Infinity         \* the result of an operation that fails

Scalars == 1 .. Order - 1

\* Operations on points and scalars; 0 is an error.
NonZero(n) == IF n % Order = 0 THEN Infinity ELSE n % Order
AddPoints(p, q) == IF p = Infinity \/ q = Infinity THEN Infinity ELSE NonZero(p + q)
MulPoint(p, n) == IF p = Infinity THEN Infinity ELSE NonZero(p * n)
negate(n) == Order - n

x_only(p) == Min({p, Order - p})
OddParity(p) == p % 2 = 1

\* A P2TR output.
Script(p) == [x |-> x_only(p)]

--------------------------------------------------------------------------------
(* The address *)

create_silent_payment_address_for_network(scan, spend, network) ==
    [hrp |-> IF network = "mainnet" THEN "sp" ELSE "tsp", version |-> 0, scan |-> scan, spend |-> spend]

\* Signet and regtest addresses come back as testnet.
parse_silent_payment_address(address) ==
    IF address.hrp \in {"sp", "tsp"} /\ address.version = 0
    THEN [scan |-> address.scan, spend |-> address.spend,
          network |-> IF address.hrp = "sp" THEN "mainnet" ELSE "testnet"]
    ELSE Infinity

--------------------------------------------------------------------------------
(* The sender *)

\* Mutant: only the first input's key is used.
AggregateKey_First(secrets) == secrets[1]

\* The sum of the inputs' secret keys.
AggregateKey(secrets) == FoldLeft(AddPoints, secrets[1], Tail(secrets))

\* Inputs: [secret, outpoint]; the smallest outpoint is hashed in when there is one.
SenderSecret(inputs, scan) ==
    LET a == AggregateKey([i \in DOMAIN inputs |-> inputs[i].secret])
        outpoints == {inputs[i].outpoint : i \in DOMAIN inputs} \ {Infinity}
        ecdh == MulPoint(scan, a)
    IN  IF a = Infinity THEN Infinity
        ELSE IF outpoints = {} THEN ecdh ELSE MulPoint(ecdh, InputHash(Min(outpoints), a))

create_output_with_index(inputs, scan, spend, k) ==
    LET S == SenderSecret(inputs, scan)
        p == IF S = Infinity THEN Infinity ELSE AddPoints(spend, Tweak(S, k))
    IN  IF p = Infinity THEN Infinity ELSE Script(p)

--------------------------------------------------------------------------------
(* The recipient *)

\* A miss at index 0 does not stop the scan.
StopsAt(k) == k > 0

\* The indices whose output is in the transaction, up to the first gap; a candidate that cannot
\* be derived fails the whole scan.
scan_outputs_for_shared_secret(spend, S, scripts) ==
    LET At(k) == AddPoints(spend, Tweak(S, k))
        Matches(k) == At(k) # Infinity /\ Script(At(k)) \in scripts
        reached == {k \in 0 .. ScanLimit - 1 : \A j \in 0 .. k - 1 : ~Matches(j) => ~StopsAt(j)}
    IN  IF \E k \in reached : At(k) = Infinity THEN {} ELSE {k \in reached : Matches(k)}

detect_outputs_with_input_hash(scanSecret, spend, aggregate, hash, scripts) ==
    LET S == MulPoint(MulPoint(aggregate, scanSecret), hash)
    IN  IF S = Infinity THEN {} ELSE scan_outputs_for_shared_secret(spend, S, scripts)

\* Without the input hash: the sum of the inputs' public keys is all it uses.
detect_silent_payment_outputs(scanSecret, spend, keys, scripts) ==
    LET S == IF keys = <<>> THEN Infinity
             ELSE MulPoint(FoldLeft(AddPoints, keys[1], Tail(keys)), scanSecret)
    IN  IF S = Infinity \/ scripts = {} THEN {}
        ELSE scan_outputs_for_shared_secret(spend, S, scripts)

\* Mutant: the parity of the public key is ignored.
derive_spending_privkey_AnyParity(spendSecret, S, k) == AddPoints(spendSecret, Tweak(S, k))

\* The key whose public key is even and has the output's x coordinate.
derive_spending_privkey(spendSecret, S, k) ==
    LET sk == AddPoints(spendSecret, Tweak(S, k))
    IN  IF sk = Infinity THEN Infinity ELSE IF OddParity(sk) THEN negate(sk) ELSE sk

derive_spending_privkey_from_scan(spendSecret, scanSecret, sender, k) ==
    derive_spending_privkey(spendSecret, MulPoint(sender, scanSecret), k)

================================================================================
