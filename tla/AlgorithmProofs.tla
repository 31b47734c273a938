---------------------------- MODULE AlgorithmProofs ----------------------------
(***************************************************************************)
(* Machine-checked proofs about the rate limiter, for any number of        *)
(* workers and clients and any capacity, rate and interval, and about what *)
(* silent payments, ownership proofs and the resolver chain compute, for   *)
(* every input.                                                            *)
(***************************************************************************)
EXTENDS RateLimiter, SilentPayments, Ownership, CommonLemmas, TLAPS

CONSTANTS Down, Garbage, Public, MaxRelays, Grace  \* of the resolvers

--------------------------------------------------------------------------------
(* Arithmetic *)

\* A product with a sum, and with a larger number.
LEMMA Products ==
    ASSUME NEW r \in Nat, NEW a \in Int, NEW b \in Int
    PROVE  /\ r * (a + b) = r * a + r * b
           /\ a * r = r * a
           /\ a <= b => r * a <= r * b
           /\ r * 0 = 0 /\ r * 1 = r /\ r * a \in Int
<1>1. r * (a + b) = r * a + r * b /\ a * r = r * a /\ r * 0 = 0 /\ r * 1 = r /\ r * a \in Int
  OBVIOUS
<1>2. ASSUME a <= b PROVE r * a <= r * b
  <2>1. b - a \in Nat
    BY <1>2
  <2>2. r * (b - a) >= 0
    BY <2>1
  <2>3. r * (b - a) = r * b - r * a
    OBVIOUS
  <2> QED BY <2>2, <2>3
<1> QED BY <1>1, <1>2

\* The wait that is told is long enough for what is missing.
LEMMA WaitIsLongEnough ==
    ASSUME Rate > 0, NEW missing \in Nat
    PROVE  RetryAfter(missing) \in Nat /\ RetryAfter(missing) >= 1 /\ Rate * RetryAfter(missing) >= missing
<1>1. Rate \in Nat
  BY LimiterAssumption
<1> DEFINE wait == (missing + Rate - 1) \div Rate
           n == missing + Rate - 1
<1>2. n \in Nat /\ Rate \in Nat \ {0}
  BY <1>1
<1>3. n = Rate * (n \div Rate) + (n % Rate) /\ n % Rate \in 0 .. Rate - 1 /\ n \div Rate \in Int
  BY <1>2
<1>4. n \div Rate \in Nat
  BY <1>2
<1>5. Rate * wait >= missing /\ wait \in Nat
  BY <1>1, <1>3, <1>4
<1> HIDE DEF wait
<1>6. RetryAfter(missing) = IF wait >= 1 THEN wait ELSE 1
  BY DEF RetryAfter, wait
<1>7. CASE wait >= 1
  BY <1>5, <1>6, <1>7
<1>8. CASE ~(wait >= 1)
  <2>1. RetryAfter(missing) = 1 /\ wait <= 1
    BY <1>5, <1>6, <1>8
  <2>2. Rate * wait <= Rate * 1
    BY <2>1, <1>1, <1>5, Products
  <2> QED BY <2>1, <2>2, <1>1, <1>5
<1> QED BY <1>7, <1>8

--------------------------------------------------------------------------------
(* A bucket *)

\* A bucket fills with what flows back, and never above the burst.
LEMMA RefilledBounds ==
    ASSUME NEW b \in Bucket, NEW now \in Nat
    PROVE  /\ Elapsed(b.last_update, now) \in Nat
           /\ Refilled(b, now) \in Nat
           /\ Refilled(b, now) <= Burst
           /\ Refilled(b, now) <= b.tokens + Rate * Elapsed(b.last_update, now)
           /\ \/ Refilled(b, now) = Burst
              \/ Refilled(b, now) = b.tokens + Rate * Elapsed(b.last_update, now)
<1> DEFINE e == Elapsed(b.last_update, now)
<1>1. e \in Nat /\ Rate \in Nat /\ Burst \in Nat /\ b.tokens \in Nat
  BY LimiterAssumption DEF Bucket, Elapsed
<1> HIDE DEF e
<1>2. e * Rate = Rate * e /\ Rate * e \in Nat
  BY <1>1
<1>3. Refilled(b, now) = IF b.tokens + Rate * e <= Burst THEN b.tokens + Rate * e ELSE Burst
  BY <1>2 DEF Refilled, e
<1> QED BY <1>1, <1>2, <1>3 DEF e

\* What try_consume does to a bucket.
LEMMA TryConsume ==
    ASSUME NEW b \in Bucket, NEW now \in Nat
    PROVE  LET result == try_consume(b, now)
               t == Refilled(b, now)
           IN  /\ result.bucket \in Bucket
               /\ result.bucket.last_update = now
               /\ result.allowed \in BOOLEAN
               /\ result.allowed <=> t >= One
               /\ result.bucket.tokens = IF t >= One THEN t - One ELSE t
               /\ ~result.allowed => result.retry_after = RetryAfter(One - t)
<1>1. Refilled(b, now) \in Nat /\ One \in Nat
  BY RefilledBounds, LimiterAssumption
<1> QED BY <1>1 DEF try_consume, Bucket

--------------------------------------------------------------------------------
(* The limiter *)

\* The parts that have flowed back during a stretch, in seconds.
Flow(x) == x.last - x.first + x.rewound

\* What a stretch x was allowed, together with what is left in its bucket, is covered by the
\* burst and what flowed back; a bucket that was dropped was full.
Balanced(x, tracked, b) ==
    /\ Flow(x) \in Nat
    /\ IF tracked
       THEN b.last_update = x.last /\ One * x.allowed + b.tokens <= Burst + Rate * Flow(x)
       ELSE One * x.allowed <= Rate * Flow(x)

\* At the time a refused client was told, its bucket will hold a token.
Promised(x, tracked, b) ==
    Rate > 0 /\ Burst >= One /\ x.promise # 0 =>
        /\ tracked
        /\ b.tokens < One
        /\ b.last_update <= x.promise
        /\ b.tokens + Rate * (x.promise - b.last_update) >= One

\* The address a request counts for is its client's.
Identified(v) == v.pc # "idle" => v.ip \in Addresses /\ v.client = v.ip

LimiterInv ==
    /\ LimiterTypeOK
    /\ DOMAIN buckets \subseteq DOMAIN window
    /\ \A c \in DOMAIN window :
          /\ Balanced(window[c], c \in DOMAIN buckets, buckets[c])
          /\ Promised(window[c], c \in DOMAIN buckets, buckets[c])
    /\ \A w \in Workers : Identified(worker[w])
    /\ Rate > 0 /\ Burst >= One => \A w \in Workers : worker[w].kept

\* An address of a header, or the peer's.
LEMMA ExtractedAddress ==
    ASSUME NEW remote \in Addresses, NEW headers \in HeaderLists, NEW trust \in BOOLEAN
    PROVE  /\ extract_client_ip(remote, headers, trust) \in Addresses
           /\ ~trust => extract_client_ip(remote, headers, trust) = remote
<1> DEFINE First(field) == SelectInSeq(headers, LAMBDA h : h.field = field /\ h.value # 0)
<1>1. ASSUME NEW field, First(field) # 0
      PROVE  headers[First(field)].value \in Addresses
  <2> DEFINE I == {i \in 1 .. Len(headers) : headers[i].field = field /\ headers[i].value # 0}
  <2>1. headers \in Seq([field : STRING, value : Addresses \cup {0}])
    BY LimiterAssumption
  <2>2. First(field) = IF I # {} THEN Min(I) ELSE 0
    BY DEF SelectInSeq
  <2>3. Len(headers) \in Nat /\ I \in SUBSET (1 .. Len(headers))
    BY <2>1
  <2> HIDE DEF First
  <2>4. First(field) \in I
    <3> HIDE DEF I
    <3> QED BY <1>1, <2>2, <2>3, FirstIndex
  <2>5. PICK k : k = First(field)
    OBVIOUS
  <2>6. k \in I
    <3> HIDE DEF I
    <3> QED BY <2>4, <2>5
  <2>8. k \in 1 .. Len(headers) /\ headers[k].value # 0
    BY <2>6
  <2>7. headers[k] \in [field : STRING, value : Addresses \cup {0}]
    <3> DEFINE H == [field : STRING, value : Addresses \cup {0}]
    <3>1. headers \in Seq(H) /\ k \in 1 .. Len(headers)
      BY <2>1, <2>8
    <3> HIDE DEF H
    <3>2. headers[k] \in H
      BY <3>1
    <3> QED BY <3>2 DEF H
  <2> QED BY <2>5, <2>7, <2>8
<1>2. extract_client_ip(remote, headers, trust) =
        IF trust /\ First("x-forwarded-for") # 0 THEN headers[First("x-forwarded-for")].value
        ELSE IF trust /\ First("x-real-ip") # 0 THEN headers[First("x-real-ip")].value
        ELSE remote
  BY DEF extract_client_ip
<1> HIDE DEF First
<1> QED BY <1>1, <1>2

\* A stretch that goes on stays balanced, and what a refused client is told is kept.
LEMMA StretchContinues ==
    ASSUME NEW x \in Window, NEW tracked \in BOOLEAN, NEW b \in Bucket, NEW now \in Nat,
           Balanced(x, tracked, b)
    PROVE  LET result == try_consume(b, now)
               y == Continued(x, now, result)
           IN  y \in Window /\ Balanced(y, TRUE, result.bucket) /\ Promised(y, TRUE, result.bucket)
<1> DEFINE result == try_consume(b, now)
           y == Continued(x, now, result)
           t == Refilled(b, now)
           e == Elapsed(b.last_update, now)
           forth == Elapsed(x.last, now)
           back == Elapsed(now, x.last)
<1>0. Burst \in Nat /\ Rate \in Nat /\ One \in Nat
  BY LimiterAssumption
<1>1. /\ x.first \in Nat /\ x.last \in Nat /\ x.rewound \in Nat /\ x.allowed \in Nat
      /\ b.tokens \in Nat /\ b.last_update \in Nat
  BY DEF Window, Bucket
<1>2. /\ result.bucket \in Bucket /\ result.bucket.last_update = now
      /\ result.allowed \in BOOLEAN /\ (result.allowed <=> t >= One)
      /\ result.bucket.tokens = (IF t >= One THEN t - One ELSE t)
      /\ ~result.allowed => result.retry_after = RetryAfter(One - t)
  BY TryConsume
<1>3. /\ e \in Nat /\ t \in Nat /\ t <= Burst /\ t <= b.tokens + Rate * e
  BY RefilledBounds
<1>4. forth \in Nat /\ back \in Nat /\ now - x.last = forth - back
  BY <1>1 DEF Elapsed
<1>5. /\ y.first = x.first /\ y.last = now /\ y.rewound = x.rewound + back
      /\ y.allowed = (IF result.allowed THEN x.allowed + 1 ELSE x.allowed)
      /\ y.promise = (IF result.allowed THEN 0 ELSE now + result.retry_after)
  BY DEF Continued, Window
<1>6. y = [first |-> y.first, last |-> y.last, rewound |-> y.rewound, allowed |-> y.allowed,
           promise |-> y.promise]
  BY DEF Continued, Window
<1>7. Flow(x) \in Nat /\ (tracked => b.last_update = x.last)
  BY DEF Balanced
<1> HIDE DEF result, t, e, forth, back, y
<1>8. Flow(y) = Flow(x) + forth /\ Flow(y) \in Nat
  <2>1. Flow(y) = now - x.first + (x.rewound + back)
    BY <1>5 DEF Flow
  <2>2. Flow(x) = x.last - x.first + x.rewound
    BY DEF Flow
  <2>3. now - x.first + (x.rewound + back) = x.last - x.first + x.rewound + forth
    BY <1>1, <1>4
  <2> QED BY <1>4, <1>7, <2>1, <2>2, <2>3
<1>9. One * x.allowed + t <= Burst + Rate * Flow(y)
  <2>1. Rate * Flow(y) = Rate * Flow(x) + Rate * forth
    BY <1>0, <1>4, <1>7, <1>8, Products
  <2>2. Rate * forth \in Nat /\ Rate * Flow(x) \in Nat /\ One * x.allowed \in Nat
    BY <1>0, <1>1, <1>4, <1>7
  <2>3. CASE tracked
    <3>1. e = forth
      BY <1>7, <2>3 DEF e, forth
    <3>2. One * x.allowed + b.tokens <= Burst + Rate * Flow(x)
      BY <2>3 DEF Balanced
    <3>3. t <= b.tokens + Rate * forth
      BY <1>3, <3>1
    <3> HIDE DEF Balanced
    <3> QED BY <1>0, <1>1, <1>3, <2>1, <2>2, <3>2, <3>3
  <2>4. CASE ~tracked
    <3>1. One * x.allowed <= Rate * Flow(x)
      BY <2>4 DEF Balanced
    <3> QED BY <1>0, <1>3, <2>1, <2>2, <3>1
  <2> QED BY <2>3, <2>4
<1>10. Balanced(y, TRUE, result.bucket)
  <2>1. CASE t >= One
    <3>1. y.allowed = x.allowed + 1 /\ result.bucket.tokens = t - One
      BY <1>2, <1>5, <2>1
    <3>2. One * y.allowed = One * x.allowed + One /\ One * x.allowed \in Int /\ Rate * Flow(y) \in Int
      <4>1. One * (x.allowed + 1) = One * x.allowed + One * 1 /\ One * 1 = One
        BY <1>0, <1>1, Products
      <4>2. One * x.allowed \in Int /\ Rate * Flow(y) \in Int
        BY <1>0, <1>1, <1>8
      <4> QED BY <3>1, <4>1, <4>2
    <3>3. One * y.allowed + result.bucket.tokens <= Burst + Rate * Flow(y)
      BY <1>0, <1>3, <1>9, <3>1, <3>2
    <3> QED BY <1>2, <1>5, <1>8, <3>3 DEF Balanced
  <2>2. CASE ~(t >= One)
    <3>1. y.allowed = x.allowed /\ result.bucket.tokens = t
      BY <1>2, <1>5, <2>2
    <3> QED BY <1>2, <1>5, <1>8, <1>9, <3>1 DEF Balanced
  <2> QED BY <2>1, <2>2
<1>11. y \in Window /\ Promised(y, TRUE, result.bucket)
  <2>1. CASE t >= One
    <3>1. y.promise = 0 /\ y.allowed \in Nat
      BY <1>1, <1>2, <1>5, <2>1
    <3>2. Promised(y, TRUE, result.bucket)
      BY <3>1 DEF Promised
    <3>3. y.first \in Nat /\ y.last \in Nat /\ y.rewound \in Nat /\ y.promise \in Nat
      BY <1>1, <1>4, <1>5, <3>1
    <3>4. y \in Window
      BY <1>6, <3>1, <3>3 DEF Window
    <3> QED BY <3>2, <3>4
  <2>2. CASE ~(t >= One)
    <3>1. y.promise = now + RetryAfter(One - t) /\ y.allowed \in Nat /\ One - t \in Nat
      BY <1>0, <1>1, <1>2, <1>3, <1>5, <2>2
    <3>2. RetryAfter(One - t) \in Nat
      <4>1. CASE Rate > 0
        BY <4>1, <3>1, WaitIsLongEnough
      <4>2. CASE ~(Rate > 0)
        BY <4>2 DEF RetryAfter
      <4> QED BY <4>1, <4>2
    <3>3. Promised(y, TRUE, result.bucket)
      <4>1. SUFFICES ASSUME Rate > 0
                     PROVE  /\ result.bucket.tokens < One
                            /\ result.bucket.last_update <= y.promise
                            /\ result.bucket.tokens + Rate * (y.promise - result.bucket.last_update) >= One
        BY DEF Promised
      <4>2. Rate * RetryAfter(One - t) >= One - t
        BY <4>1, <3>1, WaitIsLongEnough
      <4>3. y.promise - result.bucket.last_update = RetryAfter(One - t) /\ result.bucket.tokens = t
        BY <1>2, <2>2, <3>1, <3>2
      <4>4. Rate * RetryAfter(One - t) \in Int
        BY <1>0, <3>2
      <4>5. result.bucket.tokens + Rate * (y.promise - result.bucket.last_update) >= One
        BY <1>0, <1>3, <4>2, <4>3, <4>4
      <4> QED BY <1>0, <1>2, <1>3, <2>2, <3>1, <3>2, <4>3, <4>5
    <3>4. y.first \in Nat /\ y.last \in Nat /\ y.rewound \in Nat /\ y.promise \in Nat
      BY <1>1, <1>4, <1>5, <3>1, <3>2
    <3> QED BY <1>6, <3>1, <3>3, <3>4 DEF Window
  <2> QED BY <2>1, <2>2
<1> QED BY <1>10, <1>11 DEF y, result

\* A client that comes after the wait it was told finds a token.
LEMMA DueIsAllowed ==
    ASSUME NEW x \in Window, NEW b \in Bucket, NEW now \in Nat, NEW tracked \in BOOLEAN,
           Promised(x, tracked, b), Rate > 0, Burst >= One, x.promise # 0, now >= x.promise
    PROVE  tracked /\ try_consume(b, now).allowed
<1>1. /\ tracked /\ b.last_update <= x.promise
      /\ b.tokens + Rate * (x.promise - b.last_update) >= One
  BY DEF Promised
<1>2. /\ Rate \in Nat /\ Burst \in Nat /\ One \in Nat
      /\ x.promise \in Nat /\ b.tokens \in Nat /\ b.last_update \in Nat
  BY LimiterAssumption DEF Window, Bucket
<1>3. Elapsed(b.last_update, now) = now - b.last_update
  BY <1>1, <1>2 DEF Elapsed
<1>4. Rate * (x.promise - b.last_update) <= Rate * (now - b.last_update)
  BY <1>2, Products
<1>5. Rate * (x.promise - b.last_update) \in Int /\ Rate * (now - b.last_update) \in Int
  BY <1>2
<1>6. Refilled(b, now) >= One
  <2>1. \/ Refilled(b, now) = Burst
        \/ Refilled(b, now) = b.tokens + Rate * (now - b.last_update)
    BY <1>3, RefilledBounds
  <2> QED BY <1>1, <1>2, <1>4, <1>5, <2>1
<1> QED BY <1>1, <1>6, TryConsume

--------------------------------------------------------------------------------
(* The steps *)

LEMMA LimiterInitially == LimiterInit => LimiterInv
<1>1. SUFFICES ASSUME LimiterInit PROVE LimiterInv
  OBVIOUS
<1>2. DOMAIN buckets = {} /\ DOMAIN window = {} /\ buckets \in [{} -> Bucket] /\ window \in [{} -> Window]
  BY <1>1 DEF LimiterInit
<1>3. IdleWorker(TRUE) \in Worker /\ Identified(IdleWorker(TRUE)) /\ IdleWorker(TRUE).kept
  BY DEF IdleWorker, Worker, Identified
<1>4. worker = [w \in Workers |-> IdleWorker(TRUE)]
  BY <1>1 DEF LimiterInit
<1> QED BY <1>1, <1>2, <1>3, <1>4 DEF LimiterInit, LimiterInv, LimiterTypeOK

\* A worker that moves on by itself.
LEMMA WorkerMoves ==
    ASSUME LimiterInv, NEW w \in Workers, NEW v \in Worker, Identified(v),
           Rate > 0 /\ Burst >= One => v.kept,
           worker' = [worker EXCEPT ![w] = v],
           UNCHANGED <<trust_proxy_headers, buckets, seconds, window>>, last_cleanup' \in Nat
    PROVE  LimiterInv'
<1>1. worker' \in [Workers -> Worker] /\ \A u \in Workers : worker'[u] = IF u = w THEN v ELSE worker[u]
  BY DEF LimiterInv, LimiterTypeOK
<1>2. LimiterTypeOK'
  BY <1>1 DEF LimiterInv, LimiterTypeOK
<1>3. (\A u \in Workers : Identified(worker[u]))'
  BY <1>1 DEF LimiterInv, Identified
<1>4. Rate > 0 /\ Burst >= One => \A u \in Workers : worker'[u].kept
  BY <1>1 DEF LimiterInv
<1> QED BY <1>2, <1>3, <1>4 DEF LimiterInv, Balanced, Promised

LEMMA ArriveStep ==
    ASSUME LimiterInv, NEW w \in Workers, Arrive(w)
    PROVE  LimiterInv'
<1>1. PICK remote \in Addresses, headers \in HeaderLists :
        LET ip == extract_client_ip(remote, headers, trust_proxy_headers)
        IN  worker' = [worker EXCEPT ![w] =
                [pc |-> "maybe_prune", client |-> IF trust_proxy_headers THEN ip ELSE remote, ip |-> ip,
                 at |-> seconds, kept |-> TRUE]]
  BY DEF Arrive
<1> DEFINE ip == extract_client_ip(remote, headers, trust_proxy_headers)
           client == IF trust_proxy_headers THEN ip ELSE remote
           v == [pc |-> "maybe_prune", client |-> client, ip |-> ip, at |-> seconds, kept |-> TRUE]
<1>2. ip \in Addresses /\ client = ip
  BY ExtractedAddress DEF LimiterInv, LimiterTypeOK
<1>3. worker' = [worker EXCEPT ![w] = v]
  BY <1>1
<1> HIDE DEF ip, client
<1>4. v \in Worker /\ Identified(v) /\ v.kept
  BY <1>2 DEF Worker, Identified, LimiterInv, LimiterTypeOK
<1> HIDE DEF v
<1>5. last_cleanup' \in Nat
  BY DEF Arrive, LimiterInv, LimiterTypeOK
<1> QED BY <1>3, <1>4, <1>5, WorkerMoves DEF Arrive

\* A worker under way, with its next step.
LEMMA NextStep ==
    ASSUME LimiterInv, NEW w \in Workers, worker[w].pc # "idle",
           NEW pc \in {"maybe_prune", "retain", "check"}
    PROVE  LET v == [worker[w] EXCEPT !.pc = pc]
           IN  /\ v \in Worker /\ Identified(v) /\ v.kept = worker[w].kept
               /\ [worker EXCEPT ![w].pc = pc] = [worker EXCEPT ![w] = v]
<1>1. worker[w] \in Worker /\ Identified(worker[w])
  BY DEF LimiterInv, LimiterTypeOK
<1> QED BY <1>1 DEF Worker, Identified

LEMMA PruneStep ==
    ASSUME LimiterInv, NEW w \in Workers, maybe_prune(w)
    PROVE  LimiterInv'
<1>1. PICK pc \in {"retain", "check"} : worker' = [worker EXCEPT ![w].pc = pc]
  BY DEF maybe_prune
<1> DEFINE v == [worker[w] EXCEPT !.pc = pc]
<1>2. worker[w].pc # "idle"
  BY DEF maybe_prune
<1>3. v \in Worker /\ Identified(v) /\ v.kept = worker[w].kept /\ worker' = [worker EXCEPT ![w] = v]
  BY <1>1, <1>2, NextStep
<1>4. Rate > 0 /\ Burst >= One => v.kept
  BY <1>3 DEF LimiterInv
<1>5. last_cleanup' \in Nat
  <2>1. worker[w].at \in Nat
    BY DEF LimiterInv, LimiterTypeOK, Worker
  <2> QED BY <2>1 DEF maybe_prune, LimiterInv, LimiterTypeOK
<1> HIDE DEF v
<1> QED BY <1>3, <1>4, <1>5, WorkerMoves DEF maybe_prune

\* What is dropped was full, and nobody was told to wait for it.
LEMMA RetainStep ==
    ASSUME LimiterInv, NEW w \in Workers, RetainBuckets(w)
    PROVE  LimiterInv'
<1> DEFINE K == {ip \in DOMAIN buckets : ~Stale(buckets[ip], worker[w].at)}
           v == [worker[w] EXCEPT !.pc = "check"]
<1>1. K \subseteq DOMAIN buckets /\ buckets' = [c \in K |-> buckets[c]]
  BY DEF RetainBuckets, Restrict
<1>2. ASSUME NEW c \in DOMAIN buckets, c \notin K PROVE buckets[c].tokens >= Burst
  BY <1>2 DEF Stale
<1> HIDE DEF K
<1>3. v \in Worker /\ Identified(v) /\ v.kept = worker[w].kept /\ worker' = [worker EXCEPT ![w] = v]
  BY NextStep DEF RetainBuckets
<1> HIDE DEF v
<1>4. worker' \in [Workers -> Worker] /\ \A u \in Workers : worker'[u] = IF u = w THEN v ELSE worker[u]
  BY <1>3 DEF LimiterInv, LimiterTypeOK
<1>5. window' = window /\ DOMAIN buckets' = K
  BY <1>1 DEF RetainBuckets
<1>6. LimiterTypeOK' /\ (DOMAIN buckets \subseteq DOMAIN window)'
  BY <1>1, <1>4, <1>5 DEF LimiterInv, LimiterTypeOK, RetainBuckets
<1>7. ASSUME NEW c \in DOMAIN window
      PROVE  /\ Balanced(window[c], c \in K, buckets'[c])
             /\ Promised(window[c], c \in K, buckets'[c])
  <2>1. Balanced(window[c], c \in DOMAIN buckets, buckets[c]) /\ Promised(window[c], c \in DOMAIN buckets, buckets[c])
    BY DEF LimiterInv
  <2>2. CASE c \in K
    BY <1>1, <2>1, <2>2 DEF Balanced, Promised
  <2>3. CASE c \notin DOMAIN buckets
    BY <1>1, <2>1, <2>3 DEF Balanced, Promised
  <2>4. CASE c \in DOMAIN buckets /\ c \notin K
    <3>1. buckets[c].tokens >= Burst /\ buckets[c].tokens \in Nat /\ Burst \in Nat /\ One \in Nat
      BY <1>2, <2>4, LimiterAssumption DEF LimiterInv, LimiterTypeOK, Bucket
    <3>2. One * window[c].allowed \in Int /\ Rate * Flow(window[c]) \in Int
      <4>1. window[c].allowed \in Nat /\ Flow(window[c]) \in Nat
        BY <2>1 DEF LimiterInv, LimiterTypeOK, Window, Balanced
      <4> QED BY <4>1, LimiterAssumption
    <3>3. One * window[c].allowed + buckets[c].tokens <= Burst + Rate * Flow(window[c])
      BY <2>1, <2>4 DEF Balanced
    <3>4. One * window[c].allowed <= Rate * Flow(window[c])
      BY <3>1, <3>2, <3>3
    <3>5. Balanced(window[c], c \in K, buckets'[c])
      BY <2>1, <2>4, <3>4 DEF Balanced
    <3>6. Promised(window[c], c \in K, buckets'[c])
      BY <2>1, <2>4, <3>1 DEF Promised
    <3> QED BY <3>5, <3>6
  <2> QED BY <2>2, <2>3, <2>4
<1>8. (\A u \in Workers : Identified(worker[u]))'
  BY <1>3, <1>4 DEF LimiterInv, Identified
<1>9. Rate > 0 /\ Burst >= One => \A u \in Workers : worker'[u].kept
  BY <1>3, <1>4 DEF LimiterInv
<1> QED BY <1>5, <1>6, <1>7, <1>8, <1>9 DEF LimiterInv

\* The stretch that a request continues, or begins, is balanced with the bucket it meets.
LEMMA MetStretch ==
    ASSUME LimiterInv, NEW c \in Addresses, NEW now \in Nat,
           NEW x, x = NewStretch(now) \/ (c \in DOMAIN window /\ x = window[c])
    PROVE  /\ x \in Window
           /\ BucketOf(c, now) \in Bucket
           /\ \E tracked \in BOOLEAN : Balanced(x, tracked, BucketOf(c, now))
<1>0. Burst \in Nat /\ Rate \in Nat /\ One \in Nat
  BY LimiterAssumption
<1>1. BucketOf(c, now) \in Bucket
  <2>1. CASE c \in DOMAIN buckets
    BY <2>1 DEF BucketOf, LimiterInv, LimiterTypeOK
  <2>2. CASE c \notin DOMAIN buckets
    BY <1>0, <2>2 DEF BucketOf, Bucket
  <2> QED BY <2>1, <2>2
<1>2. CASE x = NewStretch(now)
  <2>1. x \in Window /\ x.allowed = 0 /\ Flow(x) = 0
    BY <1>2 DEF NewStretch, Window, Flow
  <2>2. One * 0 = 0 /\ Rate * 0 = 0
    BY <1>0
  <2>3. Balanced(x, FALSE, BucketOf(c, now))
    BY <2>1, <2>2 DEF Balanced
  <2> QED BY <1>1, <2>1, <2>3
<1>3. CASE c \in DOMAIN window /\ x = window[c]
  <2>1. x \in Window /\ Balanced(x, c \in DOMAIN buckets, buckets[c])
    BY <1>3 DEF LimiterInv, LimiterTypeOK
  <2>2. CASE c \in DOMAIN buckets
    <3>1. Balanced(x, TRUE, BucketOf(c, now))
      BY <2>1, <2>2 DEF BucketOf, Balanced
    <3> QED BY <1>1, <2>1, <3>1
  <2>3. CASE c \notin DOMAIN buckets
    <3>1. Balanced(x, FALSE, BucketOf(c, now))
      BY <2>1, <2>3 DEF Balanced
    <3> QED BY <1>1, <2>1, <3>1
  <2> QED BY <2>2, <2>3
<1> QED BY <1>2, <1>3

\* A client that was told when to come, and comes then, is allowed.
LEMMA KeptWord ==
    ASSUME LimiterInv, NEW c \in Addresses, NEW now \in Nat, Rate > 0, Burst >= One, Due(c, now)
    PROVE  try_consume(BucketOf(c, now), now).allowed
<1>1. c \in DOMAIN window /\ window[c].promise # 0 /\ now >= window[c].promise
  BY DEF Due
<1>2. window[c] \in Window /\ Promised(window[c], c \in DOMAIN buckets, buckets[c])
  BY <1>1 DEF LimiterInv, LimiterTypeOK
<1>3. c \in DOMAIN buckets
  BY <1>1, <1>2 DEF Promised
<1>4. BucketOf(c, now) = buckets[c] /\ buckets[c] \in Bucket
  BY <1>3 DEF BucketOf, LimiterInv, LimiterTypeOK
<1> DEFINE tracked == c \in DOMAIN buckets
<1>5. tracked \in BOOLEAN /\ Promised(window[c], tracked, buckets[c])
  BY <1>2
<1> HIDE DEF tracked
<1> QED BY <1>1, <1>2, <1>4, <1>5, DueIsAllowed

LEMMA CheckStep ==
    ASSUME LimiterInv, NEW w \in Workers, check_at(w)
    PROVE  LimiterInv'
<1> DEFINE c == worker[w].ip
           now == worker[w].at
           b == BucketOf(c, now)
           result == try_consume(b, now)
           v == IdleWorker(Due(c, now) => result.allowed)
<1>1. c \in Addresses /\ worker[w].client = c /\ now \in Nat
  BY DEF LimiterInv, LimiterTypeOK, Worker, Identified, check_at
<1>2. PICK x \in {NewStretch(now)} \cup {window[d] : d \in DOMAIN window \cap {c}} :
        window' = [d \in DOMAIN window \cup {c} |->
                      IF d = c THEN Continued(x, now, result) ELSE window[d]]
  BY <1>1 DEF check_at
<1>3. x = NewStretch(now) \/ (c \in DOMAIN window /\ x = window[c])
  BY <1>2
<1>4. /\ buckets' = [i \in DOMAIN buckets \cup {c} |-> IF i = c THEN result.bucket ELSE buckets[i]]
      /\ worker' = [worker EXCEPT ![w] = v]
      /\ UNCHANGED <<trust_proxy_headers, last_cleanup, seconds>>
  BY <1>1 DEF check_at
<1> DEFINE y == Continued(x, now, result)
<1> HIDE DEF c, now
<1>5. /\ x \in Window /\ b \in Bucket
      /\ \E tracked \in BOOLEAN : Balanced(x, tracked, b)
  BY <1>1, <1>3, MetStretch
<1>6. y \in Window /\ Balanced(y, TRUE, result.bucket) /\ Promised(y, TRUE, result.bucket)
  BY <1>1, <1>5, StretchContinues
<1>7. result.bucket \in Bucket /\ result.allowed \in BOOLEAN
  BY <1>1, <1>5, TryConsume
<1>8. Rate > 0 /\ Burst >= One => (Due(c, now) => result.allowed)
  BY <1>1, KeptWord
<1> HIDE DEF y, result
<1>9. v \in Worker /\ Identified(v) /\ v.pc = "idle" /\ (Rate > 0 /\ Burst >= One => v.kept)
  <2>1. (Due(c, now) => result.allowed) \in BOOLEAN
    OBVIOUS
  <2> DEFINE kept == (Due(c, now) => result.allowed)
  <2>2. kept \in BOOLEAN /\ (Rate > 0 /\ Burst >= One => kept)
    BY <1>8, <2>1
  <2> HIDE DEF kept
  <2>3. /\ IdleWorker(kept) \in Worker /\ Identified(IdleWorker(kept)) /\ IdleWorker(kept).pc = "idle"
        /\ IdleWorker(kept).kept = kept
    BY <2>2 DEF IdleWorker, Worker, Identified
  <2> QED BY <2>2, <2>3 DEF kept
<1> HIDE DEF v
<1>10. worker' \in [Workers -> Worker] /\ \A u \in Workers : worker'[u] = IF u = w THEN v ELSE worker[u]
  BY <1>4, <1>9 DEF LimiterInv, LimiterTypeOK
<1>11. /\ DOMAIN window' = DOMAIN window \cup {c}
       /\ window'[c] = y
       /\ \A d \in DOMAIN window \ {c} : window'[d] = window[d]
  BY <1>2 DEF y
<1>12. /\ DOMAIN buckets' = DOMAIN buckets \cup {c}
       /\ buckets'[c] = result.bucket
       /\ \A d \in DOMAIN buckets \ {c} : buckets'[d] = buckets[d]
  BY <1>4
<1>13. LimiterTypeOK'
  <2>1. window' \in [DOMAIN window' -> Window] /\ DOMAIN window' \subseteq Addresses
    <3>1. window' = [d \in DOMAIN window \cup {c} |-> IF d = c THEN y ELSE window[d]]
      BY <1>2 DEF y
    <3> QED BY <1>1, <1>6, <3>1 DEF LimiterInv, LimiterTypeOK
  <2>2. buckets' \in [DOMAIN buckets' -> Bucket] /\ DOMAIN buckets' \subseteq Addresses
    BY <1>1, <1>4, <1>7 DEF LimiterInv, LimiterTypeOK
  <2> QED BY <1>4, <1>10, <2>1, <2>2 DEF LimiterInv, LimiterTypeOK
<1>14. (DOMAIN buckets \subseteq DOMAIN window)'
  BY <1>11, <1>12 DEF LimiterInv
<1>15. ASSUME NEW d \in DOMAIN window'
       PROVE  /\ Balanced(window'[d], d \in DOMAIN buckets', buckets'[d])
              /\ Promised(window'[d], d \in DOMAIN buckets', buckets'[d])
  <2>1. CASE d = c
    BY <1>6, <1>11, <1>12, <2>1 DEF Balanced, Promised
  <2>2. CASE d # c
    <3>1. d \in DOMAIN window /\ window'[d] = window[d]
      BY <1>11, <2>2
    <3>2. Balanced(window[d], d \in DOMAIN buckets, buckets[d]) /\ Promised(window[d], d \in DOMAIN buckets, buckets[d])
      BY <3>1 DEF LimiterInv
    <3>3. CASE d \in DOMAIN buckets
      BY <1>12, <2>2, <3>1, <3>2, <3>3 DEF Balanced, Promised
    <3>4. CASE d \notin DOMAIN buckets
      BY <1>12, <2>2, <3>1, <3>2, <3>4 DEF Balanced, Promised
    <3> QED BY <3>3, <3>4
  <2> QED BY <2>1, <2>2
<1>16. (\A u \in Workers : Identified(worker[u]))'
  BY <1>9, <1>10 DEF LimiterInv, Identified
<1>17. Rate > 0 /\ Burst >= One => \A u \in Workers : worker'[u].kept
  BY <1>9, <1>10 DEF LimiterInv
<1> QED BY <1>13, <1>14, <1>15, <1>16, <1>17 DEF LimiterInv

\* The clock, and a step of something else.
LEMMA ClockStep ==
    ASSUME LimiterInv, Second \/ UNCHANGED lvars
    PROVE  LimiterInv'
<1>1. UNCHANGED <<trust_proxy_headers, buckets, last_cleanup, worker, window>> /\ seconds' \in Nat
  BY DEF Second, lvars, LimiterInv, LimiterTypeOK
<1> QED BY <1>1 DEF LimiterInv, LimiterTypeOK, Balanced, Promised, Identified

\* What a stretch was allowed is within the bound.
LEMMA InvImpliesBurstBound == LimiterInv => BurstBound
<1>1. SUFFICES ASSUME LimiterInv, NEW c \in DOMAIN window
               PROVE  One * window[c].allowed <=
                          Burst + Rate * (window[c].last - window[c].first + window[c].rewound)
  BY DEF LimiterInv, BurstBound
<1>2. Balanced(window[c], c \in DOMAIN buckets, buckets[c]) /\ window[c] \in Window
  BY <1>1 DEF LimiterInv, LimiterTypeOK
<1>3. One * window[c].allowed \in Int /\ Rate * Flow(window[c]) \in Int /\ Burst \in Nat
  <2>1. window[c].allowed \in Nat /\ Flow(window[c]) \in Nat
    BY <1>2 DEF Window, Balanced
  <2> QED BY <2>1, LimiterAssumption
<1>4. c \in DOMAIN buckets => buckets[c].tokens \in Nat
  BY <1>1 DEF LimiterInv, LimiterTypeOK, Bucket
<1>5. One * window[c].allowed <= Burst + Rate * Flow(window[c])
  <2>1. CASE c \in DOMAIN buckets
    <3>1. One * window[c].allowed + buckets[c].tokens <= Burst + Rate * Flow(window[c])
      BY <1>2, <2>1 DEF Balanced
    <3> QED BY <1>3, <1>4, <2>1, <3>1
  <2>2. CASE c \notin DOMAIN buckets
    <3>1. One * window[c].allowed <= Rate * Flow(window[c])
      BY <1>2, <2>2 DEF Balanced
    <3> QED BY <1>3, <3>1
  <2> QED BY <2>1, <2>2
<1> QED BY <1>5 DEF Flow

\* The limiter's inductive invariant: what a client was allowed is balanced with its bucket, and
\* the bucket of a client that was told to wait will hold a token when it comes back.
LEMMA LimiterInvariant == LimiterSpec => []LimiterInv
<1>1. ASSUME LimiterInv, [LimiterNext]_lvars PROVE LimiterInv'
  BY <1>1, ArriveStep, PruneStep, RetainStep, CheckStep, ClockStep DEF LimiterNext
<1> QED BY <1>1, LimiterInitially, PTL DEF LimiterSpec

\* rate_limit.rs: whatever the capacity, the rate and the interval, and however many workers come
\* to the locks in whichever order, no stretch of a client's requests is allowed more than the
\* burst and what flowed back, with each second a worker was late counted once more; pruning
\* gives nobody a fresh burst; and Retry-After is kept.
THEOREM BurstBoundHolds == LimiterSpec => []BurstBound
BY LimiterInvariant, InvImpliesBurstBound, PTL

--------------------------------------------------------------------------------
(* Silent payments *)

\* What the curve is here: an odd order and hashes that are scalars.
Curve ==
    /\ Order \in Nat /\ Order > 2 /\ Order % 2 = 1
    /\ ScanLimit \in Nat
    /\ Infinity \notin Int
    /\ \A secret \in Scalars, k \in Nat : Tweak(secret, k) \in Scalars

LEMMA PointsTyped ==
    ASSUME Curve, NEW p \in Int, NEW q \in Int
    PROVE  /\ NonZero(p) \in Scalars \cup {Infinity}
           /\ AddPoints(p, q) \in Scalars \cup {Infinity}
           /\ MulPoint(p, q) \in Scalars \cup {Infinity}
<1>1. \A n \in Int : n % Order \in 0 .. Order - 1
  BY DEF Curve
<1>2. \A n \in Int : NonZero(n) \in Scalars \cup {Infinity}
  BY <1>1 DEF NonZero, Scalars, Curve
<1>3. p + q \in Int /\ p * q \in Int
  OBVIOUS
<1> QED BY <1>2, <1>3 DEF AddPoints, MulPoint

LEMMA MulCommutes ==
    ASSUME Curve, NEW p \in Scalars, NEW q \in Scalars
    PROVE  MulPoint(p, q) = MulPoint(q, p)
<1>1. p \in Int /\ q \in Int /\ p # Infinity /\ q # Infinity
  BY DEF Curve, Scalars
<1>2. p * q = q * p
  BY <1>1
<1> QED BY <1>1, <1>2 DEF MulPoint

\* A key and its negative have the same output, and one of them is even.
LEMMA NegationOpens ==
    ASSUME Curve, NEW p \in Scalars
    PROVE  /\ negate(p) \in Scalars
           /\ Script(negate(p)) = Script(p)
           /\ OddParity(p) => ~OddParity(negate(p))
<1>1. p \in Nat /\ Order \in Nat /\ 1 <= p /\ p <= Order - 1 /\ Order % 2 = 1
  BY DEF Curve, Scalars
<1>2. Order - (Order - p) = p /\ Order - p \in 1 .. Order - 1
  BY <1>1
<1>3. {Order - p, Order - (Order - p)} = {p, Order - p}
  BY <1>2
<1>4. p % 2 = 1 => (Order - p) % 2 # 1
  BY <1>1
<1> QED BY <1>2, <1>3, <1>4 DEF negate, Script, x_only, OddParity, Scalars

\* The key of an index opens the output of that index.
LEMMA SpendingKeyOpens ==
    ASSUME Curve, NEW spend \in Scalars, NEW S, NEW k, AddPoints(spend, Tweak(S, k)) \in Scalars
    PROVE  LET key == derive_spending_privkey(spend, S, k)
           IN  Script(key) = Script(AddPoints(spend, Tweak(S, k))) /\ ~OddParity(key)
<1> DEFINE sk == AddPoints(spend, Tweak(S, k))
<1>1. sk # Infinity
  BY DEF Curve, Scalars
<1>2. derive_spending_privkey(spend, S, k) = IF OddParity(sk) THEN negate(sk) ELSE sk
  BY <1>1 DEF derive_spending_privkey
<1> HIDE DEF sk
<1>3. sk \in Scalars
  BY DEF sk
<1> QED BY <1>2, <1>3, NegationOpens DEF sk

\* The scan finds the first outputs of the secret, all of them, and nothing it cannot spend.
LEMMA ScanFinds ==
    ASSUME Curve, NEW spend \in Scalars, NEW S \in Scalars, NEW n \in 0 .. ScanLimit, NEW scripts,
           \A k \in 0 .. ScanLimit - 1 : AddPoints(spend, Tweak(S, k)) # Infinity,
           \A k \in 0 .. n - 1 : Script(AddPoints(spend, Tweak(S, k))) \in scripts
    PROVE  LET found == scan_outputs_for_shared_secret(spend, S, scripts)
           IN  /\ 0 .. n - 1 \subseteq found
               /\ \A k \in found : Script(AddPoints(spend, Tweak(S, k))) \in scripts
<1> DEFINE At(k) == AddPoints(spend, Tweak(S, k))
           Matches(k) == At(k) # Infinity /\ Script(At(k)) \in scripts
           reached == {k \in 0 .. ScanLimit - 1 : \A j \in 0 .. k - 1 : ~Matches(j) => ~StopsAt(j)}
<1>1. ScanLimit \in Nat
  BY DEF Curve
<1>2. scan_outputs_for_shared_secret(spend, S, scripts) =
        IF \E k \in reached : At(k) = Infinity THEN {} ELSE {k \in reached : Matches(k)}
  BY DEF scan_outputs_for_shared_secret
<1>3. ~\E k \in reached : At(k) = Infinity
  OBVIOUS
<1>4. \A k \in 0 .. n - 1 : Matches(k) /\ k \in 0 .. ScanLimit - 1
  BY <1>1
<1> HIDE DEF Matches
<1>5. \A k \in 0 .. n - 1 : k \in reached
  BY <1>1, <1>4
<1> HIDE DEF reached
<1> QED BY <1>2, <1>3, <1>4, <1>5 DEF Matches

\* silent_payments.rs: what a sender pays to an address, the recipient finds by scanning with the
\* sum of the senders' keys, with the input hash and without, however many outputs there are up
\* to the scan's limit and whatever other outputs the transaction has; and the key it derives for
\* anything it finds opens that output, with even parity.  Keys that cancel out are excluded, for
\* which both sides fail.
THEOREM SilentPaymentsReachTheirOwner ==
    ASSUME Curve, NEW inputs, DOMAIN inputs # {}, NEW scan \in Scalars, NEW spend \in Scalars,
           NEW n \in 0 .. ScanLimit, NEW scripts
    PROVE  LET secrets == [i \in DOMAIN inputs |-> inputs[i].secret]
               a == AggregateKey(secrets)
               outpoints == {inputs[i].outpoint : i \in DOMAIN inputs} \ {Infinity}
               S == SenderSecret(inputs, scan)
               found == IF outpoints = {}
                        THEN detect_silent_payment_outputs(scan, spend, secrets, scripts)
                        ELSE detect_outputs_with_input_hash(scan, spend, a,
                                                            InputHash(Min(outpoints), a), scripts)
           IN  /\ a \in Scalars /\ S \in Scalars
               /\ \A k \in 0 .. ScanLimit - 1 : AddPoints(spend, Tweak(S, k)) # Infinity
               /\ \A k \in 0 .. n - 1 : create_output_with_index(inputs, scan, spend, k) \in scripts
               => /\ 0 .. n - 1 \subseteq found
                  /\ \A k \in found :
                        LET key == derive_spending_privkey(spend, S, k)
                        IN  Script(key) \in scripts /\ ~OddParity(key)
<1> DEFINE secrets == [i \in DOMAIN inputs |-> inputs[i].secret]
           a == AggregateKey(secrets)
           outpoints == {inputs[i].outpoint : i \in DOMAIN inputs} \ {Infinity}
           S == SenderSecret(inputs, scan)
           found == IF outpoints = {}
                    THEN detect_silent_payment_outputs(scan, spend, secrets, scripts)
                    ELSE detect_outputs_with_input_hash(scan, spend, a, InputHash(Min(outpoints), a), scripts)
           scanned == scan_outputs_for_shared_secret(spend, S, scripts)
<1>1. SUFFICES ASSUME a \in Scalars, S \in Scalars,
                      \A k \in 0 .. ScanLimit - 1 : AddPoints(spend, Tweak(S, k)) # Infinity,
                      \A k \in 0 .. n - 1 : create_output_with_index(inputs, scan, spend, k) \in scripts
               PROVE  /\ 0 .. n - 1 \subseteq found
                      /\ \A k \in found :
                            LET key == derive_spending_privkey(spend, S, k)
                            IN  Script(key) \in scripts /\ ~OddParity(key)
  OBVIOUS
<1>2. a # Infinity /\ S # Infinity /\ spend \in Int /\ ScanLimit \in Nat
  BY <1>1 DEF Curve, Scalars
<1>3. S = IF outpoints = {} THEN MulPoint(scan, a)
          ELSE MulPoint(MulPoint(scan, a), InputHash(Min(outpoints), a))
  BY <1>2 DEF SenderSecret
<1>4. MulPoint(scan, a) = MulPoint(a, scan)
  BY <1>1, MulCommutes
<1>5. secrets # << >>
  BY DEF secrets
<1>6. a = FoldLeft(AddPoints, secrets[1], Tail(secrets))
  BY DEF AggregateKey
<1>7. \A k \in 0 .. ScanLimit - 1 : AddPoints(spend, Tweak(S, k)) \in Scalars
  <2> SUFFICES ASSUME NEW k \in 0 .. ScanLimit - 1 PROVE AddPoints(spend, Tweak(S, k)) \in Scalars
    OBVIOUS
  <2> HIDE DEF S
  <2>1. Tweak(S, k) \in Scalars /\ k \in Nat
    BY <1>1, <1>2 DEF Curve
  <2>2. Tweak(S, k) \in Int
    BY <2>1 DEF Curve, Scalars
  <2> QED BY <1>1, <1>2, <2>2, PointsTyped
<1>8. \A k \in 0 .. n - 1 : Script(AddPoints(spend, Tweak(S, k))) \in scripts
  <2> SUFFICES ASSUME NEW k \in 0 .. n - 1 PROVE Script(AddPoints(spend, Tweak(S, k))) \in scripts
    OBVIOUS
  <2>1. k \in 0 .. ScanLimit - 1
    BY <1>2
  <2>2. create_output_with_index(inputs, scan, spend, k) = Script(AddPoints(spend, Tweak(S, k)))
    BY <1>1, <1>2, <2>1 DEF create_output_with_index
  <2> QED BY <1>1, <2>2
<1>9. found = scanned \/ (found = {} /\ scripts = {})
  <2>1. CASE outpoints = {}
    <3>1. found = IF MulPoint(a, scan) = Infinity \/ scripts = {} THEN {}
                  ELSE scan_outputs_for_shared_secret(spend, MulPoint(a, scan), scripts)
      BY <2>1, <1>5, <1>6 DEF detect_silent_payment_outputs
    <3> HIDE DEF outpoints, found, a, S
    <3> QED BY <2>1, <1>2, <1>3, <1>4, <3>1
  <2>2. CASE outpoints # {}
    <3> DEFINE h == InputHash(Min(outpoints), a)
    <3>1. found = IF MulPoint(MulPoint(a, scan), h) = Infinity THEN {}
                  ELSE scan_outputs_for_shared_secret(spend, MulPoint(MulPoint(a, scan), h), scripts)
      BY <2>2 DEF detect_outputs_with_input_hash
    <3>2. S = MulPoint(MulPoint(a, scan), h)
      BY <1>3, <1>4, <2>2
    <3> HIDE DEF outpoints, found, a, S, h
    <3> QED BY <1>2, <3>1, <3>2
  <2> QED BY <2>1, <2>2
<1> HIDE DEF found, S, outpoints, a, secrets
<1>10. 0 .. n - 1 \subseteq scanned /\ \A k \in scanned : Script(AddPoints(spend, Tweak(S, k))) \in scripts
  BY <1>1, <1>7, <1>8, ScanFinds
<1>11. \A k \in scanned : k \in 0 .. ScanLimit - 1
  BY DEF scan_outputs_for_shared_secret
<1> HIDE DEF scanned
<1>12. CASE found = scanned
  <2>1. ASSUME NEW k \in found
        PROVE  Script(derive_spending_privkey(spend, S, k)) \in scripts
                 /\ ~OddParity(derive_spending_privkey(spend, S, k))
    <3>1. AddPoints(spend, Tweak(S, k)) \in Scalars /\ Script(AddPoints(spend, Tweak(S, k))) \in scripts
      BY <1>7, <1>10, <1>11, <1>12
    <3> QED BY <3>1, SpendingKeyOpens
  <2> QED BY <1>10, <1>12, <2>1
<1>13. CASE found = {} /\ scripts = {}
  <2>1. \A k \in 0 .. n - 1 : FALSE
    BY <1>8, <1>13
  <2> QED BY <1>13, <2>1
<1> QED BY <1>9, <1>12, <1>13

--------------------------------------------------------------------------------
(* Ownership of payment methods *)

\* The key that receives what is paid to a method: the one an Ark method names, or the one an
\* on-chain address derives from, on the method's network.
Controls(key, method) ==
    \/ method.rail = "Ark" /\ key = method.pubkey
    \/ /\ method.rail = "Onchain"
       /\ LET target == IF method.silent # None THEN method.silent ELSE method.address
          IN  target # None /\ target.form \in {"p2wpkh", "p2tr"}
                /\ target.key = key /\ target.network = method.network

\* A proof in the profile, for this method and within its time, in which the key of the method
\* signed a challenge that names the profile's identity.
SignedInProfile(profile, method, now) ==
    \E j \in DOMAIN profile.verifications : \E key :
        LET v == profile.verifications[j]
        IN  /\ v.method_descriptor = ownership_descriptor(method)
            /\ v.expires_at # None => now < v.expires_at
            /\ Controls(key, method)
            /\ v.proof.signature =
                   Sign(key, ownership_challenge_message(profile.identity, ownership_descriptor(method),
                                                         v.verified_at))

\* The proof inside an Ark method, by the method's key, for this alias and identity.
SignedInMethod(profile, method, now) ==
    /\ method.rail = "Ark"
    /\ method.expires_at # None => now < method.expires_at
    /\ method.proof.signature =
           Sign(method.pubkey, ark_ownership_challenge(profile.alias, profile.identity, method.server,
                                                       method.pubkey, <<"ark", method.pubkey>>))

ProofTypes == SignatureProofs \cup DomainProofs \cup {"ManualAttestation", "Bip353Dnssec"}

\* A profile's proofs: each of a known type, with a time or without.
Proofs(verifications) ==
    /\ None \notin Int
    /\ Len(verifications) \in Nat /\ DOMAIN verifications = 1 .. Len(verifications)
    /\ \A j \in DOMAIN verifications :
          /\ verifications[j] # None
          /\ verifications[j].proof_type \in ProofTypes
          /\ verifications[j].expires_at \in Nat \cup {None}

\* The stored proof is the first one with the method's descriptor.
LEMMA StoredStatus ==
    ASSUME NEW verifications, Proofs(verifications), NEW method
    PROVE  LET v == stored_status_for_method(verifications, method)
           IN  \/ /\ v = None
                  /\ \A j \in DOMAIN verifications :
                        verifications[j].method_descriptor # ownership_descriptor(method)
               \/ \E i \in DOMAIN verifications :
                     /\ v = verifications[i]
                     /\ v.method_descriptor = ownership_descriptor(method)
                     /\ \A j \in DOMAIN verifications :
                           verifications[j].method_descriptor = ownership_descriptor(method) => i <= j
<1> DEFINE d == ownership_descriptor(method)
           n == Len(verifications)
           I == {i \in 1 .. n : verifications[i].method_descriptor = d}
           i == IF I # {} THEN Min(I) ELSE 0
<1>1. n \in Nat /\ DOMAIN verifications = 1 .. n
  BY DEF Proofs
<1>2. stored_status_for_method(verifications, method) = IF i = 0 THEN None ELSE verifications[i]
  BY DEF stored_status_for_method, SelectInSeq
<1>3. I \in SUBSET (1 .. n) /\ \A j \in 1 .. n : j \in I <=> verifications[j].method_descriptor = d
  OBVIOUS
<1> HIDE DEF d, n, I
<1>4. CASE I = {}
  <2>1. stored_status_for_method(verifications, method) = None
    BY <1>2, <1>4
  <2>2. \A j \in DOMAIN verifications : verifications[j].method_descriptor # d
    BY <1>1, <1>3, <1>4
  <2> QED BY <2>1, <2>2 DEF d
<1>5. CASE I # {}
  <2>1. PICK m : m = Min(I)
    OBVIOUS
  <2>2. m \in I /\ m # 0 /\ \A j \in I : m <= j
    BY <1>1, <1>3, <1>5, <2>1, FirstIndex
  <2>3. stored_status_for_method(verifications, method) = verifications[m]
    BY <1>2, <1>5, <2>1, <2>2
  <2>4. m \in DOMAIN verifications /\ verifications[m].method_descriptor = d
    BY <1>1, <1>3, <2>2
  <2>5. \A j \in DOMAIN verifications : verifications[j].method_descriptor = d => m <= j
    BY <1>1, <1>3, <2>2
  <2> QED BY <2>3, <2>4, <2>5 DEF d
<1> QED BY <1>4, <1>5

\* A signature proof that holds is one of the method's key.
LEMMA HoldingProof ==
    ASSUME NEW method, NEW identity, NEW v, v.proof_type \in SignatureProofs,
           ProofHolds(method, identity, v, None)
    PROVE  \E key : Controls(key, method) /\
               v.proof.signature =
                   Sign(key, ownership_challenge_message(identity, ownership_descriptor(method), v.verified_at))
<1> DEFINE c == ownership_challenge_message(identity, ownership_descriptor(method), v.verified_at)
<1>1. CASE v.proof_type = "OnchainAddressSignature"
  <2>1. verify_onchain_signature(method, c, v.proof)
    BY <1>1 DEF ProofHolds
  <2> HIDE DEF c
  <2>2. Controls(v.proof.pubkey, method)
    BY <2>1 DEF verify_onchain_signature, pubkey_controls_address, Controls
  <2>3. v.proof.signature = Sign(v.proof.pubkey, c)
    BY <2>1 DEF verify_onchain_signature, SignedBy, verify_message_signature
  <2> QED BY <2>2, <2>3 DEF c
<1>2. CASE v.proof_type = "ArkPubkeySignature"
  <2>1. verify_ark_signature(method, c, v.proof)
    BY <1>2 DEF ProofHolds
  <2> HIDE DEF c
  <2>2. Controls(method.pubkey, method) /\ v.proof.signature = Sign(method.pubkey, c)
    BY <2>1 DEF verify_ark_signature, SignedBy, verify_message_signature, Controls
  <2> QED BY <2>2 DEF c
<1> QED BY <1>1, <1>2 DEF SignatureProofs

\* ownership.rs, ark.rs and resolver.rs: whatever proofs a profile carries, a method is reported
\* verified only if its own key signed for the identity of this profile, in a proof that has not
\* expired; then the tier is the cryptographic one.  A self-attestation, a proof for another
\* method or identity, a body nobody fetched and a signature by another key never suffice.
THEOREM VerifiedMeansSigned ==
    ASSUME NEW profile, Proofs(profile.verifications), NEW i \in DOMAIN profile.methods, NEW now \in Nat,
           profile.methods[i].expires_at \in Nat \cup {None},
           verify_payment_method_states(profile, now)[i].trust = "Verified"
    PROVE  /\ verify_payment_method_states(profile, now)[i].tier = "Cryptographic"
           /\ \/ SignedInProfile(profile, profile.methods[i], now)
              \/ SignedInMethod(profile, profile.methods[i], now)
<1> DEFINE method == profile.methods[i]
           state == verify_payment_method_states(profile, now)[i]
           base == evaluate_method_trust(method, profile.identity, profile.verifications, now, None)
           v == stored_status_for_method(profile.verifications, method)
           tier == verify_method_verification(method, profile.identity, v, now, None)
<1>1. \A name : Trust(name).trust = name
  BY DEF Trust
<1>2. state = evaluate_method_trust_for_profile(profile, method, now, None)
  BY <1>1 DEF verify_payment_method_states
<1>3. state = IF base = Trust("Unverified") /\ method.rail = "Ark" /\ method.proof # None
              THEN verify_ark_ownership_proof(profile.alias, profile.identity, method, now)
              ELSE base
  BY <1>2 DEF evaluate_method_trust_for_profile
<1>4. state.trust = "Verified"
  OBVIOUS
<1>5. base = IF v = None THEN Trust("Unverified")
             ELSE IF v.expires_at # None /\ now >= v.expires_at THEN Trust("Expired")
             ELSE IF v.proof_type \in DomainProofs /\ None = None THEN Trust("NeedsNetworkCheck")
             ELSE IF tier \in {"SelfAsserted", "Invalid", "Expired"} THEN Trust(tier)
             ELSE Verified(tier)
  BY DEF evaluate_method_trust
<1>6. method.expires_at \in Nat \cup {None}
  OBVIOUS
<1>7. CASE base = Trust("Unverified") /\ method.rail = "Ark" /\ method.proof # None
  <2>1. state = verify_ark_ownership_proof(profile.alias, profile.identity, method, now)
    BY <1>3, <1>7
  <2> HIDE DEF state, method, base
  <2>2. /\ ~(method.expires_at # None /\ method.expires_at <= now)
        /\ method.proof.message
             = ark_ownership_challenge(profile.alias, profile.identity, method.server, method.pubkey,
                                       <<"ark", method.pubkey>>)
        /\ verify_message_signature(method.proof.message, method.proof.signature, method.pubkey)
        /\ state = Verified("Cryptographic")
    BY <1>1, <1>4, <2>1 DEF verify_ark_ownership_proof
  <2>3. SignedInMethod(profile, method, now)
    BY <1>6, <1>7, <2>2 DEF SignedInMethod, verify_message_signature
  <2>4. state.tier = "Cryptographic"
    BY <2>2 DEF Verified
  <2> QED BY <2>3, <2>4 DEF state, method
<1>8. CASE ~(base = Trust("Unverified") /\ method.rail = "Ark" /\ method.proof # None)
  <2>1. state = base
    BY <1>3, <1>8
  <2> HIDE DEF state, method, base, v, tier
  <2>2. base.trust = "Verified"
    BY <1>4, <2>1
  <2>3. /\ v # None /\ ~(v.expires_at # None /\ now >= v.expires_at) /\ v.proof_type \notin DomainProofs
        /\ tier \notin {"SelfAsserted", "Invalid", "Expired"} /\ base = Verified(tier)
    BY <1>1, <1>5, <2>2
  <2>4. PICK j \in DOMAIN profile.verifications :
          v = profile.verifications[j] /\ v.method_descriptor = ownership_descriptor(method)
    BY <2>3, StoredStatus DEF v
  <2>5. v.proof_type \in ProofTypes /\ v.expires_at \in Nat \cup {None}
    BY <2>4 DEF Proofs
  <2>6. v.expires_at # None => now < v.expires_at
    BY <2>3, <2>5
  <2>7. ProofHolds(method, profile.identity, v, None) /\ tier = trust_tier(v.proof_type)
    BY <2>3 DEF tier, verify_method_verification
  <2>8. v.proof_type \in SignatureProofs
    <3>1. CASE v.proof_type = "ManualAttestation"
      <4>1. tier = "SelfAsserted"
        BY <2>7, <3>1 DEF trust_tier, SignatureProofs, DomainProofs
      <4> QED BY <2>3, <4>1
    <3>2. CASE v.proof_type = "Bip353Dnssec"
      <4>1. ProofHolds(method, profile.identity, v, None) = FALSE
        BY <3>2 DEF ProofHolds, DomainProofs
      <4> QED BY <2>7, <4>1
    <3> QED BY <2>3, <2>5, <3>1, <3>2 DEF ProofTypes
  <2>9. tier = "Cryptographic"
    BY <2>7, <2>8 DEF trust_tier, SignatureProofs, DomainProofs
  <2>10. SignedInProfile(profile, method, now)
    BY <2>4, <2>6, <2>7, <2>8, HoldingProof DEF SignedInProfile
  <2>11. state.tier = "Cryptographic"
    BY <2>1, <2>3, <2>9 DEF Verified
  <2> QED BY <2>10, <2>11 DEF state, method
<1> QED BY <1>7, <1>8

\* A renewed proof takes the place of the one that was there.
LEMMA Upserted ==
    ASSUME NEW V, NEW verifications \in Seq(V), Proofs(verifications), NEW v \in V,
           v # None, v.proof_type \in ProofTypes, v.expires_at \in Nat \cup {None},
           \A j, k \in DOMAIN verifications :
               /\ verifications[j].method_descriptor = v.method_descriptor
               /\ verifications[k].method_descriptor = v.method_descriptor
               => j = k
    PROVE  LET w == upsert_method_verification(verifications, v)
           IN  /\ Proofs(w)
               /\ \E m \in DOMAIN w :
                     w[m] = v /\ \A j \in DOMAIN w : w[j].method_descriptor = v.method_descriptor => j = m
<1> DEFINE d == v.method_descriptor
           n == Len(verifications)
           I == {i \in 1 .. n : verifications[i].method_descriptor = d}
           first == IF I # {} THEN Min(I) ELSE 0
           w == upsert_method_verification(verifications, v)
<1>1. n \in Nat /\ DOMAIN verifications = 1 .. n
  OBVIOUS
<1>2. w = IF first = 0 THEN Append(verifications, v) ELSE [verifications EXCEPT ![first] = v]
  BY DEF upsert_method_verification, SelectInSeq, ReplaceAt
<1>3. I \in SUBSET (1 .. n) /\ \A j \in 1 .. n : j \in I <=> verifications[j].method_descriptor = d
  OBVIOUS
<1>4. \A j, k \in I : j = k
  BY <1>1
<1> HIDE DEF d, n, I, w
<1>5. CASE I = {}
  <2>1. w = Append(verifications, v)
    BY <1>2, <1>5
  <2>2. /\ w \in Seq(V) /\ Len(w) = n + 1 /\ DOMAIN w = 1 .. n + 1 /\ w[n + 1] = v
        /\ \A j \in 1 .. n : w[j] = verifications[j]
    BY <2>1 DEF n
  <2>3. Proofs(w)
    BY <1>1, <2>2 DEF Proofs
  <2>4. \A j \in DOMAIN w : w[j].method_descriptor = d => j = n + 1
    BY <1>1, <1>3, <1>5, <2>2
  <2> QED BY <1>1, <2>2, <2>3, <2>4 DEF w, d
<1>6. CASE I # {}
  <2>1. PICK m : m = Min(I)
    OBVIOUS
  <2>2. m \in I /\ m # 0
    BY <1>1, <1>3, <1>6, <2>1, FirstIndex
  <2>3. w = [verifications EXCEPT ![m] = v] /\ m \in 1 .. n
    BY <1>2, <1>3, <1>6, <2>1, <2>2
  <2>4. /\ w \in Seq(V) /\ Len(w) = n /\ DOMAIN w = 1 .. n /\ w[m] = v
        /\ \A j \in 1 .. n : j # m => w[j] = verifications[j]
    BY <1>1, <2>3 DEF n
  <2>5. Proofs(w)
    BY <1>1, <2>3, <2>4 DEF Proofs
  <2>6. \A j \in DOMAIN w : w[j].method_descriptor = d => j = m
    BY <1>3, <1>4, <2>2, <2>4
  <2> QED BY <2>3, <2>4, <2>5, <2>6 DEF w, d
<1> QED BY <1>5, <1>6

\* The key of a method builds a proof that holds.
LEMMA BuiltProofHolds ==
    ASSUME NEW method, NEW identity, NEW type \in SignatureProofs, NEW key, NEW at \in Nat,
           NEW expires \in Nat \cup {None}, None \notin Int, expires # None => at < expires,
           key # None, Controls(key, method), type = "ArkPubkeySignature" <=> method.rail = "Ark",
           \A q : Verification(method, type, q, at, expires) # None
    PROVE  LET v == build_signature_attestation(method, identity, type, key, at, expires)
           IN  /\ v # None /\ validate_method_verification(v)
               /\ v.method_descriptor = ownership_descriptor(method)
               /\ v.proof_type = type /\ v.expires_at = expires /\ v.verified_at = at
               /\ ProofHolds(method, identity, v, None)
<1> DEFINE c == ownership_challenge_message(identity, ownership_descriptor(method), at)
           proof == [kind |-> "MessageSignature", message |-> c, signature |-> Sign(key, c), pubkey |-> key]
           v == Verification(method, type, proof, at, expires)
<1>1. build_signature_attestation(method, identity, type, key, at, expires) = IfVerified(method, identity, v, None)
  BY DEF build_signature_attestation, attach_signature_proof
<1>2. /\ v.method_descriptor = ownership_descriptor(method) /\ v.proof_type = type
      /\ v.expires_at = expires /\ v.verified_at = at /\ v.proof = proof
  BY DEF Verification
<1>3. v # None
  OBVIOUS
<1>4. /\ proof.kind = "MessageSignature" /\ proof.message = c /\ proof.pubkey = key
      /\ proof.signature = Sign(key, c)
  OBVIOUS
<1>5. ownership_challenge_message(identity, ownership_descriptor(method), v.verified_at) = c
  BY <1>2
<1> HIDE DEF v, proof, c
<1>6. SignedBy(key, c, proof)
  BY <1>4 DEF SignedBy, verify_message_signature
<1>7. ProofHolds(method, identity, v, None)
  <2>1. CASE method.rail = "Ark"
    <3>1. key = method.pubkey /\ type = "ArkPubkeySignature"
      BY <2>1 DEF Controls
    <3>2. verify_ark_signature(method, c, v.proof)
      BY <1>2, <1>6, <2>1, <3>1 DEF verify_ark_signature
    <3> QED BY <1>2, <1>5, <3>1, <3>2 DEF ProofHolds, DomainProofs
  <2>2. CASE method.rail # "Ark"
    <3>1. method.rail = "Onchain" /\ type = "OnchainAddressSignature"
      BY <2>2 DEF Controls, SignatureProofs
    <3>2. verify_onchain_signature(method, c, v.proof)
      BY <1>2, <1>4, <1>6, <3>1 DEF verify_onchain_signature, pubkey_controls_address, Controls
    <3> QED BY <1>2, <1>5, <3>1, <3>2 DEF ProofHolds, DomainProofs
  <2> QED BY <2>1, <2>2
<1>8. verify_method_verification(method, identity, v, v.verified_at, None) = "Cryptographic"
  <2>1. ~(v.expires_at # None /\ v.verified_at >= v.expires_at)
    BY <1>2
  <2>2. trust_tier(v.proof_type) = "Cryptographic"
    BY <1>2 DEF trust_tier, SignatureProofs, DomainProofs
  <2> QED BY <1>2, <1>7, <2>1, <2>2 DEF verify_method_verification
<1>9. build_signature_attestation(method, identity, type, key, at, expires) = v
  BY <1>1, <1>8 DEF IfVerified
<1>10. validate_method_verification(v)
  BY <1>2 DEF validate_method_verification
<1> QED BY <1>2, <1>3, <1>7, <1>9, <1>10

\* ownership.rs: the proof that the owner of a method builds with the method's key is accepted
\* from the moment it is put into the profile until it expires, whichever other proofs the
\* profile has, and a renewed one takes the place of the old one: it neither loses to it nor makes
\* the two count for none.
THEOREM OwnersProofIsAccepted ==
    ASSUME NEW V, NEW verifications \in Seq(V), Proofs(verifications), NEW alias, NEW identity, NEW methods,
           NEW i \in DOMAIN methods, NEW type \in SignatureProofs, NEW key, NEW at \in Nat,
           NEW expires \in Nat \cup {None}, NEW now \in Nat, expires # None => at < expires,
           key # None, Controls(key, methods[i]), type = "ArkPubkeySignature" <=> methods[i].rail = "Ark",
           \A q : Verification(methods[i], type, q, at, expires) # None,
           \A j, k \in DOMAIN verifications :
               /\ verifications[j].method_descriptor = ownership_descriptor(methods[i])
               /\ verifications[k].method_descriptor = ownership_descriptor(methods[i])
               => j = k
    PROVE  LET v == build_signature_attestation(methods[i], identity, type, key, at, expires)
               profile == [alias |-> alias, identity |-> identity, methods |-> methods,
                           verifications |-> upsert_method_verification(verifications, v)]
           IN  verify_payment_method_states(profile, now)[i] =
                   IF expires # None /\ now >= expires THEN Trust("Expired") ELSE Verified("Cryptographic")
<1> DEFINE method == methods[i]
           d == ownership_descriptor(method)
           v == build_signature_attestation(method, identity, type, key, at, expires)
           w == upsert_method_verification(verifications, v)
           profile == [alias |-> alias, identity |-> identity, methods |-> methods, verifications |-> w]
<1>1. /\ None \notin Int
      /\ v # None /\ v.method_descriptor = d /\ v.proof_type = type /\ v.expires_at = expires
      /\ ProofHolds(method, identity, v, None)
  BY BuiltProofHolds DEF Proofs
<1> HIDE DEF v
<1>2. type \in ProofTypes /\ type \notin DomainProofs
  BY DEF ProofTypes, SignatureProofs, DomainProofs
<1>3. Proofs(w) /\ \E m \in DOMAIN w :
        w[m] = v /\ \A j \in DOMAIN w : w[j].method_descriptor = d => j = m
  <2>1. verifications \in Seq(V \cup {v}) /\ v \in V \cup {v}
    OBVIOUS
  <2> DEFINE W == V \cup {v}
  <2>2. verifications \in Seq(W) /\ v \in W
    BY <2>1
  <2> HIDE DEF W
  <2>3. \A j, k \in DOMAIN verifications :
           /\ verifications[j].method_descriptor = v.method_descriptor
           /\ verifications[k].method_descriptor = v.method_descriptor
           => j = k
    BY <1>1
  <2>4. v.proof_type \in ProofTypes /\ v.expires_at \in Nat \cup {None} /\ v # None
    BY <1>1, <1>2
  <2> QED BY <1>1, <2>2, <2>3, <2>4, Upserted
<1> HIDE DEF w
<1>4. stored_status_for_method(w, method) = v
  <2>1. PICK m \in DOMAIN w : w[m] = v /\ \A j \in DOMAIN w : w[j].method_descriptor = d => j = m
    BY <1>3
  <2> QED BY <1>1, <1>3, <2>1, StoredStatus
<1>5. /\ profile.alias = alias /\ profile.identity = identity /\ profile.methods = methods
      /\ profile.verifications = w
  OBVIOUS
<1>6. verify_payment_method_states(profile, now)[i] = evaluate_method_trust_for_profile(profile, method, now, None)
  <2>1. ~\E j, k \in {l \in DOMAIN w : w[l].method_descriptor = d} : j # k
    BY <1>3
  <2> QED BY <1>5, <2>1 DEF verify_payment_method_states
<1> HIDE DEF profile
<1> DEFINE base == evaluate_method_trust(method, identity, w, now, None)
           expired == expires # None /\ now >= expires
<1>7. verify_method_verification(method, identity, v, now, None) =
        IF expired THEN "Expired" ELSE "Cryptographic"
  <2>1. trust_tier(v.proof_type) = "Cryptographic"
    BY <1>1 DEF trust_tier, SignatureProofs, DomainProofs
  <2> QED BY <1>1, <2>1 DEF verify_method_verification
<1>8. base = IF expired THEN Trust("Expired") ELSE Verified("Cryptographic")
  BY <1>1, <1>2, <1>4, <1>7 DEF evaluate_method_trust
<1>9. base # Trust("Unverified")
  <2>1. Trust("Expired").trust = "Expired" /\ Verified("Cryptographic").trust = "Verified"
          /\ Trust("Unverified").trust = "Unverified"
    BY DEF Trust, Verified
  <2> QED BY <1>8, <2>1
<1>10. evaluate_method_trust_for_profile(profile, method, now, None) = base
  BY <1>5, <1>9 DEF evaluate_method_trust_for_profile
<1> QED BY <1>6, <1>8, <1>10 DEF profile, w, v

--------------------------------------------------------------------------------
(* Resolvers *)

Names == INSTANCE Resolvers

\* What the answer of a resolver must be.
Genuine(p, now) == p.signed_by = p.key /\ (p.expires # None => now < p.expires + Grace)

Sequenced(s) == Len(s) \in Nat /\ DOMAIN s = 1 .. Len(s)

\* What the sources hold: the registry verified its entry when it was stored, the rest is lists
\* of anything.
World(world) ==
    /\ world.registered # None => Names!verify_signed_profile(world.registered)
    /\ Sequenced(world.fallback)
    /\ world.document \notin {Down, Garbage} => Sequenced(world.document.relays)
    /\ \A r \in Public : world.relays[r] # Down =>
          /\ Sequenced(world.relays[r])
          /\ \A i \in DOMAIN world.relays[r] :
                world.relays[r][i].profile # Garbage => world.relays[r][i].profile.sequence \in Nat \cup {None}

\* Errors have no profile, and are none of the others.
LEMMA Kinds ==
    /\ \A p : Names!Ok(p).kind = "Ok" /\ Names!Ok(p).profile = p
    /\ \A k : Names!Err(k).kind = k
BY DEF Names!Ok, Names!Err

\* The resolvers' least and greatest numbers are the ones of the lemmas.
LEMMA Extremes == \A S : Names!Min(S) = Min(S) /\ Names!Max(S) = Max(S)
BY DEF Names!Min, Names!Max, Min, Max

\* A checked profile is genuine.
LEMMA CheckedIsGenuine ==
    ASSUME NEW p, NEW now, Names!Checked(p, now).kind = "Ok"
    PROVE  Names!Checked(p, now).profile = p /\ Genuine(p, now)
BY Kinds DEF Names!Checked, Names!verify_signed_profile, Names!check_profile_expiry, Genuine

\* The registry passes on only names it does not have.
LEMMA RegistryAnswer ==
    ASSUME NEW world, World(world), NEW now
    PROVE  LET r == Names!RegistryResolve(world.registered, now)
           IN  /\ r.kind = "Ok" => /\ world.registered # None /\ r.profile = world.registered
                                   /\ ~r.profile.revoked /\ Genuine(r.profile, now)
               /\ Names!PassesOn(r) => world.registered = None
BY Kinds DEF World, Names!RegistryResolve, Names!PassesOn, Names!verify_signed_profile,
   Names!check_profile_expiry, Genuine

\* A name in DNS: only one with the sign, signed by the key of the moment.
LEMMA DnsAnswer ==
    ASSUME NEW alias, NEW records, NEW key, NEW now
    PROVE  LET r == Names!Bip353Resolve(alias, records, key, now)
           IN  r.kind = "Ok" => alias.sign /\ Genuine(r.profile, now)
<1> DEFINE r == Names!Bip353Resolve(alias, records, key, now)
<1>1. \A methods : /\ Names!SyntheticProfile(alias, key, methods, now).signed_by = key
                   /\ Names!SyntheticProfile(alias, key, methods, now).key = key
                   /\ Names!SyntheticProfile(alias, key, methods, now).expires = None
  BY DEF Names!SyntheticProfile
<1>2. ASSUME r.kind = "Ok"
      PROVE  alias.sign /\ \E methods : r = Names!Ok(Names!SyntheticProfile(alias, key, methods, now))
  BY <1>2, Kinds DEF Names!Bip353Resolve
<1> HIDE DEF r
<1>3. ASSUME r.kind = "Ok" PROVE alias.sign /\ Genuine(r.profile, now)
  BY <1>1, <1>2, <1>3, Kinds DEF Genuine
<1> QED BY <1>3 DEF r

\* The web server: what it serves is taken or ends the search.
LEMMA WebAnswer ==
    ASSUME NEW alias, NEW answer, NEW now
    PROVE  LET r == Names!HttpResolve(alias, answer, now)
           IN  /\ r.kind = "Ok" => r.profile = answer /\ Genuine(answer, now)
               /\ Names!PassesOn(r) => alias.domain = None \/ answer \in {Down, None}
<1> DEFINE r == Names!HttpResolve(alias, answer, now)
           c == Names!Checked(answer, now)
<1>1. \/ r = Names!Err("AliasNotFound") /\ alias.domain = None
      \/ r = Names!Err("ValidationError")
      \/ r = Names!Err("NetworkError") /\ answer = Down
      \/ r = Names!Err("AliasNotFound") /\ answer = None
      \/ r = Names!Err("SerializationError")
      \/ r = c
  BY DEF Names!HttpResolve
<1>2. c.kind \in {"InvalidSignature", "Expired", "Ok"}
  BY Kinds DEF Names!Checked
<1> HIDE DEF r, c
<1>3. r.kind = "Ok" => r = c
  BY <1>1, Kinds
<1>4. Names!PassesOn(r) => alias.domain = None \/ answer \in {Down, None}
  BY <1>1, <1>2, Kinds DEF Names!PassesOn
<1>5. r.kind = "Ok" => r.profile = answer /\ Genuine(answer, now)
  BY <1>3, CheckedIsGenuine DEF c
<1> QED BY <1>4, <1>5 DEF r

\* What a relay returns is the name's, signed by the key it was asked for.
LEMMA RelayAnswer ==
    ASSUME NEW events, events # Down => Sequenced(events), NEW key, NEW alias, NEW now
    PROVE  LET r == Names!query_relay(events, key, alias, now)
           IN  r.kind = "Ok" =>
                   /\ events # Down
                   /\ \E i \in DOMAIN events : r.profile = events[i].profile
                   /\ r.profile # Garbage /\ r.profile.alias = alias /\ r.profile.key = key
                   /\ Genuine(r.profile, now)
<1> DEFINE r == Names!query_relay(events, key, alias, now)
           F(e) == Names!signed_profile_from_event(e, key, alias, now)
           results == [i \in DOMAIN events |-> F(events[i])]
           I == {i \in 1 .. Len(results) : results[i] # None}
           first == IF I # {} THEN Min(I) ELSE 0
<1>1. SUFFICES ASSUME r.kind = "Ok"
               PROVE  /\ events # Down
                      /\ \E i \in DOMAIN events : r.profile = events[i].profile
                      /\ r.profile # Garbage /\ r.profile.alias = alias /\ r.profile.key = key
                      /\ Genuine(r.profile, now)
  OBVIOUS
<1>2. events # Down
  BY <1>1, Kinds DEF Names!query_relay
<1>3. Len(events) \in Nat /\ DOMAIN events = 1 .. Len(events)
  BY <1>2 DEF Sequenced
<1>4. Len(results) = Len(events) /\ Len(results) \in Nat
  BY <1>3
<1>5. r = IF first = 0 THEN Names!Err("AliasNotFound") ELSE results[first]
  <2> DEFINE all == IF events = Down THEN << >> ELSE results
             J == {i \in 1 .. Len(all) : all[i] # None}
             index == IF J # {} THEN Min(J) ELSE 0
  <2>1. r = IF events = Down THEN Names!Err("NetworkError")
            ELSE IF index = 0 THEN Names!Err("AliasNotFound") ELSE all[index]
    BY Extremes DEF Names!query_relay, Names!SelectInSeq
  <2>2. all = results
    BY <1>2
  <2>3. index = first
    BY <2>2
  <2> HIDE DEF all, index, results, first, r
  <2> QED BY <1>2, <2>1, <2>2, <2>3
<1>6. I \in SUBSET (1 .. Len(results))
  OBVIOUS
<1> HIDE DEF r, I, F, results
<1>7. PICK m : m = first
  OBVIOUS
<1>8. m # 0 /\ r = results[m]
  BY <1>1, <1>5, <1>7, Kinds
<1>9. m \in I
  BY <1>4, <1>6, <1>7, <1>8, FirstIndex
<1>10. m \in DOMAIN events /\ results[m] # None
  BY <1>3, <1>4, <1>9 DEF I
<1>11. r = F(events[m])
  BY <1>8, <1>10 DEF results
<1> DEFINE p == events[m].profile
<1>12. F(events[m]).kind = "Ok"
  BY <1>1, <1>11
<1>13. F(events[m]) # None
  BY <1>8, <1>10, <1>11
<1>14. p # Garbage /\ p.alias = alias /\ p.key = key /\ F(events[m]) = Names!Checked(p, now)
  BY <1>12, <1>13, Kinds DEF F, Names!signed_profile_from_event
<1>15. Names!Checked(p, now).kind = "Ok"
  BY <1>12, <1>14
<1>16. r.profile = p /\ Genuine(p, now)
  BY <1>11, <1>14, <1>15, CheckedIsGenuine
<1> QED BY <1>2, <1>10, <1>14, <1>16

\* The relays that are asked: allowed ones, from a list, for the key that the document names.
LEMMA AskedRelays ==
    ASSUME NEW world, World(world), NEW alias
    PROVE  LET nip05 == Names!resolve_nip05(alias, world.document, world.fallback)
           IN  nip05.kind = "Ok" =>
                   /\ nip05.key = world.document.key
                   /\ DOMAIN nip05.relays # {}
                   /\ \E n \in Nat : DOMAIN nip05.relays \in SUBSET (1 .. n)
                   /\ \A i \in DOMAIN nip05.relays : nip05.relays[i] \in Public
<1> DEFINE document == world.document
           nip05 == Names!resolve_nip05(alias, document, world.fallback)
           named == IF document.relays = <<>> THEN world.fallback ELSE document.relays
           allowed == {i \in DOMAIN named : Names!validate_url(named[i])}
           asked == {i \in allowed : Names!Cardinality({j \in allowed : j <= i}) <= MaxRelays}
           relays == [i \in asked |-> named[i]]
<1>1. SUFFICES ASSUME nip05.kind = "Ok"
               PROVE  /\ nip05.key = document.key
                      /\ DOMAIN nip05.relays # {}
                      /\ \E n \in Nat : DOMAIN nip05.relays \in SUBSET (1 .. n)
                      /\ \A i \in DOMAIN nip05.relays : nip05.relays[i] \in Public
  OBVIOUS
<1>2. nip05 = IF alias.domain = None THEN Names!Err("AliasNotFound")
              ELSE IF document = Down THEN Names!Err("NetworkError")
              ELSE IF document = Garbage THEN Names!Err("SerializationError")
              ELSE IF document.key = None THEN Names!Err("AliasNotFound")
              ELSE IF asked = {} THEN Names!Err("NetworkError")
              ELSE [kind |-> "Ok", key |-> document.key, relays |-> relays]
  BY DEF Names!resolve_nip05
<1>3. asked \subseteq allowed
  OBVIOUS
<1> HIDE DEF asked, nip05
<1>4. document \notin {Down, Garbage} /\ asked # {} /\ nip05.key = document.key /\ nip05.relays = relays
  BY <1>1, <1>2, Kinds
<1>5. Len(named) \in Nat /\ DOMAIN named = 1 .. Len(named)
  BY <1>4 DEF World, Sequenced
<1>6. \A i \in allowed : i \in 1 .. Len(named) /\ named[i] \in Public
  BY <1>5 DEF Names!validate_url
<1> QED BY <1>3, <1>4, <1>5, <1>6

\* What the relays return together: the newest profile that any of them has for the name.
LEMMA NostrAnswer ==
    ASSUME NEW world, World(world), None \notin Int, NEW alias, NEW now
    PROVE  LET nip05 == Names!resolve_nip05(alias, world.document, world.fallback)
               r == Names!NostrResolve(alias, world.document, world.fallback, world.relays, now)
           IN  r.kind = "Ok" =>
                   /\ Genuine(r.profile, now) /\ r.profile.alias = alias
                   /\ r.profile.key = world.document.key /\ ~r.profile.revoked
                   /\ \A i \in DOMAIN nip05.relays :
                         LET q == Names!query_relay(world.relays[nip05.relays[i]], nip05.key, alias, now)
                         IN  q.kind = "Ok" =>
                                 Names!Seq0(q.profile.sequence) <= Names!Seq0(r.profile.sequence)
<1> DEFINE nip05 == Names!resolve_nip05(alias, world.document, world.fallback)
           r == Names!NostrResolve(alias, world.document, world.fallback, world.relays, now)
           Q(i) == Names!query_relay(world.relays[nip05.relays[i]], nip05.key, alias, now)
           results == [i \in DOMAIN nip05.relays |-> Q(i)]
           found == {i \in DOMAIN results : results[i].kind = "Ok"}
           newest == {i \in found : \A j \in found : ~Names!Newer(results[j].profile, results[i].profile)}
           seq == [i \in found |-> Names!Seq0(results[i].profile.sequence)]
<1>1. SUFFICES ASSUME r.kind = "Ok"
               PROVE  /\ Genuine(r.profile, now) /\ r.profile.alias = alias
                      /\ r.profile.key = world.document.key /\ ~r.profile.revoked
                      /\ \A i \in DOMAIN nip05.relays :
                            Q(i).kind = "Ok" =>
                                Names!Seq0(Q(i).profile.sequence) <= Names!Seq0(r.profile.sequence)
  OBVIOUS
<1>2. r = IF nip05.kind # "Ok" THEN nip05
          ELSE IF found = {} THEN results[Max(DOMAIN results)]
          ELSE IF results[Min(newest)].profile.revoked THEN Names!Err("RegistryError")
          ELSE results[Min(newest)]
  <2>1. r = IF nip05.kind # "Ok" THEN nip05
            ELSE IF found = {} THEN results[Names!Max(DOMAIN results)]
            ELSE IF results[Names!Min(newest)].profile.revoked THEN Names!Err("RegistryError")
            ELSE results[Names!Min(newest)]
    BY Zenon DEF Names!NostrResolve
  <2>2. Names!Max(DOMAIN results) = Max(DOMAIN results) /\ Names!Min(newest) = Min(newest)
    BY Extremes
  <2> HIDE DEF r, nip05, found, results, newest
  <2> QED BY <2>1, <2>2
<1>3. nip05.kind = "Ok"
  <2> HIDE DEF nip05, found, newest, results, r
  <2> QED BY <1>1, <1>2
<1>4. /\ nip05.key = world.document.key /\ DOMAIN nip05.relays # {}
      /\ \E n \in Nat : DOMAIN nip05.relays \in SUBSET (1 .. n)
      /\ \A i \in DOMAIN nip05.relays : nip05.relays[i] \in Public
  BY <1>3, AskedRelays
<1>5. PICK n \in Nat : DOMAIN nip05.relays \in SUBSET (1 .. n)
  BY <1>4
<1> HIDE DEF nip05
<1>6. ASSUME NEW i \in DOMAIN nip05.relays, Q(i).kind = "Ok"
      PROVE  /\ Genuine(Q(i).profile, now) /\ Q(i).profile.alias = alias
             /\ Q(i).profile.key = world.document.key
             /\ Names!Seq0(Q(i).profile.sequence) \in Nat
  <2> DEFINE events == world.relays[nip05.relays[i]]
  <2>1. events # Down =>
          /\ Sequenced(events)
          /\ \A j \in DOMAIN events : events[j].profile # Garbage => events[j].profile.sequence \in Nat \cup {None}
    BY <1>4 DEF World
  <2> HIDE DEF events
  <2>2. Q(i) = Names!query_relay(events, nip05.key, alias, now)
    BY DEF events
  <2> HIDE DEF Q
  <2>3. /\ events # Down /\ \E j \in DOMAIN events : Q(i).profile = events[j].profile
        /\ Q(i).profile # Garbage /\ Q(i).profile.alias = alias /\ Q(i).profile.key = nip05.key
        /\ Genuine(Q(i).profile, now)
    BY <1>6, <2>1, <2>2, RelayAnswer
  <2>4. Q(i).profile.sequence \in Nat \cup {None}
    BY <2>1, <2>3
  <2>5. Names!Seq0(Q(i).profile.sequence) \in Nat
    BY <2>4 DEF Names!Seq0
  <2> QED BY <1>4, <2>3, <2>5
<1> HIDE DEF Q
<1>7. found # {}
  <2>1. SUFFICES ASSUME found = {} PROVE FALSE
    OBVIOUS
  <2>2. r = results[Max(DOMAIN results)]
    <3> HIDE DEF results, found, newest, r
    <3> QED BY <1>2, <1>3, <2>1
  <2>3. DOMAIN results = DOMAIN nip05.relays /\ DOMAIN results # {}
    BY <1>4
  <2>4. \E m \in DOMAIN results : \A j \in DOMAIN results : j <= m
    <3> DEFINE D == DOMAIN results
    <3>1. D \in SUBSET (1 .. n) /\ D # {}
      BY <1>5, <2>3
    <3> HIDE DEF D
    <3>2. \E m \in D : \A j \in D : j <= m
      BY <3>1, LastIndex
    <3> QED BY <3>2 DEF D
  <2>5. Max(DOMAIN results) \in DOMAIN results
    <3> HIDE DEF results
    <3> QED BY <2>4 DEF Max
  <2>6. Max(DOMAIN results) \in found
    <3> HIDE DEF results, r
    <3> QED BY <1>1, <2>2, <2>5
  <2> QED BY <2>1, <2>6
<1>8. found \in SUBSET (1 .. n) /\ \A i \in found : i \in DOMAIN nip05.relays /\ results[i] = Q(i) /\ Q(i).kind = "Ok"
  BY <1>5
<1>9. \A i \in found : seq[i] = Names!Seq0(Q(i).profile.sequence) /\ seq[i] \in Nat
  BY <1>6, <1>8
<1> HIDE DEF found, results
<1>10. newest # {}
  <2>1. PICK i \in found : \A j \in found : seq[j] <= seq[i]
    <3>1. \A i \in found : seq[i] \in Int
      BY <1>9
    <3> HIDE DEF seq
    <3> QED BY <1>7, <1>8, <3>1, Largest
  <2>2. ASSUME NEW j \in found PROVE ~Names!Newer(results[j].profile, results[i].profile)
    <3>1. seq[j] <= seq[i] /\ seq[j] \in Nat /\ seq[i] \in Nat
      BY <1>9, <2>1
    <3> HIDE DEF seq
    <3> QED BY <1>8, <1>9, <3>1 DEF Names!Newer
  <2> QED BY <2>2
<1>11. newest \subseteq found /\ newest \in SUBSET (1 .. n)
  BY <1>8
<1>12. ASSUME NEW i \in newest, NEW j \in found
       PROVE  Names!Seq0(Q(j).profile.sequence) <= Names!Seq0(Q(i).profile.sequence)
  <2>1. ~Names!Newer(Q(j).profile, Q(i).profile)
    BY <1>8, <1>11
  <2>2. Names!Seq0(Q(j).profile.sequence) \in Nat /\ Names!Seq0(Q(i).profile.sequence) \in Nat
    BY <1>9, <1>11
  <2> QED BY <2>1, <2>2 DEF Names!Newer
<1> HIDE DEF newest, seq
<1>13. PICK m : m = Min(newest)
  OBVIOUS
<1>14. m \in newest
  BY <1>10, <1>11, <1>13, FirstIndex
<1>15. r = results[m] /\ ~results[m].profile.revoked
  <2> HIDE DEF r
  <2> QED BY <1>1, <1>2, <1>3, <1>7, <1>13, Kinds
<1>16. r = Q(m) /\ m \in DOMAIN nip05.relays /\ Q(m).kind = "Ok"
  BY <1>8, <1>11, <1>14, <1>15
<1>17. \A i \in DOMAIN nip05.relays : Q(i).kind = "Ok" => i \in found
  BY DEF found, results
<1> HIDE DEF r
<1>18. \A i \in DOMAIN nip05.relays :
          Q(i).kind = "Ok" => Names!Seq0(Q(i).profile.sequence) <= Names!Seq0(r.profile.sequence)
  BY <1>12, <1>14, <1>16, <1>17
<1>19. ~r.profile.revoked
  BY <1>15
<1>20. Genuine(r.profile, now) /\ r.profile.alias = alias /\ r.profile.key = world.document.key
  BY <1>6, <1>16
<1> QED BY <1>18, <1>19, <1>20

\* The chain takes the first answer that is not passed on, and only for the name asked.
LEMMA ChainStops ==
    ASSUME NEW alias, NEW a, NEW b, NEW c, NEW d,
           Names!ChainResolve(alias, <<a, b, c, d>>).kind = "Ok"
    PROVE  LET r == Names!ChainResolve(alias, <<a, b, c, d>>)
           IN  /\ r.profile.alias = alias
               /\ \/ r = a
                  \/ r = b /\ Names!PassesOn(a)
                  \/ r = c /\ Names!PassesOn(a) /\ Names!PassesOn(b)
                  \/ r = d /\ Names!PassesOn(a) /\ Names!PassesOn(b) /\ Names!PassesOn(c)
<1> DEFINE results == <<a, b, c, d>>
           r == Names!ChainResolve(alias, results)
           I == {i \in 1 .. Len(results) : ~Names!PassesOn(results[i])}
           first == IF I # {} THEN Min(I) ELSE 0
<1>1. Len(results) = 4 /\ results[1] = a /\ results[2] = b /\ results[3] = c /\ results[4] = d
  OBVIOUS
<1>2. r = IF first = 0 THEN Names!Err("AliasNotFound") ELSE Names!SubstitutionCheck(alias, results[first])
  <2> DEFINE index == IF I # {} THEN Names!Min(I) ELSE 0
  <2>1. r = IF index = 0 THEN Names!Err("AliasNotFound") ELSE Names!SubstitutionCheck(alias, results[index])
    BY DEF Names!ChainResolve, Names!SelectInSeq
  <2>2. index = first
    BY Extremes
  <2> HIDE DEF index, first, results, r
  <2> QED BY <2>1, <2>2
<1>3. I \in SUBSET (1 .. 4) /\ \A i \in 1 .. 4 : i \notin I => Names!PassesOn(results[i])
  BY <1>1
<1>4. r.kind = "Ok"
  OBVIOUS
<1> HIDE DEF results, r, I
<1>5. PICK m : m = first
  OBVIOUS
<1>6. m # 0 /\ r = Names!SubstitutionCheck(alias, results[m])
  BY <1>2, <1>4, <1>5, Kinds
<1>7. m \in I /\ \A j \in I : m <= j
  BY <1>3, <1>5, <1>6, FirstIndex
<1>8. r = results[m] /\ r.profile.alias = alias
  BY <1>4, <1>6, Kinds DEF Names!SubstitutionCheck
<1>9. m \in 1 .. 4 /\ \A i \in 1 .. 4 : i < m => Names!PassesOn(results[i])
  BY <1>3, <1>7
<1>10. m = 1 \/ m = 2 \/ m = 3 \/ m = 4
  BY <1>9
<1>11. \/ r = a
       \/ r = b /\ Names!PassesOn(a)
       \/ r = c /\ Names!PassesOn(a) /\ Names!PassesOn(b)
       \/ r = d /\ Names!PassesOn(a) /\ Names!PassesOn(b) /\ Names!PassesOn(c)
  BY <1>1, <1>8, <1>9, <1>10
<1> QED BY <1>8, <1>11 DEF r, results

\* resolver.rs and resolvers/*.rs: whatever the registry, the name servers, the web server and the
\* relays say, a profile that the chain returns is the asked name's, signed by the key it names
\* and unexpired.  A name in the registry is answered from there or not at all, so that one that
\* is revoked or expired here comes from nowhere else; what the web server serves is taken or ends
\* the search; and a profile of the relays is the newest that any relay asked has for the
\* domain's key, and not revoked.
THEOREM NothingIsSubstituted ==
    ASSUME NEW world, World(world), None \notin Int, NEW alias, NEW now,
           Names!Resolve(alias, world, now).kind = "Ok"
    PROVE  LET p == Names!Resolve(alias, world, now).profile
               nip05 == Names!resolve_nip05(alias, world.document, world.fallback)
           IN  /\ p.alias = alias /\ Genuine(p, now)
               /\ world.registered # None => p = world.registered /\ ~p.revoked
               /\ world.registered = None /\ ~alias.sign /\ alias.domain # None
                    /\ world.answer \notin {Down, None} => p = world.answer
               /\ p # world.registered /\ ~alias.sign /\ p # world.answer =>
                    /\ p.key = world.document.key /\ ~p.revoked
                    /\ \A i \in DOMAIN nip05.relays :
                          LET q == Names!query_relay(world.relays[nip05.relays[i]], nip05.key, alias, now)
                          IN  q.kind = "Ok" => Names!Seq0(q.profile.sequence) <= Names!Seq0(p.sequence)
<1> DEFINE a == Names!RegistryResolve(world.registered, now)
           b == Names!Bip353Resolve(alias, world.records, world.key, now)
           c == Names!HttpResolve(alias, world.answer, now)
           d == Names!NostrResolve(alias, world.document, world.fallback, world.relays, now)
           r == Names!Resolve(alias, world, now)
           p == r.profile
           nip05 == Names!resolve_nip05(alias, world.document, world.fallback)
           Newest(q) ==
               \A i \in DOMAIN nip05.relays :
                   LET o == Names!query_relay(world.relays[nip05.relays[i]], nip05.key, alias, now)
                   IN  o.kind = "Ok" => Names!Seq0(o.profile.sequence) <= Names!Seq0(q.sequence)
<1>1. r = Names!ChainResolve(alias, <<a, b, c, d>>)
  BY DEF Names!Resolve
<1>2. r.kind = "Ok"
  OBVIOUS
<1>3. /\ a.kind = "Ok" => /\ world.registered # None /\ a.profile = world.registered
                          /\ ~a.profile.revoked /\ Genuine(a.profile, now)
      /\ Names!PassesOn(a) => world.registered = None
  BY RegistryAnswer
<1>4. b.kind = "Ok" => alias.sign /\ Genuine(b.profile, now)
  BY DnsAnswer
<1>5. /\ c.kind = "Ok" => c.profile = world.answer /\ Genuine(world.answer, now)
      /\ Names!PassesOn(c) => alias.domain = None \/ world.answer \in {Down, None}
  BY WebAnswer
<1>6. d.kind = "Ok" => /\ Genuine(d.profile, now) /\ d.profile.key = world.document.key
                       /\ ~d.profile.revoked /\ Newest(d.profile)
  <2>1. d.kind = "Ok" =>
          /\ Genuine(d.profile, now) /\ d.profile.alias = alias
          /\ d.profile.key = world.document.key /\ ~d.profile.revoked
          /\ \A i \in DOMAIN nip05.relays :
                LET q == Names!query_relay(world.relays[nip05.relays[i]], nip05.key, alias, now)
                IN  q.kind = "Ok" => Names!Seq0(q.profile.sequence) <= Names!Seq0(d.profile.sequence)
    <3>1. World(world) /\ None \notin Int
      OBVIOUS
    <3> QED BY <3>1, NostrAnswer
  <2> HIDE DEF d, nip05
  <2> QED BY <2>1
<1> HIDE DEF a, b, c, d, r, Newest
<1>7. /\ r.profile.alias = alias
      /\ \/ r = a
         \/ r = b /\ Names!PassesOn(a)
         \/ r = c /\ Names!PassesOn(a) /\ Names!PassesOn(b)
         \/ r = d /\ Names!PassesOn(a) /\ Names!PassesOn(b) /\ Names!PassesOn(c)
  BY <1>1, <1>2, ChainStops
<1>8. Genuine(p, now)
  BY <1>2, <1>3, <1>4, <1>5, <1>6, <1>7
<1>9. world.registered # None => p = world.registered /\ ~p.revoked
  BY <1>2, <1>3, <1>7
<1>10. world.registered = None /\ ~alias.sign /\ alias.domain # None /\ world.answer \notin {Down, None}
         => p = world.answer
  BY <1>2, <1>3, <1>4, <1>5, <1>7
<1>11. p # world.registered /\ ~alias.sign /\ p # world.answer =>
         p.key = world.document.key /\ ~p.revoked /\ Newest(p)
  BY <1>2, <1>3, <1>4, <1>5, <1>6, <1>7
<1> QED BY <1>7, <1>8, <1>9, <1>10, <1>11 DEF r, Newest

================================================================================
