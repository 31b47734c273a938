------------------------------- MODULE RateLimiter -----------------------------
(***************************************************************************)
(* The daemon's token buckets, one per client address (satspathd:          *)
(* rate_limit.rs, and router.rs, which asks it before it serves).          *)
(*                                                                         *)
(* Requests are served by concurrent workers.  A worker takes the time and *)
(* then two locks one after the other, last_cleanup's and the buckets', so *)
(* that workers may come to the buckets in another order than their times. *)
(*                                                                         *)
(* Abstractions.  Time is in whole seconds, tokens are counted in parts:   *)
(* One parts are a token and Rate parts come back per second.  The         *)
(* counters of stats are left out.                                         *)
(***************************************************************************)
EXTENDS Integers, Sequences, SequencesExt, FiniteSetsExt, Functions

CONSTANTS
    Burst,        \* burst_capacity, in parts
    One,          \* a token, in parts
    Rate,         \* refill_rate_per_sec, in parts
    Interval,     \* cleanup_interval_secs
    Workers,      \* the requests served at once
    Addresses,    \* client addresses; 0 stands for a header that is none
    HeaderLists,  \* the headers that requests carry: sequences of [field, value]
    MaxSeconds    \* bound on the clock

ASSUME LimiterAssumption ==
    /\ {Burst, Rate, Interval, MaxSeconds} \subseteq Nat
    /\ One \in Nat \ {0}
    /\ Addresses \subseteq Nat \ {0}
    /\ \A headers \in HeaderLists : headers \in Seq([field : STRING, value : Addresses \cup {0}])

VARIABLES
    trust_proxy_headers,  \* the configuration
    buckets,              \* a bucket for each address that is tracked
    last_cleanup,
    seconds,              \* Instant::now()
    worker,               \* the requests under way
    window                \* history: a stretch of the requests of each client

lvars == <<trust_proxy_headers, buckets, last_cleanup, seconds, worker, window>>

Bucket == [tokens : Nat, last_update : Nat]

\* Client: whose request it is; ip: whom it counts for; at: when it came.  History: whether its
\* last answer kept to the wait that the client had been told.
Worker == [pc : {"idle", "maybe_prune", "retain", "check"}, client : Addresses \cup {0},
           ip : Addresses \cup {0}, at : Nat, kept : BOOLEAN]
IdleWorker(kept) == [pc |-> "idle", client |-> 0, ip |-> 0, at |-> 0, kept |-> kept]

\* A stretch of requests in the order in which they reached the bucket: the times of the first
\* and the last, the seconds by which later ones were older than the one before, how many were
\* allowed, and from when on the next is to be allowed (0: nothing was said).
Window == [first : Nat, last : Nat, rewound : Nat, allowed : Nat, promise : Nat]

LimiterTypeOK ==
    /\ trust_proxy_headers \in BOOLEAN
    /\ DOMAIN buckets \subseteq Addresses /\ buckets \in [DOMAIN buckets -> Bucket]
    /\ last_cleanup \in Nat /\ seconds \in Nat
    /\ worker \in [Workers -> Worker]
    /\ DOMAIN window \subseteq Addresses /\ window \in [DOMAIN window -> Window]

LimiterInit ==
    /\ trust_proxy_headers \in BOOLEAN
    /\ buckets = << >>
    /\ last_cleanup = 0
    /\ seconds = 0
    /\ worker = [w \in Workers |-> IdleWorker(TRUE)]
    /\ window = << >>

\* saturating_duration_since
Elapsed(since, now) == IF now >= since THEN now - since ELSE 0

--------------------------------------------------------------------------------
(* A request *)

\* The address a request counts for: the peer's, unless the proxy's headers are trusted; then
\* the first X-Forwarded-For that is an address, then the first X-Real-IP.
extract_client_ip(remote, headers, trust) ==
    LET First(field) == SelectInSeq(headers, LAMBDA h : h.field = field /\ h.value # 0)
    IN  IF trust /\ First("x-forwarded-for") # 0 THEN headers[First("x-forwarded-for")].value
        ELSE IF trust /\ First("x-real-ip") # 0 THEN headers[First("x-real-ip")].value
        ELSE remote

\* handle_request finds out the address, check takes the time.
Arrive(w) ==
    /\ worker[w].pc = "idle"
    /\ \E remote \in Addresses, headers \in HeaderLists :
          LET ip == extract_client_ip(remote, headers, trust_proxy_headers)
          IN  worker' = [worker EXCEPT ![w] =
                  [pc |-> "maybe_prune", client |-> IF trust_proxy_headers THEN ip ELSE remote, ip |-> ip,
                   at |-> seconds, kept |-> TRUE]]
    /\ UNCHANGED <<trust_proxy_headers, buckets, last_cleanup, seconds, window>>

\* One worker prunes per interval.
maybe_prune(w) ==
    /\ worker[w].pc = "maybe_prune"
    /\ \/ /\ Elapsed(last_cleanup, worker[w].at) < Interval
          /\ worker' = [worker EXCEPT ![w].pc = "check"]
          /\ UNCHANGED last_cleanup
       \/ /\ Elapsed(last_cleanup, worker[w].at) >= Interval
          /\ last_cleanup' = worker[w].at
          /\ worker' = [worker EXCEPT ![w].pc = "retain"]
    /\ UNCHANGED <<trust_proxy_headers, buckets, seconds, window>>

\* Mutant: every idle bucket is dropped.
Stale_AnyTokens(bucket, now) == Elapsed(bucket.last_update, now) >= Interval

\* A bucket that is idle and was full at its last use.  None is: a use takes a token, and the
\* refill is not looked at here.
Stale(bucket, now) == Elapsed(bucket.last_update, now) >= Interval /\ bucket.tokens >= Burst

RetainBuckets(w) ==
    /\ worker[w].pc = "retain"
    /\ buckets' = Restrict(buckets, {ip \in DOMAIN buckets : ~Stale(buckets[ip], worker[w].at)})
    /\ worker' = [worker EXCEPT ![w].pc = "check"]
    /\ UNCHANGED <<trust_proxy_headers, last_cleanup, seconds, window>>

--------------------------------------------------------------------------------
(* A bucket *)

\* What is in the bucket at a time.
Refilled(bucket, now) ==
    LET tokens == bucket.tokens + Elapsed(bucket.last_update, now) * Rate
    IN  IF tokens <= Burst THEN tokens ELSE Burst

\* The wait a client is told when parts are missing: the ceiling of missing / Rate, at least 1.
RetryAfter(missing) ==
    LET wait == IF Rate > 0 THEN (missing + Rate - 1) \div Rate ELSE 60
    IN  IF wait >= 1 THEN wait ELSE 1

try_consume(bucket, now) ==
    LET tokens == Refilled(bucket, now)
    IN  IF tokens >= One
        THEN [bucket |-> [tokens |-> tokens - One, last_update |-> now], allowed |-> TRUE, retry_after |-> 0]
        ELSE [bucket |-> [tokens |-> tokens, last_update |-> now], allowed |-> FALSE,
              retry_after |-> RetryAfter(One - tokens)]

\* The entry of an address, or a full one.
BucketOf(ip, now) ==
    IF ip \in DOMAIN buckets THEN buckets[ip] ELSE [tokens |-> Burst, last_update |-> now]

\* History: a stretch goes on with a request, or begins with it.
Continued(stretch, now, result) ==
    [first |-> stretch.first,
     last |-> now,
     rewound |-> stretch.rewound + Elapsed(now, stretch.last),
     allowed |-> IF result.allowed THEN stretch.allowed + 1 ELSE stretch.allowed,
     promise |-> IF result.allowed THEN 0 ELSE now + result.retry_after]
NewStretch(now) == [first |-> now, last |-> now, rewound |-> 0, allowed |-> 0, promise |-> 0]

\* History: the client comes after the wait it was told.
Due(client, now) ==
    client \in DOMAIN window /\ window[client].promise # 0 /\ now >= window[client].promise

check_at(w) ==
    LET ip == worker[w].ip
        client == worker[w].client
        now == worker[w].at
        result == try_consume(BucketOf(ip, now), now)
    IN  /\ worker[w].pc = "check"
        /\ buckets' = [i \in DOMAIN buckets \cup {ip} |-> IF i = ip THEN result.bucket ELSE buckets[i]]
        /\ worker' = [worker EXCEPT ![w] = IdleWorker(Due(client, now) => result.allowed)]
        /\ \E stretch \in {NewStretch(now)} \cup {window[c] : c \in DOMAIN window \cap {client}} :
              window' = [c \in DOMAIN window \cup {client} |->
                            IF c = client THEN Continued(stretch, now, result) ELSE window[c]]
        /\ UNCHANGED <<trust_proxy_headers, last_cleanup, seconds>>

Second ==
    /\ seconds < MaxSeconds
    /\ seconds' = seconds + 1
    /\ UNCHANGED <<trust_proxy_headers, buckets, last_cleanup, worker, window>>

LimiterNext ==
    \/ \E w \in Workers : Arrive(w) \/ maybe_prune(w) \/ RetainBuckets(w) \/ check_at(w)
    \/ Second

LimiterSpec == LimiterInit /\ [][LimiterNext]_lvars

--------------------------------------------------------------------------------
\* In any stretch of its requests a client is allowed no more than the burst and what flows back
\* between the first and the last: a pruning never takes a bucket that is owed tokens, and headers
\* claim nothing to a server that does not trust them.  Each request that reaches the bucket after a younger one
\* costs the bound the seconds it is older: they are credited once more.  And a client that comes
\* back after the wait it was told is allowed.
BurstBound ==
    /\ \A c \in DOMAIN window :
          One * window[c].allowed <=
              Burst + Rate * (window[c].last - window[c].first + window[c].rewound)
    /\ Rate > 0 /\ Burst >= One => \A w \in Workers : worker[w].kept

================================================================================
