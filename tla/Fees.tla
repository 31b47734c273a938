---------------------------------- MODULE Fees ---------------------------------
(***************************************************************************)
(* The fee estimator (satspath-router: fees.rs): several sources are asked *)
(* at once, the median of what they answer is taken tier by tier, kept in  *)
(* a process-wide cache, and when too few answer the cached estimate is    *)
(* served, decayed towards the fallback, until it is too old.              *)
(*                                                                         *)
(* A fetch reads the clock when it starts and touches the cache when the   *)
(* last source has answered or timed out; fetches overlap.                 *)
(*                                                                         *)
(* Abstractions.  A tier is 1 .. 5, from minimum_fee to fastest_fee.  The  *)
(* rates of Esplora and Bitcoin Core are in tenths of a sat/vB where the   *)
(* code has floating point, so that rounding up shows.                     *)
(***************************************************************************)
EXTENDS Integers, Sequences, FiniteSets, FiniteSetsExt

CONSTANTS
    Fetches,      \* calls of fetch_consensus_fee
    Sources,      \* config.sources
    Kind,         \* the kind of each source
    Replies,      \* what each source may answer, Silent included
    Liars,        \* the sources whose answers are arbitrary
    MinSources,   \* min_sources_for_consensus
    Staleness,    \* max_staleness_secs
    MaxTime,      \* bound on the clock
    Silent        \* no answer: a timeout, an error, an empty estimate

ASSUME KindAssumption == Kind \in [Sources -> {"core", "mempool", "esplora", "static"}]
ASSUME BoundsAssumption == MinSources \in Nat /\ Staleness \in Nat /\ MaxTime \in Nat
ASSUME LiarsAssumption == Liars \subseteq Sources
ASSUME SourcesAssumption == IsFiniteSet(Sources)

\* An answer is a rate for each of finitely many targets, in tenths, or for each tier.
ASSUME RepliesAssumption ==
    \A s \in Sources : \A r \in Replies[s] :
        \/ r = Silent
        \/ IF Kind[s] \in {"core", "esplora"}
           THEN /\ IsFiniteSet(DOMAIN r)
                /\ \A target \in DOMAIN r : target \in Nat /\ r[target] \in Int
           ELSE r \in [1 .. 5 -> Nat]

--------------------------------------------------------------------------------
(* Estimates *)

Tiers == 1 .. 5

FALLBACK_FEES == <<1, 5, 10, 15, 20>>

\* Each tier is raised to the one below it and to 1.
sanitize(est) == [t \in Tiers |-> Max({1} \cup {est[u] : u \in 1 .. t})]

\* Rounding up from tenths.
CeilTenths(rate) == Max({1, (rate + 9) \div 10})

\* Esplora: a rate for each target it knows.  A target is served by the nearest slower one,
\* the fastest tier by the first target and the minimum by the last.
to_fee_estimate(rates) ==
    LET targets == {t \in DOMAIN rates : rates[t] > 0}
        At(t) == CeilTenths(rates[t])
        get_rate(desired) == IF \E t \in targets : t >= desired
                             THEN At(Min({t \in targets : t >= desired}))
                             ELSE At(Max(targets))
    IN  IF targets = {} THEN Silent
        ELSE sanitize(<<At(Max(targets)), get_rate(24), get_rate(6), get_rate(3), At(Min(targets))>>)

\* Bitcoin Core: one call for each of the targets 1, 3, 6 and 24, any of which may fail.
\* A target that failed takes the rate of the next slower one.
CoreEstimate(rates) ==
    LET known == {t \in {1, 3, 6, 24} : t \in DOMAIN rates /\ rates[t] > 0}
        At(t) == CeilTenths(rates[t])
        Or(ts, default) == IF ts \cap known = {} THEN default ELSE At(Min(ts \cap known))
        fastest == Or({1, 3, 6}, 0)
        half_hour == Or({3, 6}, fastest)
        hour == Or({6}, half_hour)
        economy == Or({24}, Max({1, hour \div 2}))
    IN  IF {1, 3, 6} \cap known = {} THEN Silent
        ELSE sanitize(<<1, economy, hour, half_hour, fastest>>)

fetch_source_estimate(source, reply) ==
    IF reply = Silent THEN Silent
    ELSE CASE Kind[source] = "core" -> CoreEstimate(reply)
           [] Kind[source] = "esplora" -> to_fee_estimate(reply)
           [] OTHER -> sanitize(reply)

--------------------------------------------------------------------------------
(* Consensus and decay *)

\* The value at position k of the sorted list of what the sources of a set say.
Ranked(values, S, k) ==
    CHOOSE v \in {values[s] : s \in S} :
        /\ Cardinality({s \in S : values[s] < v}) < k
        /\ Cardinality({s \in S : values[s] <= v}) >= k

\* Mutant: the mean instead of the median.
MedianOf_Mean(values, S) ==
    LET sum == SumSet({values[s] : s \in S}) IN sum \div Cardinality(S)

\* The middle value, the middle two averaged upwards.
MedianOf(values, S) ==
    LET n == Cardinality(S)
    IN  IF n % 2 = 1 THEN Ranked(values, S, n \div 2 + 1)
        ELSE (Ranked(values, S, n \div 2) + Ranked(values, S, n \div 2 + 1) + 1) \div 2

compute_median_fee(estimates, S) ==
    sanitize([t \in Tiers |-> MedianOf([s \in S |-> estimates[s][t]], S)])

\* Towards the fallback, linearly, rounded to the nearest.
decay_estimate(est, elapsed) ==
    IF Staleness = 0 \/ elapsed >= Staleness THEN FALLBACK_FEES
    ELSE sanitize([t \in Tiers |->
             Max({1, (2 * (est[t] * (Staleness - elapsed) + FALLBACK_FEES[t] * elapsed) + Staleness)
                         \div (2 * Staleness)})])

--------------------------------------------------------------------------------
(* The cache and the fetches *)

VARIABLES
    clock,  \* current_time_secs
    cache,  \* CACHED_FEE: an estimate with the time of the fetch that made it
    fetch   \* each fetch: whether it runs, its time, what it reports

fvars == <<clock, cache, fetch>>

NoEstimate == [estimate |-> FALLBACK_FEES, time |-> 0, low |-> FALLBACK_FEES, high |-> FALLBACK_FEES]

\* The estimate and, for the properties, the range of the honest answers behind it (history
\* that the code does not keep).
CachedEstimate(est, time, low, high) == [estimate |-> est, time |-> time, low |-> low, high |-> high]

NewFetch == [pc |-> "new", time |-> 0, from |-> "none", report |-> NoEstimate]

FeesInit ==
    /\ clock = 0
    /\ cache = Silent
    /\ fetch = [f \in Fetches |-> NewFetch]

\* The clock is SystemTime: it may be set forward or back.
Tick == \E time \in 0 .. MaxTime : clock' = time

StartFetch(f) ==
    /\ fetch[f].pc = "new"
    /\ fetch' = [fetch EXCEPT ![f].pc = "waiting", ![f].time = clock]

Lowest(estimates, S) == [t \in Tiers |-> Min({estimates[s][t] : s \in S})]
Highest(estimates, S) == [t \in Tiers |-> Max({estimates[s][t] : s \in S})]

\* What a fetch knows of an estimate, with the honest range widened to what S said when
\* liars are not a minority of those who answered.
Observation(estimates, S, time) ==
    LET honest == IF 2 * Cardinality(S \cap Liars) < Cardinality(S) THEN S \ Liars ELSE S
    IN  CachedEstimate(compute_median_fee(estimates, S), time,
                       Lowest(estimates, honest), Highest(estimates, honest))

\* What the sources may answer, each answer converted as its kind demands.
SourceEstimates ==
    LET answers == {r \in [Sources -> UNION {Replies[s] : s \in Sources}] :
                        \A s \in Sources : r[s] \in Replies[s]}
    IN  {[s \in Sources |-> fetch_source_estimate(s, r[s])] : r \in answers}

ServeCached(now) == cache # Silent /\ (IF now > cache.time THEN now - cache.time ELSE 0) < Staleness

\* The last source has answered: the median is cached with the time the fetch began, or the
\* cached estimate is served, or the fallback.
FinishFetch(f) ==
    /\ fetch[f].pc = "waiting"
    /\ \E estimates \in SourceEstimates :
          LET S == {s \in Sources : estimates[s] # Silent}
              now == fetch[f].time
              Report(from, observed) ==
                  fetch' = [fetch EXCEPT ![f] = [pc |-> "done", time |-> now,
                                                 from |-> from, report |-> observed]]
          IN  IF Cardinality(S) >= MinSources /\ S # {}
              THEN LET observed == Observation(estimates, S, now)
                   IN  Report("sources", observed) /\ cache' = observed
              ELSE /\ cache' = cache
                   /\ IF ServeCached(now)
                      THEN Report("cache",
                               [cache EXCEPT !.estimate =
                                   decay_estimate(@, IF now > cache.time THEN now - cache.time ELSE 0)])
                      ELSE Report("fallback", [NoEstimate EXCEPT !.time = now])

--------------------------------------------------------------------------------
(* Properties *)

\* A minority of the sources that answered cannot move any tier out of the range of what the
\* others said; a decayed estimate lies between that range and the fallback.
HonestRange ==
    \A f \in Fetches : \A t \in Tiers :
        LET r == fetch[f].report
            decayed == fetch[f].from = "cache"
        IN  /\ r.estimate[t] >= Min({r.low[t]} \cup (IF decayed THEN {FALLBACK_FEES[t]} ELSE {}))
            /\ r.estimate[t] <= Max({r.high[t]} \cup (IF decayed THEN {FALLBACK_FEES[t]} ELSE {}))

================================================================================
