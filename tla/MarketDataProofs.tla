-------------------------- MODULE MarketDataProofs --------------------------
(***************************************************************************)
(* Market data and orders, for every universe, batch ladder and number of  *)
(* retries, and whatever the broker answers; and the watchlist they are    *)
(* asked for, for every list of instruments and every interval, with the   *)
(* caches it fills, for every budget, age and backoff.                     *)
(***************************************************************************)
EXTENDS MarketData, Watchlist, FundamentalsCache, EarningsCalendar, FiniteSetTheorems, TLAPS

-----------------------------------------------------------------------------
(* Chunks. *)

Rank(S) == [i \in S |-> Cardinality({j \in S : j < i})]

\* Ranks tell the instruments of a list apart (the slices of market_data.py).
LEMMA RankIsInjective ==
    ASSUME NEW S, IsFiniteSet(S), S \subseteq Nat
    PROVE  Rank(S) \in Injection(S, 0..Cardinality(S) - 1)
<1> DEFINE Below(i) == {j \in S : j < i}
<1>1. Cardinality(S) \in Nat
    BY FS_CardinalityType
<1>2. ASSUME NEW i \in S
      PROVE  /\ IsFiniteSet(Below(i)) /\ Cardinality(Below(i)) \in Nat
             /\ Cardinality(Below(i)) < Cardinality(S)
    <2>1. Below(i) \in SUBSET S /\ i \notin Below(i)
        OBVIOUS
    <2>2. IsFiniteSet(Below(i)) /\ Cardinality(Below(i)) <= Cardinality(S)
          /\ (Cardinality(S) = Cardinality(Below(i)) => S = Below(i))
        BY <2>1, FS_Subset
    <2>3. Cardinality(Below(i)) \in Nat
        BY <2>2, FS_CardinalityType
    <2> QED
        BY <1>1, <2>1, <2>2, <2>3
<1>3. ASSUME NEW i \in S, NEW k \in S, i < k
      PROVE  Cardinality(Below(i)) < Cardinality(Below(k))
    <2>0. \A j \in S : j < i => j < k
        BY <1>3
    <2>3. i \in Below(k) /\ ~(i < i)
        BY <1>3
    <2>1. Below(i) \in SUBSET Below(k) /\ i \in Below(k) /\ i \notin Below(i)
        BY <2>0, <2>3
    <2>2. Cardinality(Below(i)) <= Cardinality(Below(k))
          /\ (Cardinality(Below(k)) = Cardinality(Below(i)) => Below(k) = Below(i))
        BY <1>2, <2>1, FS_Subset
    <2> QED
        BY <1>2, <2>1, <2>2
<1>4. ASSUME NEW i \in S, NEW k \in S, i # k
      PROVE  Cardinality(Below(i)) # Cardinality(Below(k))
    <2>1. i < k \/ k < i
        BY <1>4
    <2>2. CASE i < k
        BY <1>2, <1>3, <2>2
    <2>3. CASE k < i
        BY <1>2, <1>3, <2>3
    <2> QED
        BY <2>1, <2>2, <2>3
<1>5. Rank(S) \in [S -> 0..Cardinality(S) - 1]
    BY <1>1, <1>2 DEF Rank
<1>6. \A i, k \in S : Rank(S)[i] = Rank(S)[k] => i = k
    BY <1>4 DEF Rank
<1> QED
    BY <1>5, <1>6 DEF Injection, IsInjective

\* A chunk is part of the list, is no longer than asked for, and is not empty.
LEMMA FirstIs ==
    ASSUME NEW S, IsFiniteSet(S), S \subseteq Nat, NEW n \in Nat \ {0}
    PROVE  /\ First(n, S) \subseteq S
           /\ Cardinality(First(n, S)) <= n
           /\ S # {} => First(n, S) # {}
<1>1. First(n, S) \subseteq S
    BY DEF First
<1>2. Cardinality(S) \in Nat /\ (S # {} => Cardinality(S) > 0)
    <2>1. Cardinality(S) \in Nat
        BY FS_CardinalityType
    <2>2. S # {} => Cardinality(S) # 0
        BY FS_EmptySet
    <2> QED
        BY <2>1, <2>2
<1>3. Rank(S) \in Injection(S, 0..Cardinality(S) - 1)
    BY RankIsInjective
<1>7. /\ Rank(S) \in [S -> 0..Cardinality(S) - 1]
      /\ \A i, k \in S : Rank(S)[i] = Rank(S)[k] => i = k
    <2>1. Rank(S) \in [S -> 0..Cardinality(S) - 1] /\ IsInjective(Rank(S))
        BY <1>3 DEF Injection
    <2>2. DOMAIN Rank(S) = S
        BY <2>1
    <2> QED
        BY <2>1, <2>2 DEF IsInjective
<1>8. \A i \in S : Rank(S)[i] \in Nat
    BY <1>2, <1>7
<1>4. \A i \in S : i \in First(n, S) <=> Rank(S)[i] < n
    BY DEF First, Rank
<1>5. Cardinality(First(n, S)) <= n
    <2> DEFINE r == [i \in First(n, S) |-> Rank(S)[i]]
    <2>1. /\ \A i \in First(n, S) : Rank(S)[i] \in Nat
          /\ \A i, k \in First(n, S) : Rank(S)[i] = Rank(S)[k] => i = k
        BY <1>1, <1>7, <1>8
    <2>3. \A i \in First(n, S) : Rank(S)[i] \in 0..n - 1
        <3>1. \A m \in Nat : m < n => m \in 0..n - 1
            OBVIOUS
        <3> QED
            BY <1>1, <1>4, <2>1, <3>1
    <2>4. r \in [First(n, S) -> 0..n - 1]
        BY <2>3
    <2>5. r \in Injection(First(n, S), 0..n - 1)
        BY <2>1, <2>4 DEF Injection, IsInjective
    <2>2. IsFiniteSet(0..n - 1) /\ Cardinality(0..n - 1) = n
        BY FS_Interval
    <2> QED
        BY <2>2, <2>5, FS_Injection
<1>6. ASSUME S # {} PROVE First(n, S) # {}
    <2> DEFINE c == Cardinality(S)
    <2>0. c \in Nat /\ c > 0 /\ c - 1 \in Int
        BY <1>2, <1>6
    <2>1. IsFiniteSet(0..c - 1) /\ Cardinality(0..c - 1) = c
        <3> HIDE DEF c
        <3> QED BY <2>0, FS_Interval
    <2>2. Rank(S) \in Surjection(S, 0..Cardinality(S) - 1)
        BY <1>3, <2>1, FS_Injection
    <2>3. 0 \in 0..Cardinality(S) - 1
        BY <2>0
    <2>4. PICK i \in S : Rank(S)[i] = 0
        BY <2>2, <2>3 DEF Surjection
    <2> QED
        BY <1>4, <2>4
<1> QED
    BY <1>1, <1>5, <1>6

-----------------------------------------------------------------------------
(* The type invariant. *)

\* The ladder of chunk sizes is nonempty, and its sizes are positive.
LEMMA LadderType ==
    /\ Len(Ladder) \in Nat \ {0} /\ Smallest \in Nat \ {0}
    /\ \A k \in 1..Len(Ladder) : Ladder[k] \in Nat \ {0}
<1>1. Len(Ladder) \in Nat \ {0} /\ Ladder \in [1..Len(Ladder) -> Nat \ {0}]
    BY MarketAssumption
<1> QED
    BY <1>1 DEF Smallest

\* A chunk is a nonempty part of what is left, and a batch no larger than its rung.
LEMMA ChunkIs ==
    ASSUME MarketTypeOK
    PROVE  /\ IsFiniteSet(left) /\ Cardinality(left) \in Nat
           /\ Chunk \subseteq left
           /\ left # {} => Chunk # {}
           /\ job.kind \notin {"rates", "candles"} => Cardinality(Chunk) <= Ladder[rung]
<1>1. tracked \subseteq Ids /\ left \subseteq Ids
    BY MarketAssumption DEF MarketTypeOK
<1>2. IsFiniteSet(left) /\ Cardinality(left) \in Nat /\ left \subseteq Nat
    BY <1>1, MarketAssumption, FS_Subset, FS_CardinalityType
<1>3. Ladder[rung] \in Nat \ {0} /\ RateChunk \in Nat \ {0} /\ 1 \in Nat \ {0}
    BY LadderType, MarketAssumption DEF MarketTypeOK
<1>4. CASE job.kind = "rates"
    BY <1>2, <1>3, <1>4, FirstIs DEF Chunk
<1>5. CASE job.kind = "candles"
    BY <1>2, <1>3, <1>5, FirstIs DEF Chunk
<1>6. CASE job.kind \notin {"rates", "candles"}
    <2>1. Chunk = First(Ladder[rung], left)
        BY <1>6 DEF Chunk
    <2> QED
        BY <1>2, <1>3, <2>1, FirstIs
<1> QED
    BY <1>2, <1>4, <1>5, <1>6

LEMMA MarketTypeInit == MarketInit => MarketTypeOK
<1> SUFFICES ASSUME MarketInit PROVE MarketTypeOK
    OBVIOUS
<1>1. Cardinality(Ids) \in Nat
    BY MarketAssumption, FS_CardinalityType
<1>2. limit \in Nat
    BY <1>1 DEF MarketInit
<1> QED
    BY <1>2, LadderType, MarketAssumption DEF MarketInit, MarketTypeOK

LEMMA SentType ==
    ASSUME MarketTypeOK, NEW r \in Replies, Sent(r)
    PROVE  /\ sent' = sent + 1 /\ sent' \in Nat
           /\ acted' \in {acted, acted + 1} /\ acted' \in Nat
           /\ UNCHANGED <<round, tracked, limit>>
<1> QED
    BY DEF MarketTypeOK, Sent

\* An answer takes the chunk off the list, whatever of it has data.
LEMMA AnsweredIs ==
    ASSUME MarketTypeOK, NEW data \in SUBSET Chunk, Answered(data)
    PROVE  /\ job.at = "running" /\ sent' = sent + 1
           /\ sent' \in Nat /\ acted' \in Nat /\ attempt' = 0
           /\ left' = left \ Chunk
           /\ left' \subseteq tracked /\ got' \subseteq tracked /\ silent' \subseteq tracked
           /\ got' \cup silent' \cup skipped' \cup left'
                 = got \cup silent \cup skipped \cup left
           /\ UNCHANGED <<round, tracked, limit, rung, skipped>>
<1>1. Chunk \subseteq left
    BY ChunkIs
<1>2. /\ Sent("ok") /\ got' = got \cup data /\ silent' = silent \cup (Chunk \ data)
      /\ left' = left \ Chunk /\ attempt' = 0 /\ UNCHANGED <<rung, skipped>>
    BY DEF Answered
<1>3. job.at = "running"
    BY <1>2 DEF Sent
<1>4. left \subseteq tracked /\ got \subseteq tracked /\ silent \subseteq tracked
    BY DEF MarketTypeOK
<1>5. /\ left' \subseteq tracked /\ got' \subseteq tracked /\ silent' \subseteq tracked
      /\ got' \cup silent' \cup skipped' \cup left' = got \cup silent \cup skipped \cup left
    BY <1>1, <1>2, <1>4
<1> QED
    BY <1>2, <1>3, <1>5, SentType DEF Replies

Jobs == [kind : {"none", "rates", "candles", "metas", "trade"},
         at : {"running", "done", "failed"}]

LEMMA EndedType ==
    ASSUME MarketTypeOK, NEW at \in {"done", "failed"}, Ended(at)
    PROVE  job'.kind = job.kind /\ job'.at = at /\ job' \in Jobs
<1> QED
    BY DEF MarketTypeOK, Ended, Jobs

LEMMA ThroughType ==
    ASSUME MarketTypeOK, Through
    PROVE  /\ job'.kind = job.kind /\ job' \in Jobs
           /\ IF left' = {} THEN job'.at = "done" ELSE job' = job
<1> QED
    BY EndedType DEF MarketTypeOK, Through, Jobs

\* The cache takes every rate a cycle goes on with (run_one).
LEMMA WithRatesIs ==
    ASSUME MarketTypeOK, NEW found \in [Ids -> 0..round], WithRates(found)
    PROVE  /\ rates' = found /\ rateCache' \in [Ids -> 0..round]
           /\ \A i \in Ids : rateCache'[i] \in {found[i], rateCache[i]}
<1> QED
    BY DEF MarketTypeOK, WithRates

LEMMA MarketTypeNext == MarketTypeOK /\ [MarketNext]_marketVars => MarketTypeOK'
<1> SUFFICES ASSUME MarketTypeOK, [MarketNext]_marketVars PROVE MarketTypeOK'
    OBVIOUS
<1>a. /\ Len(Ladder) \in Nat \ {0} /\ Retries \in Nat /\ MaxRound \in Nat
      /\ RetriesOf \in 0..Retries
    BY LadderType, MarketAssumption DEF RetriesOf
<1>b. Chunk \subseteq left /\ left \subseteq tracked
    BY ChunkIs DEF MarketTypeOK
<1>c. "ok" \in Replies /\ "too_large" \in Replies
    BY DEF Replies
<1>1. ASSUME NEW universe \in Universes, StartRound(universe) PROVE MarketTypeOK'
    BY <1>1, <1>a, MarketAssumption DEF StartRound, Begin, MarketTypeOK
<1>2. CASE StartCandles \/ StartMetas \/ StartTrade
    BY <1>2, <1>a DEF StartCandles, StartMetas, StartTrade, Begin, MarketTypeOK
<1>3. ASSUME NEW r \in Replies, Retry(r) PROVE MarketTypeOK'
    <2>1. attempt' \in 0..Retries
        BY <1>3, <1>a DEF Retry, Retried, MarketTypeOK
    <2> QED
        BY <1>3, <2>1, SentType DEF Retry, MarketTypeOK
<1>4. ASSUME NEW r \in Replies, RatesFailed(r) PROVE MarketTypeOK'
    <2>1. Fallback \in [Ids -> 0..round]
        BY DEF Fallback, MarketTypeOK
    <2>2. rates' \in [Ids -> 0..round] /\ rateCache' \in [Ids -> 0..round]
        BY <1>4, <2>1 DEF RatesFailed, WithRates, MarketTypeOK
    <2> QED
        BY <1>4, <1>a, <2>2, SentType, EndedType DEF RatesFailed, MarketTypeOK, Jobs
<1>5. ASSUME NEW r \in Replies, CandlesFailed(r) PROVE MarketTypeOK'
    BY <1>5, <1>a, <1>b, SentType, ThroughType DEF CandlesFailed, MarketTypeOK, Jobs
<1>6. ASSUME NEW r \in Replies, MetasFailed(r) PROVE MarketTypeOK'
    BY <1>6, <1>a, SentType, EndedType DEF MetasFailed, MarketTypeOK, Jobs
<1>7. ASSUME NEW r \in Replies, TradeEnds(r) PROVE MarketTypeOK'
    <2> DEFINE at == IF r = "ok" THEN "done" ELSE "failed"
    <2>1. at \in {"done", "failed"} /\ Ended(at)
        BY <1>7 DEF TradeEnds
    <2> HIDE DEF at
    <2>2. job' \in Jobs
        BY <2>1, EndedType
    <2>3. sent' \in Nat /\ acted' \in Nat
          /\ UNCHANGED <<round, tracked, limit, left, rung, attempt, got, silent, skipped,
                         rates, rateCache>>
        BY <1>7, SentType DEF TradeEnds
    <2> QED
        BY <2>2, <2>3 DEF MarketTypeOK, Jobs
<1>8. ASSUME NEW data \in SUBSET Chunk, RatesAnswered(data) PROVE MarketTypeOK'
    <2>1. round \in 0..round
        BY <1>a DEF MarketTypeOK
    <2>2. rates' \in [Ids -> 0..round] /\ rateCache' \in [Ids -> 0..round]
        <3> DEFINE found == [i \in Ids |-> IF i \in got' THEN round ELSE 0]
        <3>1. found \in [Ids -> 0..round]
            BY <2>1, <1>a DEF MarketTypeOK
        <3>2. WithRates(found) \/ UNCHANGED <<rates, rateCache>>
            BY <1>8 DEF RatesAnswered
        <3> HIDE DEF found
        <3> QED
            BY <3>1, <3>2, WithRatesIs DEF MarketTypeOK
    <2> QED
        <3>1. job' \in Jobs
            BY <1>8, EndedType DEF RatesAnswered, MarketTypeOK, Jobs
        <3> QED
            BY <1>8, <1>a, <2>2, <3>1, AnsweredIs DEF RatesAnswered, MarketTypeOK, Jobs
<1>9. ASSUME NEW data \in SUBSET Chunk, CandlesAnswered(data) \/ MetasAnswered(data)
      PROVE  MarketTypeOK'
    BY <1>9, <1>a, AnsweredIs, ThroughType DEF CandlesAnswered, MetasAnswered, MarketTypeOK, Jobs
<1>10. CASE MetasTooLarge
    BY <1>10, <1>a, <1>b, <1>c, SentType, ThroughType
       DEF MetasTooLarge, StepDown, MarketTypeOK, Jobs
<1>11. CASE UNCHANGED marketVars
    BY <1>11 DEF marketVars, jobVars, MarketTypeOK
<1> QED
    BY <1>1, <1>2, <1>3, <1>4, <1>5, <1>6, <1>7, <1>8, <1>9, <1>10, <1>11 DEF MarketNext

\* The variables of the market fetcher and of its page keep their types.
THEOREM MarketTypeCorrect == MarketSpec => []MarketTypeOK
<1> QED
    BY MarketTypeInit, MarketTypeNext, PTL DEF MarketSpec

-----------------------------------------------------------------------------
(* Rates of one cycle are of one fetch: what is in the cache while rates are  *)
(* fetched is older than this cycle, so a fallback has nothing of it.         *)

RatesInv ==
    /\ RatesNeverMix
    /\ job.kind = "rates" /\ job.at = "running" =>
          round > 0 /\ \A i \in Ids : rates[i] = 0 /\ rateCache[i] < round

\* Every step keeps the rates of a round of that round, and a running round starts from
\* none.
LEMMA RatesNext == MarketTypeOK /\ RatesInv /\ [MarketNext]_marketVars => RatesInv'
<1> SUFFICES ASSUME MarketTypeOK, RatesInv, [MarketNext]_marketVars PROVE RatesInv'
    OBVIOUS
<1>n. round \in Nat /\ MaxRound \in Nat
    BY MarketAssumption DEF MarketTypeOK
<1>q. ASSUME UNCHANGED <<round, rates, rateCache>>, job'.kind # "rates" \/ job' = job
      PROVE  RatesInv'
    BY <1>q DEF RatesInv, RatesNeverMix
<1>1. ASSUME NEW universe \in Universes, StartRound(universe) PROVE RatesInv'
    <2>1. round' = round + 1 /\ rates' = [i \in Ids |-> 0] /\ rateCache' = rateCache
        BY <1>1 DEF StartRound
    <2>2. \A i \in Ids : rateCache[i] \in 0..round
        BY DEF MarketTypeOK
    <2> QED
        BY <1>n, <2>1, <2>2 DEF RatesInv, RatesNeverMix
<1>2. CASE StartCandles \/ StartMetas \/ StartTrade
    BY <1>2, <1>q DEF StartCandles, StartMetas, StartTrade, Begin
<1>3. ASSUME NEW r \in Replies, Retry(r) PROVE RatesInv'
    BY <1>3, <1>q, SentType DEF Retry
<1>4. ASSUME NEW r \in Replies, RatesFailed(r) PROVE RatesInv'
    <2>1. Fallback \in [Ids -> 0..round] /\ \A i \in Ids : Fallback[i] \in {0, rateCache[i]}
        BY DEF Fallback, MarketTypeOK
    <2>2. /\ job.kind = "rates" /\ job.at = "running" /\ WithRates(Fallback)
          /\ Ended("failed") /\ round' = round
        BY <1>4 DEF RatesFailed, Sent
    <2>3. \A i \in Ids : rates'[i] # round
        <3>1. rates' = Fallback
            BY <2>1, <2>2, WithRatesIs
        <3>2. round > 0 /\ \A i \in Ids : rateCache[i] < round
            BY <2>2 DEF RatesInv
        <3>3. \A i \in Ids : rateCache[i] \in 0..round
            BY DEF MarketTypeOK
        <3> QED
            BY <1>n, <2>1, <3>1, <3>2, <3>3
    <2>4. job'.at # "running"
        BY <2>2, EndedType
    <2> QED
        BY <2>2, <2>3, <2>4 DEF RatesInv, RatesNeverMix
<1>5. ASSUME NEW r \in Replies, CandlesFailed(r) PROVE RatesInv'
    BY <1>5, <1>q, SentType, ThroughType DEF CandlesFailed
<1>6. ASSUME NEW r \in Replies, MetasFailed(r) PROVE RatesInv'
    BY <1>6, <1>q, SentType, EndedType DEF MetasFailed
<1>7. ASSUME NEW r \in Replies, TradeEnds(r) PROVE RatesInv'
    <2>1. job'.kind = job.kind
        BY <1>7 DEF TradeEnds, Ended, MarketTypeOK
    <2> QED
        BY <1>7, <1>q, <2>1, SentType DEF TradeEnds
<1>8. ASSUME NEW data \in SUBSET Chunk, RatesAnswered(data) PROVE RatesInv'
    <2> DEFINE found == [i \in Ids |-> IF i \in got' THEN round ELSE 0]
    <2>1. found \in [Ids -> 0..round] /\ \A i \in Ids : found[i] \in {0, round}
        BY <1>n
    <2>2. \/ WithRates(found) /\ Ended("done")
          \/ UNCHANGED <<job, rates, rateCache>>
        BY <1>8 DEF RatesAnswered
    <2>3. round' = round
        BY <1>8, AnsweredIs DEF RatesAnswered
    <2> HIDE DEF found
    <2>4. CASE WithRates(found) /\ Ended("done")
        <3>1. rates' = found /\ job'.at # "running"
            BY <2>1, <2>4, WithRatesIs, EndedType
        <3> QED
            BY <2>1, <2>3, <3>1 DEF RatesInv, RatesNeverMix
    <2> QED
        BY <1>q, <2>2, <2>3, <2>4
<1>9. ASSUME NEW data \in SUBSET Chunk, CandlesAnswered(data) \/ MetasAnswered(data)
      PROVE  RatesInv'
    BY <1>9, <1>q, AnsweredIs, ThroughType DEF CandlesAnswered, MetasAnswered
<1>10. CASE MetasTooLarge
    BY <1>10, <1>q, SentType, ThroughType DEF MetasTooLarge, Replies
<1>11. CASE UNCHANGED marketVars
    BY <1>11, <1>q DEF marketVars, jobVars
<1> QED
    BY <1>1, <1>2, <1>3, <1>4, <1>5, <1>6, <1>7, <1>8, <1>9, <1>10, <1>11 DEF MarketNext

-----------------------------------------------------------------------------
(* No instrument is forgotten. The smallest batch is refused only by a broker *)
(* that takes less than it.                                                   *)

\* No step drops an instrument that was neither asked for nor given up.
LEMMA ForgottenNext == MarketTypeOK /\ NoneForgotten /\ [MarketNext]_marketVars => NoneForgotten'
<1> SUFFICES ASSUME MarketTypeOK, NoneForgotten, [MarketNext]_marketVars
             PROVE  NoneForgotten'
    OBVIOUS
<1>b. Chunk \subseteq left
    BY ChunkIs
<1>q. ASSUME UNCHANGED <<job, tracked, left, got, silent, skipped, limit>> PROVE NoneForgotten'
    BY <1>q DEF NoneForgotten
<1>k. ASSUME job'.kind \notin {"rates", "candles", "metas"} PROVE NoneForgotten'
    BY <1>k DEF NoneForgotten
<1>1. ASSUME NEW universe \in Universes, StartRound(universe) PROVE NoneForgotten'
    BY <1>1 DEF StartRound, Begin, NoneForgotten
<1>2. CASE StartCandles \/ StartMetas \/ StartTrade
    BY <1>2 DEF StartCandles, StartMetas, StartTrade, Begin, NoneForgotten
<1>3. ASSUME NEW r \in Replies, Retry(r) PROVE NoneForgotten'
    BY <1>3, <1>q, SentType DEF Retry
<1>4. ASSUME NEW r \in Replies, RatesFailed(r) PROVE NoneForgotten'
    BY <1>4, EndedType DEF RatesFailed, NoneForgotten
<1>5. ASSUME NEW r \in Replies, CandlesFailed(r) PROVE NoneForgotten'
    <2>1. job'.kind = "candles" /\ tracked' = tracked
        BY <1>5, SentType, ThroughType DEF CandlesFailed
    <2>2. got' \cup silent' \cup skipped' \cup left' = got \cup silent \cup skipped \cup left
        BY <1>5, <1>b DEF CandlesFailed
    <2> QED
        BY <1>5, <2>1, <2>2 DEF CandlesFailed, NoneForgotten
<1>6. ASSUME NEW r \in Replies, MetasFailed(r) PROVE NoneForgotten'
    BY <1>6, SentType, EndedType DEF MetasFailed, NoneForgotten
<1>7. ASSUME NEW r \in Replies, TradeEnds(r) PROVE NoneForgotten'
    <2>1. job'.kind = job.kind
        BY <1>7 DEF TradeEnds, Ended, MarketTypeOK
    <2> QED
        BY <1>7, <1>k, <2>1 DEF TradeEnds
<1>8. ASSUME NEW data \in SUBSET Chunk, RatesAnswered(data) PROVE NoneForgotten'
    <2>1. job'.kind = "rates" /\ job.kind = "rates"
        BY <1>8, EndedType DEF RatesAnswered
    <2> QED
        BY <1>8, <2>1, AnsweredIs DEF RatesAnswered, NoneForgotten
<1>9. ASSUME NEW data \in SUBSET Chunk, CandlesAnswered(data) \/ MetasAnswered(data)
      PROVE  NoneForgotten'
    <2>1. job'.kind = job.kind
        BY <1>9, ThroughType DEF CandlesAnswered, MetasAnswered
    <2> QED
        BY <1>9, <2>1, AnsweredIs DEF CandlesAnswered, MetasAnswered, NoneForgotten
<1>10. CASE MetasTooLarge
    <2>1. /\ job.at = "running" /\ job.kind = "metas" /\ UNCHANGED <<tracked, limit, got, silent>>
          /\ Cardinality(Chunk) > limit
        BY <1>10 DEF MetasTooLarge, Sent, MayReply
    <2>2. got' \cup silent' \cup skipped' \cup left' = got \cup silent \cup skipped \cup left
        BY <1>10, <1>b, <2>1 DEF MetasTooLarge, StepDown
    <2>3. job'.kind = job.kind
        BY <1>10, ThroughType DEF MetasTooLarge
    <2>4. limit >= Smallest => skipped' = skipped
        <3> SUFFICES ASSUME limit >= Smallest, rung = Len(Ladder) PROVE FALSE
            BY <1>10 DEF MetasTooLarge, StepDown
        <3>1. Cardinality(Chunk) <= Smallest /\ Smallest \in Nat /\ limit \in Nat
            BY <2>1, ChunkIs, LadderType DEF Smallest, MarketTypeOK
        <3>2. Cardinality(Chunk) \in Nat
            BY ChunkIs, FS_Subset, FS_CardinalityType
        <3> QED
            BY <2>1, <3>1, <3>2
    <2> QED
        BY <2>1, <2>2, <2>3, <2>4 DEF NoneForgotten
<1>11. CASE UNCHANGED marketVars
    BY <1>11, <1>q DEF marketVars, jobVars
<1> QED
    BY <1>1, <1>2, <1>3, <1>4, <1>5, <1>6, <1>7, <1>8, <1>9, <1>10, <1>11 DEF MarketNext

-----------------------------------------------------------------------------
(* Orders are sent once: nothing under /trading/execution/ is retried.        *)

OrderInv ==
    job.kind = "trade" =>
        /\ sent <= 1 /\ acted <= 1
        /\ job.at = "running" => sent = 0 /\ acted = 0

\* Every step keeps a trade at one request sent and one acted on.
LEMMA OrderNext == MarketTypeOK /\ OrderInv /\ [MarketNext]_marketVars => OrderInv'
<1> SUFFICES ASSUME MarketTypeOK, OrderInv, [MarketNext]_marketVars PROVE OrderInv'
    OBVIOUS
<1>k. ASSUME job'.kind # "trade" PROVE OrderInv'
    BY <1>k DEF OrderInv
<1>1. ASSUME NEW universe \in Universes, StartRound(universe) PROVE OrderInv'
    BY <1>1, <1>k DEF StartRound, Begin
<1>2. CASE StartCandles \/ StartMetas \/ StartTrade
    BY <1>2 DEF StartCandles, StartMetas, StartTrade, Begin, OrderInv
<1>3. ASSUME NEW r \in Replies, Retry(r) PROVE OrderInv'
    <2>1. job.kind # "trade" /\ job' = job
        BY <1>3 DEF Retry, Retried, RetriesOf, MarketTypeOK
    <2> QED
        BY <1>k, <2>1
<1>4. ASSUME NEW r \in Replies, RatesFailed(r) PROVE OrderInv'
    BY <1>4, <1>k, EndedType DEF RatesFailed
<1>5. ASSUME NEW r \in Replies, CandlesFailed(r) PROVE OrderInv'
    BY <1>5, <1>k, ThroughType DEF CandlesFailed
<1>6. ASSUME NEW r \in Replies, MetasFailed(r) PROVE OrderInv'
    BY <1>6, <1>k, EndedType DEF MetasFailed
<1>7. ASSUME NEW r \in Replies, TradeEnds(r) PROVE OrderInv'
    <2> DEFINE at == IF r = "ok" THEN "done" ELSE "failed"
    <2>1. at \in {"done", "failed"} /\ Ended(at)
        BY <1>7 DEF TradeEnds
    <2> HIDE DEF at
    <2>2. job'.at # "running"
        BY <2>1, EndedType
    <2>3. sent = 0 /\ acted = 0
        BY <1>7 DEF TradeEnds, Sent, OrderInv
    <2>4. sent' = 1 /\ acted' \in {0, 1}
        BY <1>7, <2>3, SentType DEF TradeEnds
    <2> QED
        BY <2>2, <2>4 DEF OrderInv
<1>8. ASSUME NEW data \in SUBSET Chunk, RatesAnswered(data) PROVE OrderInv'
    BY <1>8, <1>k, EndedType DEF RatesAnswered
<1>9. ASSUME NEW data \in SUBSET Chunk, CandlesAnswered(data) \/ MetasAnswered(data)
      PROVE  OrderInv'
    BY <1>9, <1>k, ThroughType DEF CandlesAnswered, MetasAnswered
<1>10. CASE MetasTooLarge
    BY <1>10, <1>k, ThroughType DEF MetasTooLarge
<1>11. CASE UNCHANGED marketVars
    BY <1>11 DEF marketVars, jobVars, OrderInv
<1> QED
    BY <1>1, <1>2, <1>3, <1>4, <1>5, <1>6, <1>7, <1>8, <1>9, <1>10, <1>11 DEF MarketNext

-----------------------------------------------------------------------------
(* Every request that is not a retry answers or gives up an instrument, or    *)
(* goes down the ladder: the work done bounds the requests sent.              *)

Work == Cardinality(Ids) - Cardinality(left) + rung - 1

\* Requests for so much work, each with its retries.
RequestBudget(work) == (Retries + 1) * work

BoundInv ==
    /\ RequestsBounded
    /\ (round > 0 \/ job.kind # "none") => tracked # {}
    /\ job.at = "running" /\ job.kind # "trade" =>
          left # {} /\ sent <= RequestBudget(Work) + attempt

\* One more unit of work allows one more request and its retries.
LEMMA BudgetIs ==
    ASSUME NEW w \in Nat
    PROVE  RequestBudget(w) \in Nat /\ RequestBudget(w + 1) = RequestBudget(w) + Retries + 1
<1>1. Retries \in Nat
    BY MarketAssumption
<1> QED
    BY <1>1 DEF RequestBudget

\* The request budget is monotone in the work.
LEMMA BudgetGrows ==
    ASSUME NEW v \in Nat, NEW w \in Nat, v <= w
    PROVE  RequestBudget(v) <= RequestBudget(w)
<1>1. Retries \in Nat
    BY MarketAssumption
<1>2. PICK d \in Nat : w = v + d
    <2>1. w - v \in Nat /\ w = v + (w - v)
        OBVIOUS
    <2> QED
        BY <2>1
<1>3. (Retries + 1) * w = (Retries + 1) * v + (Retries + 1) * d
    BY <1>1, <1>2
<1>4. (Retries + 1) * v \in Nat /\ (Retries + 1) * d \in Nat
    BY <1>1
<1> QED
    BY <1>3, <1>4 DEF RequestBudget

\* A rung and the instruments already done leave a number of units of work.
LEMMA WorkIsNat ==
    ASSUME NEW S \in SUBSET Ids, NEW k \in 1..Len(Ladder)
    PROVE  Cardinality(Ids) - Cardinality(S) + k - 1 \in Nat
<1>1. /\ Cardinality(Ids) \in Nat /\ Cardinality(S) \in Nat
      /\ Cardinality(S) <= Cardinality(Ids)
    BY MarketAssumption, FS_Subset, FS_CardinalityType
<1> QED
    BY <1>1, LadderType

\* The work left is a number, and is bounded before anything is sent.
LEMMA WorkIs ==
    ASSUME MarketTypeOK
    PROVE  /\ Cardinality(Ids) \in Nat /\ Cardinality(left) \in Nat
           /\ Cardinality(left) <= Cardinality(Ids)
           /\ Rungs \in Nat /\ Work \in Nat
           /\ left # {} => Work + 1 <= Cardinality(Ids) + Rungs
           /\ tracked # {} => Cardinality(Ids) > 0
<1>1. IsFiniteSet(Ids) /\ left \in SUBSET Ids /\ tracked \in SUBSET Ids
    BY MarketAssumption DEF MarketTypeOK
<1>2. /\ Cardinality(Ids) \in Nat /\ Cardinality(left) \in Nat
      /\ Cardinality(left) <= Cardinality(Ids) /\ IsFiniteSet(left)
    BY <1>1, FS_Subset, FS_CardinalityType
<1>3. rung \in Nat \ {0} /\ Len(Ladder) \in Nat \ {0} /\ rung <= Len(Ladder)
    BY LadderType DEF MarketTypeOK
<1>4. left # {} => Cardinality(left) # 0
    BY <1>2, FS_EmptySet
<1>5. tracked # {} => Cardinality(Ids) # 0
    BY <1>1, FS_EmptySet
<1>6. Rungs \in Nat /\ Rungs + 1 = Len(Ladder)
    BY <1>3 DEF Rungs
<1>7. Work \in Nat /\ Work + 1 = Cardinality(Ids) - Cardinality(left) + rung
    BY <1>2, <1>3 DEF Work
<1>8. left # {} => Work + 1 <= Cardinality(Ids) + Rungs
    BY <1>2, <1>3, <1>4, <1>6, <1>7
<1> QED
    BY <1>2, <1>5, <1>6, <1>7, <1>8

\* A request that is over leaves less to do, or fewer rungs.
LEMMA WorkGrows ==
    ASSUME MarketTypeOK, MarketTypeOK', left # {},
           (left' = left \ Chunk /\ rung' = rung) \/ (left' = left /\ rung' = rung + 1)
    PROVE  Work \in Nat /\ Work' \in Nat /\ Work + 1 <= Work'
<1>0. Work \in Nat
    BY WorkIs
<1>1. /\ Cardinality(Ids) \in Nat /\ Cardinality(left) \in Nat
      /\ Cardinality(left) <= Cardinality(Ids) /\ rung \in Nat \ {0}
    BY WorkIs, LadderType DEF MarketTypeOK
<1>2. CASE left' = left \ Chunk /\ rung' = rung
    <2>1. IsFiniteSet(left) /\ left' \in SUBSET left /\ left' # left
        BY <1>2, ChunkIs
    <2>2. /\ Cardinality(left') <= Cardinality(left) /\ Cardinality(left) # Cardinality(left')
          /\ Cardinality(left') \in Nat
        BY <2>1, FS_Subset, FS_CardinalityType
    <2>3. Work' = Cardinality(Ids) - Cardinality(left') + rung - 1
        BY <1>2 DEF Work
    <2>4. Cardinality(Ids) - Cardinality(left') >= Cardinality(Ids) - Cardinality(left) + 1
        BY <1>1, <2>2
    <2> QED
        BY <1>0, <1>1, <2>2, <2>3, <2>4 DEF Work
<1>3. CASE left' = left /\ rung' = rung + 1
    <2>1. Work' = Cardinality(Ids) - Cardinality(left) + (rung + 1) - 1
        BY <1>3 DEF Work
    <2> QED
        BY <1>0, <1>1, <2>1 DEF Work
<1> QED
    BY <1>2, <1>3

\* One more request stays within the budget of one more piece of work, and of the job.
LEMMA OneMoreSent ==
    ASSUME MarketTypeOK, left # {}, sent <= RequestBudget(Work) + attempt, sent' = sent + 1
    PROVE  sent' <= RequestBudget(Work + 1) /\ RequestsBounded'
<1> DEFINE all == Cardinality(Ids) + Rungs
<1>0. /\ Work \in Nat /\ Cardinality(Ids) \in Nat /\ Rungs \in Nat
      /\ Work + 1 <= Cardinality(Ids) + Rungs
    BY WorkIs
<1>1. /\ Work \in Nat /\ Work + 1 \in Nat /\ all \in Nat /\ Work + 1 <= all
      /\ sent \in Nat /\ attempt \in 0..Retries /\ Retries \in Nat
    BY <1>0, MarketAssumption DEF MarketTypeOK
<1>2. /\ RequestBudget(Work) \in Nat /\ RequestBudget(Work + 1) \in Nat /\ RequestBudget(all) \in Nat
      /\ RequestBudget(Work + 1) = RequestBudget(Work) + Retries + 1
    BY <1>1, BudgetIs
<1>3. sent' <= RequestBudget(Work + 1)
    BY <1>1, <1>2
<1>4. RequestBudget(Work + 1) <= RequestBudget(all)
    <2> HIDE DEF all
    <2> QED BY <1>1, BudgetGrows
<1>5. sent' <= RequestBudget(all)
    <2> HIDE DEF all
    <2> QED BY <1>1, <1>2, <1>3, <1>4
<1> QED
    BY <1>3, <1>5 DEF RequestsBounded, RequestBudget, Rungs

\* Answered, given up or one rung down: the next request has a budget of its own.
LEMMA WorkedOff ==
    ASSUME MarketTypeOK, MarketTypeOK', BoundInv,
           job.at = "running", job.kind # "trade", sent' = sent + 1, attempt' = 0,
           left' = {} \/ job' = job, left' = {} => job'.at # "running",
           job'.kind = job.kind, UNCHANGED <<round, tracked>>,
           (left' = left \ Chunk /\ rung' = rung) \/ (left' = left /\ rung' = rung + 1)
    PROVE  BoundInv'
<1>1. left # {} /\ sent <= RequestBudget(Work) + attempt
    BY DEF BoundInv
<1>2. sent' <= RequestBudget(Work + 1) /\ RequestsBounded'
    BY <1>1, OneMoreSent
<1>3. Work \in Nat /\ Work' \in Nat /\ Work + 1 <= Work'
    BY <1>1, WorkGrows
<1>4. /\ RequestBudget(Work + 1) <= RequestBudget(Work')
      /\ RequestBudget(Work + 1) \in Nat /\ RequestBudget(Work') \in Nat
    BY <1>3, BudgetGrows, BudgetIs
<1>5. sent' \in Nat
    BY DEF MarketTypeOK
<1>6. sent' <= RequestBudget(Work') + attempt'
    BY <1>2, <1>4, <1>5
<1>7. RequestBudget(Work)' = RequestBudget(Work')
    BY DEF RequestBudget
<1> QED
    BY <1>2, <1>6, <1>7 DEF BoundInv

\* A request and the work it finishes keep the requests within their budget.
LEMMA BoundNext ==
    MarketTypeOK /\ OrderInv' /\ BoundInv /\ [MarketNext]_marketVars => BoundInv'
<1> SUFFICES ASSUME MarketTypeOK, OrderInv', BoundInv, [MarketNext]_marketVars
             PROVE  BoundInv'
    OBVIOUS
<1>t. MarketTypeOK'
    BY MarketTypeNext
<1>w. RequestBudget(Cardinality(Ids) + Rungs) \in Nat /\ Work' \in Nat /\ RequestBudget(Work') \in Nat
    <2>1. Cardinality(Ids) \in Nat /\ Rungs \in Nat
        BY WorkIs
    <2>2. Work' \in Nat
        <3>1. left' \in SUBSET Ids /\ rung' \in 1..Len(Ladder)
            BY <1>t, MarketAssumption DEF MarketTypeOK
        <3> QED
            BY <3>1, WorkIsNat DEF Work
    <2> QED
        BY <2>1, <2>2, BudgetIs
<1>d. /\ RequestsBounded' <=> sent' <= RequestBudget(Cardinality(Ids) + Rungs)
      /\ RequestBudget(Work)' = RequestBudget(Work')
    BY DEF RequestsBounded, RequestBudget, Rungs
<1>0. sent' = 0 => RequestsBounded'
    BY <1>w, <1>d
<1>00. attempt' = 0 /\ sent' = 0 => sent' <= RequestBudget(Work') + attempt'
    BY <1>w
<1>e. ASSUME job.at = "running", job.kind # "trade", sent' = sent + 1, job'.at # "running",
             job'.kind = job.kind, UNCHANGED <<round, tracked>>
      PROVE  BoundInv'
    <2>1. RequestsBounded'
        BY <1>e, OneMoreSent DEF BoundInv
    <2> QED
        BY <1>e, <2>1 DEF BoundInv
<1>1. ASSUME NEW universe \in Universes, StartRound(universe) PROVE BoundInv'
    <2>1. universe # {}
        BY MarketAssumption
    <2> QED
        BY <1>0, <1>00, <1>d, <1>1, <2>1 DEF StartRound, Begin, BoundInv
<1>2. CASE StartCandles \/ StartMetas \/ StartTrade
    <2>1. job'.kind # "trade" => tracked # {} /\ left' = tracked
        BY <1>2 DEF StartCandles, StartMetas, StartTrade, Begin
    <2>2. UNCHANGED <<round, tracked>> /\ (StartTrade => round > 0)
        BY <1>2 DEF StartCandles, StartMetas, StartTrade
    <2>3. attempt' = 0 /\ sent' = 0
        BY <1>2 DEF StartCandles, StartMetas, StartTrade, Begin
    <2>4. tracked # {}
        BY <1>2, <2>2 DEF StartCandles, StartMetas, BoundInv
    <2> QED
        BY <1>0, <1>00, <1>d, <2>1, <2>2, <2>3, <2>4 DEF BoundInv
<1>3. ASSUME NEW r \in Replies, Retry(r) PROVE BoundInv'
    <2>1. job.kind # "trade" /\ job.at = "running" /\ attempt' = attempt + 1
          /\ UNCHANGED <<job, left, rung, round, tracked>>
        BY <1>3 DEF Retry, Retried, RetriesOf, Sent, MarketTypeOK
    <2>2. sent' = sent + 1
        BY <1>3, SentType DEF Retry
    <2>3. Work' = Work
        BY <2>1 DEF Work
    <2>4. left # {} /\ sent <= RequestBudget(Work) + attempt
        BY <2>1 DEF BoundInv
    <2>5. sent \in Nat /\ attempt \in Nat /\ RequestBudget(Work) \in Nat
        BY <1>w, <2>3, MarketAssumption DEF MarketTypeOK
    <2>6. sent' <= RequestBudget(Work') + attempt'
        BY <2>1, <2>2, <2>3, <2>4, <2>5
    <2>7. RequestsBounded'
        BY <2>2, <2>4, OneMoreSent
    <2> QED
        BY <1>d, <2>1, <2>4, <2>6, <2>7 DEF BoundInv
<1>4. ASSUME NEW r \in Replies, RatesFailed(r) PROVE BoundInv'
    BY <1>4, <1>e, SentType, EndedType DEF RatesFailed, Sent
<1>5. ASSUME NEW r \in Replies, CandlesFailed(r) PROVE BoundInv'
    <2>1. /\ job.at = "running" /\ job.kind = "candles" /\ sent' = sent + 1
          /\ UNCHANGED <<round, tracked>> /\ attempt' = 0 /\ left' = left \ Chunk /\ rung' = rung
        BY <1>5, SentType DEF CandlesFailed, Sent
    <2>2. /\ left' = {} => job'.at # "running"
          /\ left' # {} => job' = job
          /\ job'.kind = job.kind
        BY <1>5, ThroughType DEF CandlesFailed
    <2> QED
        BY <1>t, <2>1, <2>2, WorkedOff
<1>6. ASSUME NEW r \in Replies, MetasFailed(r) PROVE BoundInv'
    BY <1>6, <1>e, SentType, EndedType DEF MetasFailed, Sent
<1>7. ASSUME NEW r \in Replies, TradeEnds(r) PROVE BoundInv'
    <2>1. job'.kind = "trade" /\ job.kind = "trade" /\ UNCHANGED <<round, tracked>>
        BY <1>7, SentType DEF TradeEnds, Ended, MarketTypeOK
    <2>2. sent' <= 1 /\ tracked # {}
        BY <2>1 DEF OrderInv, BoundInv
    <2>3. Cardinality(Ids) + Rungs \in Nat /\ 0 + 1 <= Cardinality(Ids) + Rungs
        BY <2>2, WorkIs
    <2>4. RequestBudget(0 + 1) <= RequestBudget(Cardinality(Ids) + Rungs)
        BY <2>3, BudgetGrows
    <2>5. 1 <= RequestBudget(0 + 1) /\ RequestBudget(0 + 1) \in Nat
        BY MarketAssumption DEF RequestBudget
    <2>6. sent' \in Nat
        BY <1>t DEF MarketTypeOK
    <2>7. RequestsBounded'
        BY <1>w, <1>d, <2>2, <2>4, <2>5, <2>6
    <2> QED
        BY <2>1, <2>2, <2>7 DEF BoundInv
<1>8. ASSUME NEW data \in SUBSET Chunk, RatesAnswered(data) PROVE BoundInv'
    <2>1. /\ job.at = "running" /\ job.kind = "rates" /\ sent' = sent + 1
          /\ UNCHANGED <<round, tracked>> /\ attempt' = 0 /\ left' = left \ Chunk /\ rung' = rung
        BY <1>8, AnsweredIs DEF RatesAnswered
    <2>2. /\ left' = {} => job'.at # "running" /\ job'.kind = job.kind
          /\ left' # {} => job' = job
        BY <1>8, EndedType DEF RatesAnswered
    <2> QED
        BY <1>t, <2>1, <2>2, WorkedOff
<1>9. ASSUME NEW data \in SUBSET Chunk, CandlesAnswered(data) \/ MetasAnswered(data)
      PROVE  BoundInv'
    <2>1. /\ job.at = "running" /\ job.kind \in {"candles", "metas"} /\ sent' = sent + 1
          /\ UNCHANGED <<round, tracked>> /\ attempt' = 0 /\ left' = left \ Chunk /\ rung' = rung
        BY <1>9, AnsweredIs DEF CandlesAnswered, MetasAnswered
    <2>2. /\ left' = {} => job'.at # "running"
          /\ left' # {} => job' = job
          /\ job'.kind = job.kind
        BY <1>9, ThroughType DEF CandlesAnswered, MetasAnswered
    <2> QED
        BY <1>t, <2>1, <2>2, WorkedOff
<1>10. CASE MetasTooLarge
    <2>1. /\ job.at = "running" /\ job.kind = "metas" /\ sent' = sent + 1
          /\ UNCHANGED <<round, tracked>> /\ attempt' = 0
        BY <1>10, SentType DEF MetasTooLarge, Sent, Replies
    <2>2. (left' = left \ Chunk /\ rung' = rung) \/ (left' = left /\ rung' = rung + 1)
        BY <1>10 DEF MetasTooLarge, StepDown
    <2>3. /\ left' = {} => job'.at # "running"
          /\ left' # {} => job' = job
          /\ job'.kind = job.kind
        BY <1>10, ThroughType DEF MetasTooLarge
    <2> QED
        BY <1>t, <2>1, <2>2, <2>3, WorkedOff
<1>11. CASE UNCHANGED marketVars
    BY <1>11 DEF marketVars, jobVars, BoundInv, RequestsBounded, Work
<1> QED
    BY <1>1, <1>2, <1>3, <1>4, <1>5, <1>6, <1>7, <1>8, <1>9, <1>10, <1>11 DEF MarketNext

-----------------------------------------------------------------------------

LEMMA MarketInvInit == MarketInit => RatesInv /\ NoneForgotten /\ OrderInv /\ BoundInv
<1> SUFFICES ASSUME MarketInit PROVE RatesInv /\ NoneForgotten /\ OrderInv /\ BoundInv
    OBVIOUS
<1>1. job.kind = "none" /\ job.at = "done" /\ sent = 0 /\ round = 0 /\ \A i \in Ids : rates[i] = 0
    BY DEF MarketInit
<1>2. MarketTypeOK
    BY MarketTypeInit
<1>3. RequestsBounded
    <2>1. Cardinality(Ids) + Rungs \in Nat /\ Retries + 1 \in Nat
        BY <1>2, WorkIs, MarketAssumption
    <2> QED
        BY <1>1, <2>1 DEF RequestsBounded, Rungs
<1> QED
    BY <1>1, <1>3 DEF RatesInv, RatesNeverMix, NoneForgotten, OrderInv, BoundInv

\* Whatever the broker answers, a cycle has rates of one time, no instrument is lost
\* between two requests, a job ends after a bounded number of them and no order is sent
\* twice (EtoroClient._request, fetch_rates, fetch_instruments, _fetch_rates).
THEOREM MarketDataStaysSound == MarketSpec => []MarketDataSound
<1>1. MarketTypeOK /\ RatesInv /\ NoneForgotten /\ OrderInv /\ BoundInv => MarketDataSound
    BY DEF RatesInv, OrderInv, BoundInv, MarketDataSound, OrdersSentOnce
<1> QED
    BY <1>1, MarketTypeCorrect, MarketInvInit, RatesNext, ForgottenNext, OrderNext, BoundNext,
       PTL DEF MarketSpec

-----------------------------------------------------------------------------
(* The watchlist. *)

\* What the bot owns is tracked, or the refresh timer counts from the boot of the host
\* or from before it; what is left of the cycle after the refresh needs the former, and
\* a process that starts owns nothing yet.
WatchInv ==
    /\ uptime \in Nat /\ sinceRefresh \in Nat
    /\ ownedIds \subseteq watchlist \/ sinceRefresh >= uptime
    /\ step = "down" => ownedIds = {}
    /\ OwnedStaysTracked

\* Whatever build accepts, it keeps what is owned (UniverseManager.build, must_include).
LEMMA BuiltKeepsOwned ==
    ASSUME NEW owned \in SUBSET Listed, NEW stored \in SUBSET Listed,
           NEW u \in Buildable[owned][stored]
    PROVE  owned \subseteq u
<1>1. u \in {w \in SUBSET Listed : \E fit \in SUBSET Listed : Built(w, owned, stored, fit)}
    BY DEF Buildable
<1>2. PICK fit \in SUBSET Listed : Built(u, owned, stored, fit)
    BY <1>1
<1> QED
    BY <1>2 DEF Built

\* The smaller of two numbers is bounded by the second and monotone in the first.
LEMMA LeastOf ==
    ASSUME NEW a \in Nat, NEW b \in Nat
    PROVE  /\ Least(a, b) \in Nat /\ Least(a, b) <= b
           /\ \A c \in Nat : c <= a => Least(c, b) <= Least(a, b)
BY DEF Least

LEMMA WatchInitially == WatchInit => WatchInv
BY WatchlistAssumption DEF WatchInit, WatchInv, OwnedStaysTracked

\* Every step keeps the owned instruments listed on the watchlist, or the rebuild that
\* adds them due.
LEMMA WatchNextKeeps ==
    WatchInv /\ ownedIds \subseteq Listed /\ [WatchNext]_watchVars => WatchInv'
<1> SUFFICES ASSUME WatchInv, ownedIds \subseteq Listed, [WatchNext]_watchVars
             PROVE  WatchInv'
    OBVIOUS
<1>0. RefreshEvery \in Nat
    BY WatchlistAssumption
<1>1. CASE NewsScan
    BY <1>1 DEF NewsScan, WatchInv, OwnedStaysTracked
<1>2. CASE RefreshUniverse
    <2>1. CASE sinceRefresh < RefreshEvery
        BY <1>0, <1>2, <2>1 DEF RefreshUniverse, WatchInv, OwnedStaysTracked
    <2>2. CASE ~(sinceRefresh < RefreshEvery)
        <3>1. watchlist' \in Buildable[ownedIds][Stored(store')]
            BY <1>2, <2>2 DEF RefreshUniverse
        <3>2. Stored(store') \in SUBSET Listed
            BY DEF Stored
        <3>3. ownedIds \subseteq watchlist'
            BY <3>1, <3>2, BuiltKeepsOwned
        <3>4. UNCHANGED <<uptime, ownedIds>> /\ sinceRefresh' = 0 /\ step' = "reconcile"
            BY <1>2, <2>2 DEF RefreshUniverse
        <3> QED
            BY <3>3, <3>4 DEF WatchInv, OwnedStaysTracked
    <2> QED
        BY <2>1, <2>2
<1>3. CASE Reconcile
    <2>1. step' = "trade" /\ UNCHANGED <<uptime, watchlist>>
        BY <1>3 DEF Reconcile
    <2>2. CASE DisownAll
        BY <2>1, <2>2 DEF DisownAll, WatchInv, OwnedStaysTracked
    <2>3. CASE UpdateOwned
        BY <2>1, <2>3 DEF UpdateOwned, WatchInv, OwnedStaysTracked
    <2> QED
        BY <1>3, <2>2, <2>3 DEF Reconcile
<1>4. CASE Trade
    <2>1. step' = "scan" /\ UNCHANGED <<ownedIds, watchlist>>
          /\ uptime' = Least(uptime + 1, RefreshEvery)
          /\ sinceRefresh' = Least(sinceRefresh + 1, RefreshEvery)
        BY <1>4 DEF Trade
    <2>2. uptime' \in Nat /\ sinceRefresh' \in Nat
        BY <1>0, <2>1, LeastOf DEF WatchInv
    <2>3. sinceRefresh >= uptime => sinceRefresh' >= uptime'
        BY <1>0, <2>1 DEF WatchInv, Least
    <2> QED
        BY <2>1, <2>2, <2>3 DEF WatchInv, OwnedStaysTracked
<1>5. ASSUME NEW kept, EndsWith(kept), uptime' \in Nat
      PROVE  WatchInv'
    BY <1>5 DEF EndsWith, WatchInv, OwnedStaysTracked
<1>6. CASE BotStop
    BY <1>5, <1>6 DEF BotStop, WatchInv
<1>7. CASE TearStore
    BY <1>5, <1>7 DEF TearStore, WatchInv
<1>8. CASE BotStart
    <2>1. UNCHANGED <<uptime, ownedIds, sinceRefresh>> /\ step' = "scan"
        BY <1>8 DEF BotStart
    <2>2. ownedIds = {}
        BY <1>8 DEF BotStart, WatchInv
    <2> QED
        BY <2>1, <2>2 DEF WatchInv, OwnedStaysTracked
<1>9. CASE UNCHANGED watchVars
    BY <1>9 DEF watchVars, WatchInv, OwnedStaysTracked
<1> QED
    BY <1>1, <1>2, <1>3, <1>4, <1>6, <1>7, <1>8, <1>9 DEF WatchNext

\* What is owned is listed.
LEMMA OwnedAreListed == WatchSpec => [](held \subseteq Listed /\ ownedIds \subseteq Listed)
<1>1. WatchInit => held \subseteq Listed /\ ownedIds \subseteq Listed
    BY DEF WatchInit
<1>2. held \subseteq Listed /\ ownedIds \subseteq Listed /\ [WatchNext]_watchVars
      => (held \subseteq Listed /\ ownedIds \subseteq Listed)'
    BY DEF WatchNext, watchVars, NewsScan, RefreshUniverse, Reconcile, UpdateOwned,
           DisownAll, Trade, BotStop, TearStore, BotStart, EndsWith
<1> QED
    BY <1>1, <1>2, PTL DEF WatchSpec

\* The reset of the refresh timer and the owned ids that go past filter and cap keep what
\* the bot owns in sight of every cycle of a host that is up for an interval
\* (_update_owned_instrument_ids, refresh_universe, build).
THEOREM OwnedAreWatched == WatchSpec => []OwnedStaysTracked
<1>1. WatchInv => OwnedStaysTracked
    BY DEF WatchInv
<1> QED
    BY <1>1, WatchInitially, WatchNextKeeps, OwnedAreListed, PTL DEF WatchSpec

-----------------------------------------------------------------------------
(* The watchlist's type. *)

LEMMA AgedType == ASSUME NEW items \in Items PROVE Aged(items) \in Items
BY WatchlistAssumption DEF Items, Aged, Least

LEMMA PrunedType == ASSUME NEW items \in Items PROVE Pruned(items) \in Items
BY DEF Items, Pruned

LEMMA RecordedType ==
    ASSUME NEW items \in Items, NEW mentions PROVE Recorded(items, mentions) \in Items
BY WatchlistAssumption DEF Items, Recorded

LEMMA EmptyType == Empty \in Items
BY DEF Empty, Items

\* What a rebuild may install is listed.
LEMMA BuildableIsListed ==
    ASSUME NEW owned \in SUBSET Listed, NEW items
    PROVE  Buildable[owned][Stored(items)] \subseteq SUBSET Listed
BY DEF Buildable, Stored

LEMMA WatchTypeInit == WatchInit => WatchTypeOK
BY EmptyType, WatchlistAssumption DEF WatchInit, WatchTypeOK

LEMMA WatchTypeNext == WatchTypeOK /\ [WatchNext]_watchVars => WatchTypeOK'
<1> SUFFICES ASSUME WatchTypeOK, [WatchNext]_watchVars PROVE WatchTypeOK'
    OBVIOUS
<1>0. RefreshEvery \in Nat \ {0} /\ ScanEvery \in Nat \ {0}
    BY WatchlistAssumption
<1>s. ASSUME NEW scanned \in Items, NEW kept \in Items \cup {Torn}, ScanEnds(scanned, kept)
      PROVE  sinceScan' \in 0..ScanEvery /\ storeFile' \in Items \cup {Torn}
    BY <1>0, <1>s DEF ScanEnds
<1>1. CASE NewsScan
    <2>1. CASE UNCHANGED <<sinceScan, store, storeFile>>
        BY <1>1, <2>1 DEF NewsScan, WatchTypeOK
    <2>2. ASSUME NEW mentions \in SUBSET Listed, store' = Recorded(store, mentions),
                 ScanEnds(store', storeFile)
          PROVE  WatchTypeOK'
        <3>1. store' \in Items
            BY <2>2, RecordedType DEF WatchTypeOK
        <3>2. sinceScan' \in 0..ScanEvery /\ storeFile' \in Items \cup {Torn}
            BY <1>s, <2>2, <3>1 DEF WatchTypeOK
        <3> QED
            BY <1>1, <3>1, <3>2 DEF NewsScan, WatchTypeOK
    <2> QED
        BY <1>1, <2>1, <2>2 DEF NewsScan
<1>2. CASE RefreshUniverse
    <2>1. CASE UNCHANGED <<watchlist, sinceRefresh, store>>
        BY <1>2, <2>1 DEF RefreshUniverse, WatchTypeOK
    <2>2. CASE /\ store' = Pruned(store) /\ sinceRefresh' = 0
               /\ watchlist' \in Buildable[ownedIds][Stored(store')]
        <3>1. store' \in Items
            BY <2>2, PrunedType DEF WatchTypeOK
        <3>2. watchlist' \in SUBSET Listed
            BY <2>2, BuildableIsListed DEF WatchTypeOK
        <3> QED
            BY <1>0, <1>2, <2>2, <3>1, <3>2 DEF RefreshUniverse, WatchTypeOK
    <2> QED
        BY <1>2, <2>1, <2>2 DEF RefreshUniverse
<1>3. CASE Reconcile
    BY <1>3 DEF Reconcile, UpdateOwned, DisownAll, WatchTypeOK
<1>4. CASE Trade
    <2>1. store' \in Items
        BY <1>4, AgedType DEF Trade, WatchTypeOK
    <2>2. storeFile' \in Items \cup {Torn}
        BY <1>4, AgedType DEF Trade, WatchTypeOK
    <2>3. uptime' \in 0..RefreshEvery /\ sinceRefresh' \in 0..RefreshEvery
          /\ sinceScan' \in 0..ScanEvery
        BY <1>0, <1>4 DEF Trade, WatchTypeOK, Least
    <2> QED
        BY <1>4, <2>1, <2>2, <2>3 DEF Trade, WatchTypeOK
<1>5. ASSUME NEW kept \in Items \cup {Torn}, EndsWith(kept), uptime' \in 0..RefreshEvery
      PROVE  WatchTypeOK'
    BY <1>0, <1>5, EmptyType DEF EndsWith, WatchTypeOK
<1>6. CASE BotStop
    <2>1. uptime' \in 0..RefreshEvery
        BY <1>0, <1>6 DEF BotStop, WatchTypeOK
    <2> QED
        BY <1>5, <1>6, <2>1 DEF BotStop, WatchTypeOK
<1>7. CASE TearStore
    BY <1>5, <1>7 DEF TearStore, WatchTypeOK
<1>8. CASE BotStart
    <2>1. PICK mentions \in SUBSET Listed :
            /\ ScanEnds(Recorded(Loaded(storeFile), mentions), storeFile)
            /\ store' = Pruned(Recorded(Loaded(storeFile), mentions))
        BY <1>8 DEF BotStart
    <2>2. Loaded(storeFile) \in Items
        BY EmptyType DEF Loaded, WatchTypeOK
    <2>3. Recorded(Loaded(storeFile), mentions) \in Items
        BY <2>2, RecordedType
    <2>4. store' \in Items
        BY <2>1, <2>3, PrunedType
    <2>5. sinceScan' \in 0..ScanEvery /\ storeFile' \in Items \cup {Torn}
        BY <1>s, <2>1, <2>3 DEF WatchTypeOK
    <2>6. watchlist' \in SUBSET Listed
        BY <1>8, BuildableIsListed DEF BotStart
    <2> QED
        BY <1>8, <2>4, <2>5, <2>6 DEF BotStart, WatchTypeOK
<1>9. CASE UNCHANGED watchVars
    BY <1>9 DEF watchVars, WatchTypeOK
<1> QED
    BY <1>1, <1>2, <1>3, <1>4, <1>6, <1>7, <1>8, <1>9 DEF WatchNext

\* The lists hold instruments, the timers stop at their intervals and the ages at the TTL,
\* in the file as in memory (UniverseManager, NewsCandidateStore).
THEOREM WatchTypeCorrect == WatchSpec => []WatchTypeOK
<1> QED
    BY WatchTypeInit, WatchTypeNext, PTL DEF WatchSpec

-----------------------------------------------------------------------------
(* The calendar. *)

\* A lookup that is refused uses up one of the refreshes the failure still stands for.
\* The longer a company was refused, the sooner its negative entry ends.
CalendarInv ==
    /\ CalendarTypeOK
    /\ \A s \in Companies : refused[s] + negative[s] < NegativeTtl

LEMMA CalendarInitially == CalendarInit => CalendarInv
BY CalendarAssumption DEF CalendarInit, CalendarInv, CalendarTypeOK

\* Every step of the earnings calendar keeps its invariant.
LEMMA CalendarKeeps == CalendarInv /\ [CalendarNext]_calendarVars => CalendarInv'
<1> SUFFICES ASSUME CalendarInv, [CalendarNext]_calendarVars PROVE CalendarInv'
    OBVIOUS
<1>0. /\ CalendarTtl \in Nat \ {0} /\ NegativeTtl \in Nat \ {0}
      /\ \A s \in Companies : /\ negative[s] \in 0..NegativeTtl /\ refused[s] \in Nat
                             /\ dates[s] \in 0..CalendarTtl \cup {NoDate}
                             /\ refused[s] + negative[s] < NegativeTtl
    BY CalendarAssumption DEF CalendarInv, CalendarTypeOK
<1>1. CASE RefreshCalendar
    <2>1. PICK failed \in SUBSET Fetched, passed \in SUBSET Companies :
            /\ dates' = [s \in Companies |->
                            IF s \in failed \cup passed THEN NoDate
                            ELSE IF s \in Fetched THEN 1
                            ELSE IF Wanted(s) THEN dates[s] ELSE dates[s] + 1]
            /\ negative' = [s \in Companies |->
                                IF s \in failed THEN AfterFailure(s) ELSE Forgetting(s)]
            /\ refused' = [s \in Companies |->
                                IF s \in Fetched THEN 0
                                ELSE IF s \in front /\ Wanted(s) THEN refused[s] + 1
                                ELSE refused[s]]
        BY <1>1 DEF RefreshCalendar
    <2>2. ASSUME NEW s \in Companies
          PROVE  /\ dates'[s] \in 0..CalendarTtl \cup {NoDate}
                 /\ negative'[s] \in 0..NegativeTtl /\ refused'[s] \in Nat
                 /\ refused'[s] + negative'[s] < NegativeTtl
        <3>1. dates'[s] \in 0..CalendarTtl \cup {NoDate}
            BY <1>0, <2>1 DEF Wanted
        <3>2. CASE s \in failed
            BY <1>0, <2>1, <3>1, <3>2 DEF AfterFailure
        <3>3. CASE s \notin failed
            <4>1. /\ negative'[s] = Forgetting(s)
                  /\ refused'[s] = IF s \in Fetched THEN 0
                                   ELSE IF s \in front /\ Wanted(s) THEN refused[s] + 1
                                   ELSE refused[s]
                BY <2>1, <3>3
            <4>2. s \in front /\ Wanted(s) /\ s \notin Fetched => negative[s] # 0
                BY DEF Fetched
            <4> QED
                BY <1>0, <3>1, <4>1, <4>2 DEF Forgetting
        <3> QED
            BY <3>2, <3>3
    <2>3. /\ dates' \in [Companies -> 0..CalendarTtl \cup {NoDate}]
          /\ negative' \in [Companies -> 0..NegativeTtl]
          /\ refused' \in [Companies -> Nat]
        BY <2>1, <2>2
    <2> QED
        BY <1>1, <2>2, <2>3 DEF RefreshCalendar, CalendarInv, CalendarTypeOK, Fronts
<1>2. CASE RestartCalendar
    BY <1>0, <1>2 DEF RestartCalendar, CalendarInv, CalendarTypeOK, Fronts
<1>3. CASE Reorder \/ UNCHANGED calendarVars
    BY <1>3 DEF Reorder, calendarVars, CalendarInv, CalendarTypeOK, Fronts
<1> QED
    BY <1>1, <1>2, <1>3 DEF CalendarNext

\* The invariant of the earnings calendar holds in every reachable state.
LEMMA CalendarStays == CalendarSpec => []CalendarInv
<1> QED
    BY CalendarInitially, CalendarKeeps, PTL DEF CalendarSpec

\* A company is looked up before NegativeTtl refreshes had it in front in vain, however
\* the order of the symbols changes (EarningsCalendarCache.refresh).
LEMMA FrontIsServed == CalendarSpec => []FrontIsLookedUp
<1>1. CalendarInv => FrontIsLookedUp
    BY CalendarAssumption DEF CalendarInv, CalendarTypeOK, FrontIsLookedUp
<1> QED
    BY <1>1, CalendarStays, PTL

-----------------------------------------------------------------------------
(* The fundamentals. While a symbol waits, every refresh spends what the      *)
(* restless symbols leave of the budget on others; none of them comes up      *)
(* again before its entry is old or its backoff over, so that they run out.   *)

\* Disjoint finite sets add their sizes.
LEMMA DisjointUnion ==
    ASSUME NEW S, NEW T, IsFiniteSet(S), IsFiniteSet(T), S \cap T = {}
    PROVE  Cardinality(S \cup T) = Cardinality(S) + Cardinality(T)
<1>1. Cardinality(S \cap T) = 0
    BY FS_EmptySet
<1>2. Cardinality(S) \in Nat /\ Cardinality(T) \in Nat
    BY FS_CardinalityType
<1>3. Cardinality(S \cup T) = Cardinality(S) + Cardinality(T) - Cardinality(S \cap T)
    BY FS_Union
<1> QED
    BY <1>1, <1>2, <1>3

\* Fetched or failed within the last k refreshes.
Touched(w, k) ==
    IF w \in Unservable THEN backoff[w] >= Backoff - k
    ELSE entry[w] \in Nat /\ entry[w] <= k

Ahead(s) == {w \in Calm \ {s} : Touched(w, waited[s])}

\* A symbol that waits has let others go first: each refresh it was left out of spent on
\* them what the restless ones leave of the budget.
CacheInv ==
    /\ CacheTypeOK
    /\ \A w \in Calm \cap Unservable : entry[w] = NoEntry /\ file[w] = NoEntry
    /\ \A s \in Servable :
          waited[s] <= RefreshAfter /\ waited[s] <= Backoff =>
              Spare * waited[s] <= Cardinality(Ahead(s))

\* What the constants promise, in the form the proof of the wait bound cites.
LEMMA CacheFacts ==
    /\ IsFiniteSet(Tracked) /\ IsFiniteSet(Calm) /\ IsFiniteSet(Restless)
    /\ Restless \in SUBSET Tracked
    /\ Cardinality(Calm) \in Nat /\ Cardinality(Restless) \in Nat
    /\ Budget \in Nat /\ Spare \in Int /\ Spare = Budget - Cardinality(Restless)
    /\ RefreshAfter \in Nat \ {0} /\ Backoff \in Nat \ {0}
    /\ Longest \in Nat /\ Longest > RefreshAfter /\ Longest > Backoff
    /\ NoEntry \notin Nat
<1>1. Restless \in SUBSET Tracked
    BY FundamentalsAssumption DEF Restless, Tracked
<1>2. IsFiniteSet(Tracked) /\ IsFiniteSet(Calm) /\ IsFiniteSet(Restless)
    BY <1>1, FundamentalsAssumption, FS_Subset DEF Calm
<1>3. Cardinality(Calm) \in Nat /\ Cardinality(Restless) \in Nat
    BY <1>2, FS_CardinalityType
<1>4. Budget \in Nat /\ Spare \in Int
    BY <1>3, FundamentalsAssumption DEF Spare
<1> QED
    BY <1>1, <1>2, <1>3, <1>4, FundamentalsAssumption DEF Spare, Longest

AheadOK ==
    \A s \in Servable : /\ Ahead(s) \in SUBSET (Calm \ {s}) /\ IsFiniteSet(Ahead(s))
                        /\ Cardinality(Ahead(s)) \in Nat
                        /\ Cardinality(Ahead(s)) < Cardinality(Calm)

\* Those ahead of a symbol are calm, and it is calm itself.
LEMMA AheadIs == AheadOK
<1> SUFFICES ASSUME NEW s \in Servable
             PROVE  /\ Ahead(s) \in SUBSET (Calm \ {s}) /\ IsFiniteSet(Ahead(s))
                    /\ Cardinality(Ahead(s)) \in Nat
                    /\ Cardinality(Ahead(s)) < Cardinality(Calm)
    BY DEF AheadOK
<1>1. Ahead(s) \in SUBSET (Calm \ {s})
    BY DEF Ahead
<1>2. s \in Calm
    BY FundamentalsAssumption DEF Calm, Tracked, Restless
<1>3. /\ IsFiniteSet(Calm \ {s}) /\ Cardinality(Calm \ {s}) = Cardinality(Calm) - 1
    BY <1>2, CacheFacts, FS_RemoveElement
<1>4. /\ IsFiniteSet(Ahead(s)) /\ Cardinality(Ahead(s)) \in Nat
      /\ Cardinality(Ahead(s)) <= Cardinality(Calm \ {s})
    BY <1>1, <1>3, FS_Subset, FS_CardinalityType
<1>5. Cardinality(Ahead(s)) < Cardinality(Calm)
    BY <1>3, <1>4, CacheFacts
<1> QED
    BY <1>1, <1>4, <1>5

LEMMA AheadIsNext == AheadOK'
BY AheadIs, PTL

LEMMA CacheInitially == CacheInit => CacheInv
<1> SUFFICES ASSUME CacheInit PROVE CacheInv
    OBVIOUS
<1>1. CacheTypeOK
    BY CacheFacts, FundamentalsAssumption DEF CacheInit, CacheTypeOK, Entries
<1>2. \A w \in Calm \cap Unservable : entry[w] = NoEntry /\ file[w] = NoEntry
    BY DEF CacheInit, Calm, Restless
<1>3. ASSUME NEW s \in Servable
      PROVE  Spare * waited[s] <= Cardinality(Ahead(s))
    <2>1. waited[s] = 0 /\ Spare * 0 = 0
        BY CacheFacts DEF CacheInit, Tracked
    <2> QED
        BY <2>1, AheadIs, CacheFacts DEF AheadOK
<1> QED
    BY <1>1, <1>2, <1>3 DEF CacheInv

\* A refresh that leaves a stale symbol out has spent the budget on others.
LEMMA LeftOut ==
    ASSUME NEW stale \in SUBSET Tracked, NEW targets \in Foremost(Budget, stale),
           NEW s \in Calm, s \in stale \ targets
    PROVE  Cardinality(targets \cap Calm) >= Spare
<1>1. targets \in SUBSET stale /\ s \in stale /\ s \notin targets
      /\ Cardinality(targets) = IF Budget < Cardinality(stale) THEN Budget ELSE Cardinality(stale)
    BY DEF Foremost
<1>2. IsFiniteSet(stale) /\ IsFiniteSet(targets)
    BY <1>1, CacheFacts, FS_Subset
<1>3. Cardinality(targets) # Cardinality(stale)
    BY <1>1, <1>2, FS_Subset
<1>4. Cardinality(targets) = Budget
    BY <1>1, <1>3
<1>5. IsFiniteSet(targets \cap Calm) /\ IsFiniteSet(targets \cap Restless)
      /\ Cardinality(targets \cap Restless) <= Cardinality(Restless)
    BY <1>2, CacheFacts, FS_Subset
<1>6. /\ targets = (targets \cap Calm) \cup (targets \cap Restless)
      /\ (targets \cap Calm) \cap (targets \cap Restless) = {}
    BY <1>1 DEF Calm
<1>7. Cardinality(targets) = Cardinality(targets \cap Calm) + Cardinality(targets \cap Restless)
    BY <1>5, <1>6, DisjointUnion
<1>8. /\ Cardinality(targets \cap Calm) \in Nat /\ Cardinality(targets \cap Restless) \in Nat
    BY <1>5, FS_CardinalityType
<1> QED
    BY <1>4, <1>5, <1>7, <1>8, CacheFacts DEF Spare

\* Every step of the cache keeps its invariant, the bound on the wait among it.
LEMMA CacheKeeps == CacheInv /\ [CacheNext]_cacheVars => CacheInv'
<1> SUFFICES ASSUME CacheInv, [CacheNext]_cacheVars PROVE CacheInv'
    OBVIOUS
<1>0. /\ \A w \in Tracked : /\ entry[w] \in 0..RefreshAfter \cup {NoEntry}
                           /\ file[w] \in 0..RefreshAfter \cup {NoEntry}
                           /\ backoff[w] \in 0..Backoff /\ waited[w] \in 0..Longest
    BY DEF CacheInv, CacheTypeOK, Entries
<1>o. \A a \in 0..RefreshAfter \cup {NoEntry} : Older(a) \in 0..RefreshAfter \cup {NoEntry}
    BY CacheFacts DEF Older
<1>1. CASE RefreshFundamentals
    <2> DEFINE stale == {w \in Tracked : IsStale(w)}
    <2>1. PICK targets \in Foremost(Budget, stale) :
            LET fetched == targets \ Unservable
            IN /\ entry' = [w \in Tracked |-> IF w \in fetched THEN 1 ELSE Older(entry[w])]
               /\ backoff' = [w \in Tracked |->
                                IF w \in targets
                                THEN IF w \in Unservable THEN Backoff - 1 ELSE 0
                                ELSE Less(backoff[w])]
               /\ waited' = [w \in Tracked |->
                                IF w \in stale \ targets THEN Longer(waited[w]) ELSE 0]
               /\ \/ file' = [w \in Tracked |-> Older(file[w])]
                  \/ fetched # {} /\ file' = entry'
        BY <1>1 DEF RefreshFundamentals
    <2>t. targets \in SUBSET stale
        BY DEF Foremost
    <2> HIDE DEF stale
    <2>2. ASSUME NEW w \in Tracked
          PROVE  /\ entry'[w] = IF w \in targets \ Unservable THEN 1 ELSE Older(entry[w])
                 /\ backoff'[w] = IF w \in targets
                                  THEN IF w \in Unservable THEN Backoff - 1 ELSE 0
                                  ELSE Less(backoff[w])
                 /\ waited'[w] = IF w \in stale \ targets THEN Longer(waited[w]) ELSE 0
                 /\ file'[w] = Older(file[w]) \/ file'[w] = entry'[w]
        BY <2>1
    <2>3. CacheTypeOK'
        <3>1. ASSUME NEW w \in Tracked
              PROVE  /\ entry'[w] \in 0..RefreshAfter \cup {NoEntry}
                     /\ file'[w] \in 0..RefreshAfter \cup {NoEntry}
                     /\ backoff'[w] \in 0..Backoff /\ waited'[w] \in 0..Longest
            <4>1. entry'[w] \in 0..RefreshAfter \cup {NoEntry}
                <5>1. 1 \in 0..RefreshAfter
                    BY CacheFacts
                <5>2. Older(entry[w]) \in 0..RefreshAfter \cup {NoEntry}
                    BY <1>0, <1>o
                <5> QED
                    BY <2>2, <5>1, <5>2
            <4>2. file'[w] \in 0..RefreshAfter \cup {NoEntry}
                BY <1>0, <1>o, <2>2, <4>1
            <4>3. backoff'[w] \in 0..Backoff
                BY <1>0, <2>2, FundamentalsAssumption DEF Less
            <4>4. waited'[w] \in 0..Longest
                BY <1>0, <2>2, CacheFacts DEF Longer
            <4> QED
                BY <4>1, <4>2, <4>3, <4>4
        <3>2. /\ entry' = [w \in Tracked |-> entry'[w]] /\ file' = [w \in Tracked |-> file'[w]]
              /\ backoff' = [w \in Tracked |-> backoff'[w]]
              /\ waited' = [w \in Tracked |-> waited'[w]]
            BY <2>1
        <3> QED
            BY <3>1, <3>2 DEF CacheTypeOK, Entries
    <2>4. \A w \in Calm \cap Unservable : entry'[w] = NoEntry /\ file'[w] = NoEntry
        BY <2>2 DEF CacheInv, Older, Calm
    <2>5. ASSUME NEW s \in Servable, waited'[s] <= RefreshAfter, waited'[s] <= Backoff
          PROVE  Spare * waited'[s] <= Cardinality(Ahead(s)')
        <3>s. s \in Tracked /\ s \in Calm
            BY FundamentalsAssumption DEF Calm, Tracked, Restless
        <3>a. /\ Ahead(s)' \in SUBSET (Calm \ {s}) /\ IsFiniteSet(Ahead(s)')
              /\ Cardinality(Ahead(s)') \in Nat
              /\ Cardinality(Ahead(s)') < Cardinality(Calm)
            BY AheadIsNext DEF AheadOK
        <3>1. CASE s \notin stale \ targets
            <4>1. waited'[s] = 0 /\ Spare * 0 = 0
                BY <2>2, <3>1, <3>s, CacheFacts
            <4> QED
                BY <3>a, <4>1, CacheFacts
        <3>2. CASE s \in stale \ targets
            <4> DEFINE new == targets \cap Calm
                       k == waited[s]
            <4>1. waited'[s] = k + 1 /\ k \in Nat /\ k < RefreshAfter /\ k < Backoff
                  /\ Spare * k <= Cardinality(Ahead(s))
                <5>1. waited'[s] = Longer(k) /\ k \in 0..Longest
                    BY <1>0, <2>2, <3>2, <3>s
                <5>2. waited'[s] = k + 1 /\ k < RefreshAfter /\ k < Backoff
                    BY <2>5, <5>1, CacheFacts DEF Longer
                <5> QED
                    BY <5>1, <5>2, CacheFacts DEF CacheInv
            <4>2. Cardinality(new) >= Spare
                <5>1. stale \in SUBSET Tracked
                    BY DEF stale
                <5> QED
                    BY <3>2, <3>s, <5>1, LeftOut
            <4>3. ASSUME NEW w \in Ahead(s) PROVE ~IsStale(w)
                <5>1. w \in Tracked /\ w \in Calm /\ Touched(w, k)
                    BY <4>3 DEF Ahead, Calm
                <5>2. CASE w \in Unservable
                    BY <1>0, <4>1, <5>1, <5>2, CacheFacts DEF Touched, IsStale, CacheInv
                <5>3. CASE w \notin Unservable
                    BY <1>0, <4>1, <5>1, <5>3, CacheFacts
                    DEF Touched, IsStale, Calm, Restless
                <5> QED
                    BY <5>2, <5>3
            <4>4. Ahead(s) \cap new = {}
                BY <2>t, <4>3 DEF stale
            <4>5. Ahead(s) \cup new \subseteq Ahead(s)'
                <5> SUFFICES ASSUME NEW w \in Ahead(s) \cup new PROVE w \in Ahead(s)'
                    OBVIOUS
                <5>1. w \in Tracked /\ w \in Calm \ {s}
                    BY <3>2 DEF Ahead, Calm
                <5>2. CASE w \in new
                    <6>1. w \in Unservable => backoff'[w] = Backoff - 1
                        BY <2>2, <5>1, <5>2
                    <6>2. w \notin Unservable => entry'[w] = 1
                        BY <2>2, <5>1, <5>2
                    <6>3. Touched(w, waited[s])'
                        BY <4>1, <6>1, <6>2, CacheFacts DEF Touched
                    <6> QED
                        BY <4>1, <5>1, <6>3 DEF Ahead
                <5>3. CASE w \in Ahead(s)
                    <6>1. w \notin targets /\ Touched(w, k)
                        BY <2>t, <4>3, <5>3 DEF stale, Ahead
                    <6>2. entry'[w] = Older(entry[w]) /\ backoff'[w] = Less(backoff[w])
                        BY <2>2, <5>1, <6>1
                    <6>3. Touched(w, waited[s])'
                        BY <1>0, <4>1, <5>1, <6>1, <6>2, CacheFacts DEF Touched, Older, Less
                    <6> QED
                        BY <4>1, <5>1, <6>3 DEF Ahead
                <5> QED
                    BY <5>2, <5>3
            <4>6. /\ IsFiniteSet(Ahead(s)) /\ Cardinality(Ahead(s)) \in Nat
                  /\ IsFiniteSet(new) /\ Cardinality(new) \in Nat
                <5>1. IsFiniteSet(new)
                    BY CacheFacts, FS_Subset
                <5> QED
                    BY <5>1, AheadIs, FS_CardinalityType DEF AheadOK
            <4>7. Cardinality(Ahead(s) \cup new) = Cardinality(Ahead(s)) + Cardinality(new)
                BY <4>4, <4>6, DisjointUnion
            <4>8. Cardinality(Ahead(s) \cup new) <= Cardinality(Ahead(s)')
                BY <3>a, <4>5, FS_Subset
            <4>9. Spare * (k + 1) = Spare * k + Spare /\ Spare * k \in Int
                BY <4>1, CacheFacts
            <4> HIDE DEF new, k
            <4>10. Spare * (k + 1) <= Cardinality(Ahead(s)')
                BY <3>a, <4>1, <4>2, <4>6, <4>7, <4>8, <4>9, CacheFacts
            <4> QED
                BY <4>1, <4>10
        <3> QED
            BY <3>1, <3>2
    <2> QED
        BY <2>3, <2>4, <2>5 DEF CacheInv
<1>2. CASE RestartCache
    <2>1. CacheTypeOK'
        BY <1>2, CacheFacts DEF RestartCache, CacheInv, CacheTypeOK
    <2>2. \A w \in Calm \cap Unservable : entry'[w] = NoEntry /\ file'[w] = NoEntry
        BY <1>2 DEF RestartCache, CacheInv
    <2>3. ASSUME NEW s \in Servable
          PROVE  Spare * waited'[s] <= Cardinality(Ahead(s)')
        <3>1. waited'[s] = 0 /\ Spare * 0 = 0
            BY <1>2, CacheFacts DEF RestartCache, Tracked
        <3> QED
            BY <3>1, AheadIsNext, CacheFacts DEF AheadOK
    <2> QED
        BY <2>1, <2>2, <2>3 DEF CacheInv
<1>3. CASE UNCHANGED cacheVars
    BY <1>3 DEF cacheVars, CacheInv, CacheTypeOK, Ahead, Touched
<1> QED
    BY <1>1, <1>2, <1>3 DEF CacheNext

\* The invariant of the cache holds in every reachable state.
LEMMA CacheStays == CacheSpec => []CacheInv
<1> QED
    BY CacheInitially, CacheKeeps, PTL DEF CacheSpec

\* While nothing that was fetched or has failed is due again, the refreshes a symbol
\* waited, times what the restless symbols leave of the budget, stay below the number of
\* the calm ones (FundamentalsCache.refresh).
LEMMA FundamentalsAreServed == CacheSpec => []FundamentalsServed
<1>1. CacheInv => FundamentalsServed
    <2> SUFFICES ASSUME CacheInv, NEW s \in Servable,
                        waited[s] <= RefreshAfter, waited[s] <= Backoff
                 PROVE  Spare * waited[s] < Cardinality(Calm)
        BY DEF FundamentalsServed
    <2>1. waited[s] \in Nat
        BY CacheFacts DEF CacheInv, CacheTypeOK, Tracked, Entries
    <2> DEFINE spent == Spare * waited[s]
    <2>2. spent \in Int /\ spent <= Cardinality(Ahead(s))
        BY <2>1, CacheFacts DEF CacheInv
    <2> HIDE DEF spent
    <2>3. spent < Cardinality(Calm)
        BY <2>2, AheadIs, CacheFacts DEF AheadOK
    <2> QED
        BY <2>3 DEF spent
<1> QED
    BY <1>1, CacheStays, PTL
=============================================================================
