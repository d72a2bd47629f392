----------------------------- MODULE MarketData -----------------------------
(***************************************************************************)
(* The request loop of EtoroClient (etoro/client.py) and what is fetched   *)
(* through it: the rates of a cycle in chunks, with the rates of earlier   *)
(* cycles when a chunk fails (market_data.py, cycle.py), the candles one   *)
(* instrument at a time, instrument data in batches that shrink when the   *)
(* broker finds a request too large, and orders, which must not be sent    *)
(* twice.                                                                  *)
(***************************************************************************)
EXTENDS Naturals, Sequences, FiniteSets

CONSTANTS
    Ids,           \* instruments, numbered in the order of the universe
    Universes,     \* the tracked sets the bot goes through
    Ladder,        \* _INSTRUMENT_BATCH_LADDER, largest first
    RateChunk,     \* instruments per request for rates (100)
    Retries,       \* of a market-data GET (2)
    MaxRound       \* bound: cycles

Smallest == Ladder[Len(Ladder)]

ASSUME MarketAssumption ==
    /\ IsFiniteSet(Ids) /\ Ids \subseteq Nat \ {0}
    /\ Universes \subseteq (SUBSET Ids) \ {{}}    \* nothing is asked for an empty one
    /\ Ladder \in Seq(Nat \ {0}) /\ Ladder # <<>>
    /\ \A k \in 1..Len(Ladder) - 1 : Ladder[k + 1] < Ladder[k]
    /\ RateChunk \in Nat \ {0} /\ Retries \in Nat /\ MaxRound \in Nat

VARIABLES
    round,      \* the cycle
    tracked,    \* its universe
    job,        \* the current or last one, [kind, at]
    left,       \* instruments the job has still to ask for, or to give up
    rung,       \* of the ladder
    attempt,    \* of the current request
    got,        \* instruments whose data this job has
    silent,     \* history: instruments that the answers to this job left out
    skipped,    \* instruments given up in this job
    sent,       \* history: requests of this job
    acted,      \* history: how often the broker acted on this job's order
    limit,      \* the broker: instruments it takes in one request for instrument data
    rates,      \* the rates of the cycle, by the round they were fetched in; 0 is none
    rateCache   \* ctx.rate_cache, in the same way

jobVars == <<job, left, rung, attempt, got, silent, skipped, sent, acted>>
marketVars == <<round, tracked, jobVars, limit, rates, rateCache>>

MarketTypeOK ==
    /\ round \in 0..MaxRound /\ tracked \in Universes \cup {{}}
    /\ job \in [kind : {"none", "rates", "candles", "metas", "trade"},
                at : {"running", "done", "failed"}]
    /\ left \subseteq tracked /\ got \subseteq tracked
    /\ silent \subseteq tracked /\ skipped \subseteq tracked
    /\ rung \in 1..Len(Ladder) /\ attempt \in 0..Retries
    /\ sent \in Nat /\ acted \in Nat /\ limit \in Nat
    /\ rates \in [Ids -> 0..round] /\ rateCache \in [Ids -> 0..round]

MarketInit ==
    /\ round = 0 /\ tracked = {}
    /\ job = [kind |-> "none", at |-> "done"]
    /\ left = {} /\ got = {} /\ silent = {} /\ skipped = {} /\ rung = 1 /\ attempt = 0
    /\ sent = 0 /\ acted = 0
    /\ limit \in 0..Cardinality(Ids)
    /\ rates = [i \in Ids |-> 0] /\ rateCache = rates

First(n, S) == {i \in S : Cardinality({j \in S : j < i}) < n}
Chunk ==
    CASE job.kind = "rates" -> First(RateChunk, left)
      [] job.kind = "candles" -> First(1, left)
      [] OTHER -> First(Ladder[rung], left)

Begin(kind, ids) ==
    /\ job.at # "running"
    /\ job' = [kind |-> kind, at |-> "running"]
    /\ left' = ids /\ rung' = 1 /\ attempt' = 0
    /\ got' = {} /\ silent' = {} /\ skipped' = {} /\ sent' = 0 /\ acted' = 0

Ended(at) == job' = [job EXCEPT !.at = at]
Through == IF left' = {} THEN Ended("done") ELSE UNCHANGED job

-----------------------------------------------------------------------------
(* One request. *)

\* What comes back: an answer, nothing in time, a broken connection, 429 or 5xx, a
\* refusal of the size, of the key or of the request.
Replies == {"ok", "timeout", "network", "busy", "too_large", "refused"}

\* Only the requests for instrument data name enough instruments to be too large.
MayReply(r) ==
    CASE r = "ok" -> job.kind = "metas" => Cardinality(Chunk) <= limit
      [] r = "too_large" -> job.kind = "metas" /\ Cardinality(Chunk) > limit
      [] OTHER -> TRUE

\* post and delete never retry under /trading/execution/, the only paths they serve.
RetriesOf == IF job.kind = "trade" THEN 0 ELSE Retries

\* _request: a GET is repeated after anything that may pass; _raise_or_continue does not
\* ask for the method.
Retried(r) ==
    /\ attempt < RetriesOf
    /\ r = "busy" \/ (r \in {"timeout", "network"} /\ job.kind # "trade")

\* A request that got no answer, or an error of the broker, may have been acted on.
Sent(r) ==
    /\ job.at = "running" /\ MayReply(r)
    /\ sent' = sent + 1
    /\ acted' \in CASE job.kind # "trade" \/ r \in {"too_large", "refused"} -> {acted}
                    [] r = "ok" -> {acted + 1}
                    [] OTHER -> {acted, acted + 1}
    /\ UNCHANGED <<round, tracked, limit>>

Retry(r) ==
    /\ Sent(r) /\ Retried(r)
    /\ attempt' = attempt + 1
    /\ UNCHANGED <<job, left, rung, got, silent, skipped, rates, rateCache>>

\* An answer may leave instruments out, or carry a body that does not parse and so
\* nothing at all (HttpResult without payload); nobody asks for them again in this job.
Answered(data) ==
    /\ data \subseteq Chunk
    /\ Sent("ok")
    /\ got' = got \cup data /\ silent' = silent \cup (Chunk \ data)
    /\ left' = left \ Chunk /\ attempt' = 0
    /\ UNCHANGED <<rung, skipped>>

-----------------------------------------------------------------------------
(* Rates: CycleRunner._fetch_rates over fetch_rates. *)

StartRound(universe) ==
    /\ round < MaxRound
    /\ Begin("rates", universe)
    /\ round' = round + 1 /\ tracked' = universe
    /\ rates' = [i \in Ids |-> 0]
    /\ UNCHANGED <<limit, rateCache>>

\* Any failure gives up what was fetched before it; the cache has every rate that the
\* bot ever fetched.
Fallback == [i \in Ids |-> IF i \in tracked THEN rateCache[i] ELSE 0]

\* run_one adds the rates it goes on with to the cache.
WithRates(found) ==
    /\ rates' = found
    /\ rateCache' = [i \in Ids |-> IF found[i] = 0 THEN rateCache[i] ELSE found[i]]

RatesAnswered(data) ==
    /\ job.kind = "rates" /\ Answered(data)
    /\ IF left' = {}
       THEN WithRates([i \in Ids |-> IF i \in got' THEN round ELSE 0]) /\ Ended("done")
       ELSE UNCHANGED <<job, rates, rateCache>>

RatesFailed(r) ==
    /\ job.kind = "rates" /\ r # "ok" /\ ~Retried(r)
    /\ Sent(r)
    /\ WithRates(Fallback) /\ Ended("failed")
    /\ left' = {} /\ attempt' = 0
    /\ UNCHANGED <<rung, got, silent, skipped>>

-----------------------------------------------------------------------------
(* Candles: CycleRunner._fetch_candles over fetch_candles, one request each. *)

StartCandles ==
    /\ tracked # {} /\ Begin("candles", tracked)
    /\ UNCHANGED <<round, tracked, limit, rates, rateCache>>

\* Candles with null prices are left out, so an answer may hold none.
CandlesAnswered(data) ==
    /\ job.kind = "candles" /\ Answered(data) /\ Through
    /\ UNCHANGED <<rates, rateCache>>

\* A failure costs the one instrument.
CandlesFailed(r) ==
    /\ job.kind = "candles" /\ r # "ok" /\ ~Retried(r) /\ Sent(r)
    /\ skipped' = skipped \cup Chunk
    /\ left' = left \ Chunk /\ attempt' = 0 /\ Through
    /\ UNCHANGED <<rung, got, silent, rates, rateCache>>

-----------------------------------------------------------------------------
(* Instrument data: _cache_instrument_metadata over fetch_instruments. *)

StartMetas ==
    /\ tracked # {} /\ Begin("metas", tracked)
    /\ UNCHANGED <<round, tracked, limit, rates, rateCache>>

MetasAnswered(data) ==
    /\ job.kind = "metas" /\ Answered(data) /\ Through
    /\ UNCHANGED <<rates, rateCache>>

\* Mutant: the chunk is given up on every rung.
StepDownSkipping ==
    /\ rung' = IF rung = Len(Ladder) THEN rung ELSE rung + 1
    /\ left' = left \ Chunk /\ skipped' = skipped \cup Chunk

\* The same instruments in a smaller batch; on the last rung they are given up, and the
\* batch stays small.
StepDown ==
    IF rung = Len(Ladder) THEN left' = left \ Chunk /\ skipped' = skipped \cup Chunk /\ UNCHANGED rung
    ELSE rung' = rung + 1 /\ UNCHANGED <<left, skipped>>

MetasTooLarge ==
    /\ job.kind = "metas" /\ Sent("too_large")
    /\ StepDown
    /\ attempt' = 0 /\ Through
    /\ UNCHANGED <<got, silent, rates, rateCache>>

\* Everything that was fetched is dropped.
MetasFailed(r) ==
    /\ job.kind = "metas" /\ r \notin {"ok", "too_large"} /\ ~Retried(r)
    /\ Sent(r) /\ Ended("failed")
    /\ left' = {} /\ got' = {} /\ attempt' = 0
    /\ UNCHANGED <<rung, silent, skipped, rates, rateCache>>

-----------------------------------------------------------------------------
(* Orders: place, close, cancel. *)

StartTrade ==
    /\ round > 0 /\ Begin("trade", {})
    /\ UNCHANGED <<round, tracked, limit, rates, rateCache>>

TradeEnds(r) ==
    /\ job.kind = "trade" /\ ~Retried(r)
    /\ Sent(r) /\ Ended(IF r = "ok" THEN "done" ELSE "failed")
    /\ UNCHANGED <<left, rung, attempt, got, silent, skipped, rates, rateCache>>

MarketNext ==
    \/ \E universe \in Universes : StartRound(universe)
    \/ StartCandles \/ StartMetas \/ StartTrade
    \/ \E r \in Replies :
          Retry(r) \/ RatesFailed(r) \/ CandlesFailed(r) \/ MetasFailed(r) \/ TradeEnds(r)
    \/ \E data \in SUBSET Chunk :
          RatesAnswered(data) \/ CandlesAnswered(data) \/ MetasAnswered(data)
    \/ MetasTooLarge

MarketSpec == MarketInit /\ [][MarketNext]_marketVars

-----------------------------------------------------------------------------
(* Properties. *)

\* A cycle never prices some instruments by what it has just fetched and others by what
\* an earlier cycle fetched (CycleRunner._fetch_rates).
RatesNeverMix ==
    (\E i \in Ids : rates[i] = round) => \A i \in Ids : rates[i] \in {0, round}

\* No instrument falls between two requests: each has its data, is still to be asked for,
\* was named in a request that the broker answered without it, or was given up; and none
\* is given up unless the broker refuses even the smallest batch, although batches shrink
\* in the middle of the list. What an answer leaves out stays without data until a later
\* job asks for it.
NoneForgotten ==
    /\ job.kind = "candles" \/ (job.kind \in {"rates", "metas"} /\ job.at # "failed") =>
          got \cup silent \cup skipped \cup left = tracked
    /\ job.kind = "metas" /\ limit >= Smallest => skipped = {}

\* Every job ends: retries and smaller batches are bounded by the number of instruments.
Rungs == Len(Ladder) - 1
RequestsBounded ==
    sent <= (Retries + 1) * (Cardinality(Ids) + Rungs)

\* No order is sent to the broker twice by one call, whatever comes back.
OrdersSentOnce == job.kind = "trade" => sent <= 1 /\ acted <= 1

\* The broker's answers, errors and silence leave the cycle with market data of one
\* time, with no instrument left unasked or given up early, after a bounded number of
\* requests and without an order that was sent twice.
MarketDataSound == RatesNeverMix /\ NoneForgotten /\ RequestsBounded /\ OrdersSentOnce
=============================================================================
