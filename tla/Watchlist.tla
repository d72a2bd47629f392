------------------------------ MODULE Watchlist ------------------------------
(* Which instruments the cycle looks at: the news scan that fills the store   *)
(* of candidates, the universe built from it, and the owned instruments that  *)
(* the universe must not lose. Times are ages in cycles. The refresh is timed *)
(* with time.monotonic(), which starts at the boot of the host.               *)
EXTENDS Naturals, FiniteSets

CONSTANTS
    Listed,         \* instruments, by symbol
    Seeds,          \* base_symbols
    MaxTracked,     \* max_tracked, at least 1
    ProbeMax,       \* probe_max_candidates
    RefreshEvery,   \* universe_refresh_minutes
    ScanEvery,      \* news interval_minutes
    Ttl,            \* age at which a candidate is still kept
    NoItem,         \* a symbol the store does not hold
    Torn            \* a file that does not parse

ASSUME WatchlistAssumption ==
    /\ Seeds \subseteq Listed
    /\ MaxTracked \in Nat \ {0} /\ ProbeMax \in Nat
    /\ RefreshEvery \in Nat \ {0} /\ ScanEvery \in Nat \ {0} /\ Ttl \in Nat

VARIABLES
    step,           \* the next step of the cycle: "scan", "refresh", "reconcile", "trade";
                    \* "down" while no process runs
    uptime,         \* of the host, counted to RefreshEvery
    held,           \* instruments of the open positions that state.bot_owned_positions lists
    ownedIds,       \* state.bot_owned_instrument_ids
    watchlist,      \* ctx.universe
    sinceRefresh,   \* now - last_universe_refresh_monotonic
    sinceScan,      \* ScanEvery when a scan is due
    store,          \* the candidate store
    storeFile       \* its file

watchVars == <<step, uptime, held, ownedIds, watchlist, sinceRefresh, sinceScan, store,
               storeFile>>

\* An item is the age of its last mention; which of them score higher is left open.
Items == [Listed -> 0..Ttl + 1 \cup {NoItem}]
Empty == [s \in Listed |-> NoItem]

WatchTypeOK ==
    /\ step \in {"scan", "refresh", "reconcile", "trade", "down"}
    /\ uptime \in 0..RefreshEvery /\ sinceRefresh \in 0..RefreshEvery
    /\ sinceScan \in 0..ScanEvery
    /\ held \subseteq Listed /\ ownedIds \subseteq Listed /\ watchlist \subseteq Listed
    /\ store \in Items /\ storeFile \in Items \cup {Torn}

Least(a, b) == IF a < b THEN a ELSE b

-----------------------------------------------------------------------------
(* The candidate store.                                                       *)

\* record makes the item new; prune drops those not mentioned within the TTL.
Recorded(items, mentions) == [s \in Listed |-> IF s \in mentions THEN 0 ELSE items[s]]

Pruned(items) == [s \in Listed |-> IF items[s] = Ttl + 1 THEN NoItem ELSE items[s]]

Aged(items) ==
    [s \in Listed |-> IF items[s] = NoItem THEN NoItem ELSE Least(items[s] + 1, Ttl + 1)]

Loaded(file) == IF file = Torn THEN Empty ELSE file

-----------------------------------------------------------------------------
(* The universe.                                                              *)

Room(taken) == IF Cardinality(taken) < MaxTracked THEN MaxTracked - Cardinality(taken) ELSE 0

\* The first n of a list in some order of its members.
SomeFirst(n, S) == {T \in SUBSET S : Cardinality(T) = Least(n, Cardinality(S))}

\* Of some symbols those that can be tracked: `fit` are the ones that the cache or a
\* search resolves, whose probe worked, and that ActivityFilter.evaluate lets through.
\* What is owned is not probed again.
Fitting(S, fit, owned) == (S \cap fit) \ owned

\* _apply_filter: as many as the cap leaves room for, news before seeds.
Admitted(T, news, seeds, cap) ==
    /\ T \in SomeFirst(cap, news \cup seeds)
    /\ T \cap seeds # {} => news \subseteq T

\* _llm_rotation_suggestions: no more than are missing; none when the LLM fails. Those
\* that do not fit are dropped.
Suggested(T, taken) == T \cap taken = {} /\ Cardinality(T) <= Room(taken)

\* build: owned instruments first, past the filter and the cap; then the candidates of
\* the store and the seeds; the LLM fills what is left.
Built(universe, owned, stored, fit) ==
    \E top \in SomeFirst(ProbeMax, stored) :
      \E accepted \in SUBSET Fitting(top \cup Seeds, fit, owned) :
        /\ Admitted(accepted, Fitting(top, fit, owned), Fitting(Seeds \ top, fit, owned),
                    Room(owned))
        /\ \E rotated \in SUBSET Fitting(Listed, fit, owned) :
            /\ Suggested(rotated, owned \cup accepted)
            /\ universe = owned \cup accepted \cup rotated

\* What build can return, whichever instruments happen to fit.
Buildable ==
    [owned \in SUBSET Listed |-> [stored \in SUBSET Listed |->
        {u \in SUBSET Listed : \E fit \in SUBSET Listed : Built(u, owned, stored, fit)}]]
Stored(items) == {s \in Listed : items[s] # NoItem}

\* A scan that fails may have recorded something, and keeps no time: it stays due.
\* A save that fails leaves the file as it was.
ScanEnds(scanned, file) ==
    \/ sinceScan' = 0 /\ storeFile' \in {scanned, file}
    \/ sinceScan' = ScanEvery /\ storeFile' = file

NewsScan ==
    /\ step = "scan"
    /\ IF sinceScan < ScanEvery THEN UNCHANGED <<sinceScan, store, storeFile>>
       ELSE \E mentions \in SUBSET Listed :
                store' = Recorded(store, mentions) /\ ScanEnds(store', storeFile)
    /\ step' = "refresh"
    /\ UNCHANGED <<uptime, held, ownedIds, watchlist, sinceRefresh>>

RefreshUniverse ==
    /\ step = "refresh"
    /\ IF sinceRefresh < RefreshEvery THEN UNCHANGED <<watchlist, sinceRefresh, store>>
       ELSE /\ store' = Pruned(store)
            /\ watchlist' \in Buildable[ownedIds][Stored(store')]
            /\ sinceRefresh' = 0
    /\ step' = "reconcile"
    /\ UNCHANGED <<uptime, held, ownedIds, sinceScan, storeFile>>

\* Mutant: the next refresh is left to its interval.
UpdateOwnedQuietly == ownedIds' = held /\ UNCHANGED sinceRefresh

\* _update_owned_instrument_ids: an instrument that is neither tracked nor known from
\* the last reconcile sets the refresh timer back to 0.0, the boot of the host.
UpdateOwned ==
    /\ ownedIds' = held
    /\ sinceRefresh' = IF held \ watchlist \subseteq ownedIds THEN sinceRefresh ELSE uptime

\* A portfolio that cannot be read counts as an empty one: all that the bot owns has
\* vanished, _record_performance_vanished books and disowns it, and nothing stays owned.
DisownAll == held' = {} /\ ownedIds' = {} /\ UNCHANGED sinceRefresh

Reconcile ==
    /\ step = "reconcile"
    /\ (UpdateOwned /\ UNCHANGED held) \/ DisownAll
    /\ step' = "trade"
    /\ UNCHANGED <<uptime, watchlist, sinceScan, store, storeFile>>

\* Orders fill and positions close, at the broker or by the bot, until the next cycle.
\* Both clocks count on together, so that a timer set back stays the uptime.
Trade ==
    /\ step = "trade"
    /\ held' \in SUBSET Listed
    /\ uptime' = Least(uptime + 1, RefreshEvery)
    /\ sinceRefresh' = Least(sinceRefresh + 1, RefreshEvery)
    /\ sinceScan' = Least(sinceScan + 1, ScanEvery)
    /\ store' = Aged(store)
    /\ storeFile' = IF storeFile = Torn THEN Torn ELSE Aged(storeFile)
    /\ step' = "scan"
    /\ UNCHANGED <<ownedIds, watchlist>>

\* The process ends; what it knew is gone with it.
EndsWith(file) ==
    /\ step' = "down" /\ storeFile' = file
    /\ store' = Empty /\ watchlist' = {} /\ ownedIds' = {}
    /\ sinceRefresh' = 0 /\ sinceScan' = 0
    /\ UNCHANGED held

\* With or without the host. Stopping after the refresh or the reconcile leaves what
\* stopping before them leaves.
BotStop ==
    /\ step \in {"scan", "refresh"}
    /\ uptime' \in {uptime, 0}
    /\ EndsWith(storeFile)

\* The process dies while the scan rewrites the file in place.
TearStore == step = "scan" /\ sinceScan = ScanEvery /\ UNCHANGED uptime /\ EndsWith(Torn)

\* initial_universe: a forced scan, then a build that owns nothing yet. The owned ids
\* are not in the state file.
BotStart ==
    /\ step = "down" /\ step' = "scan"
    /\ \E mentions \in SUBSET Listed :
        LET scanned == Recorded(Loaded(storeFile), mentions) IN
            ScanEnds(scanned, storeFile) /\ store' = Pruned(scanned)
    /\ watchlist' \in Buildable[{}][Stored(store')]
    /\ UNCHANGED <<uptime, held, ownedIds, sinceRefresh>>

WatchInit ==
    /\ step = "down" /\ uptime \in {0, RefreshEvery}
    /\ held \in {{}, Listed} /\ ownedIds = {} /\ watchlist = {}
    /\ store = Empty /\ storeFile = Empty
    /\ sinceScan = 0 /\ sinceRefresh = 0

WatchNext ==
    \/ NewsScan \/ RefreshUniverse \/ Reconcile \/ Trade
    \/ BotStop \/ TearStore \/ BotStart

WatchSpec == WatchInit /\ [][WatchNext]_watchVars

\* Once the host has been up for a refresh interval, every cycle trades with all the
\* instruments tracked that the last reconcile saw the bot own: through full
\* universes, filters that reject the instrument, restarts that forget what is owned,
\* orders that fill after a failed read, and a store that was torn. After a failed read
\* the bot owns nothing (DisownAll), and what it held is tracked as any instrument is.
OwnedStaysTracked ==
    step = "reconcile" /\ uptime >= RefreshEvery => ownedIds \subseteq watchlist
=============================================================================
