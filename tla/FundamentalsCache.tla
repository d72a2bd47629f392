-------------------------- MODULE FundamentalsCache --------------------------
(* The fundamentals cache, which every refresh of the universe tops up from a *)
(* slow provider with a budget of fetches. The symbols come in the order of   *)
(* the universe, which changes with the news. Ages and waits count refreshes. *)
EXTENDS Naturals, FiniteSets

CONSTANTS
    Servable,       \* symbols the provider answers
    Unservable,     \* symbols it fails on
    Orphans,        \* those of them it answered once: the cache has an old entry
    Reported,       \* symbols it answers with an earnings date that has passed
    Budget,         \* [fundamentals] budget_per_refresh
    RefreshAfter, Backoff,      \* refresh_after_hours, failure_backoff_hours
    NoEntry         \* a symbol the cache does not hold

\* What is stale whatever one fetches.
Restless == Orphans \cup Reported
Tracked == Servable \cup Unservable \cup Reported

ASSUME FundamentalsAssumption ==
    /\ IsFiniteSet(Tracked) /\ Orphans \subseteq Unservable
    /\ Servable \cap (Unservable \cup Reported) = {}
    /\ RefreshAfter \in Nat \ {0} /\ Backoff \in Nat \ {0}
    /\ Budget \in Nat /\ NoEntry \notin Nat

\* The symbols a fetch quiets for a while, and what the others leave them of the budget,
\* which is nothing when there are too many of them.
Calm == Tracked \ Restless
Spare == Budget - Cardinality(Restless)

\* Bound: a wait is counted up to here.
Longest == RefreshAfter + Backoff

VARIABLES
    entry,          \* entry[s]: age of the snapshot, at most RefreshAfter
    backoff,        \* backoff[s]: refreshes until next_attempt
    file,           \* the entries of the saved file
    waited          \* history, waited[s]: refreshes in a row that left the stale s out

cacheVars == <<entry, backoff, file, waited>>

Entries == [Tracked -> 0..RefreshAfter \cup {NoEntry}]
CacheTypeOK ==
    /\ entry \in Entries /\ file \in Entries
    /\ backoff \in [Tracked -> 0..Backoff]
    /\ waited \in [Tracked -> 0..Longest]

CacheInit ==
    /\ entry = [s \in Tracked |-> IF s \in Orphans THEN RefreshAfter ELSE NoEntry]
    /\ file = entry
    /\ backoff = [s \in Tracked |-> 0] /\ waited = backoff

\* The first n of the symbols: owned ones, then by the score of their news, then seeds.
Foremost(n, S) ==
    {T \in SUBSET S : Cardinality(T) = IF n < Cardinality(S) THEN n ELSE Cardinality(S)}

Older(a) == IF a = NoEntry \/ a = RefreshAfter THEN a ELSE a + 1
Less(t) == IF t = 0 THEN 0 ELSE t - 1
Longer(t) == IF t < Longest THEN t + 1 ELSE Longest

\* Mutant: no backoff.
IsStaleAlways(s) == entry[s] \in {NoEntry, RefreshAfter} \/ s \in Reported

\* The backoff only counts for a symbol without an entry. A passed earnings date
\* makes an entry stale however young it is.
IsStale(s) ==
    IF entry[s] = NoEntry THEN backoff[s] = 0
    ELSE entry[s] = RefreshAfter \/ s \in Reported

\* refresh fetches the first Budget stale symbols; a failure sets the backoff and
\* keeps the old entry. The file is saved once, if anything came; a failed save is
\* only logged. Then an interval passes.
RefreshFundamentals ==
    LET stale == {s \in Tracked : IsStale(s)}
    IN \E targets \in Foremost(Budget, stale) :
        LET fetched == targets \ Unservable
        IN /\ entry' = [s \in Tracked |-> IF s \in fetched THEN 1 ELSE Older(entry[s])]
           /\ backoff' = [s \in Tracked |->
                            IF s \in targets
                            THEN IF s \in Unservable THEN Backoff - 1 ELSE 0
                            ELSE Less(backoff[s])]
           /\ waited' = [s \in Tracked |-> IF s \in stale \ targets THEN Longer(waited[s]) ELSE 0]
           /\ \/ file' = [s \in Tracked |-> Older(file[s])]
              \/ fetched # {} /\ file' = entry'

\* The entries come back from the file, the backoffs do not.
RestartCache ==
    /\ entry' = file
    /\ backoff' = [s \in Tracked |-> 0] /\ waited' = backoff'
    /\ UNCHANGED file

CacheNext == RefreshFundamentals \/ RestartCache
CacheSpec == CacheInit /\ [][CacheNext]_cacheVars

\* A symbol the provider can answer is passed over only for symbols that have their turn
\* once: as long as nothing that was fetched or has failed is due again, the refreshes it
\* waited, times what the restless symbols leave of the budget, stay below the number of
\* the calm ones. So it waits at most (calm - 1) / spare refreshes, whatever their order
\* and whoever fails, and for ever if the restless ones fill the budget, which nothing in
\* the code keeps them from (FundamentalsCache.refresh).
FundamentalsServed ==
    \A s \in Servable :
        waited[s] <= RefreshAfter /\ waited[s] <= Backoff =>
            Spare * waited[s] < Cardinality(Calm)
=============================================================================
