-------------------------- MODULE EarningsCalendar --------------------------
(* The cache of next earnings dates. Every refresh of the universe looks up   *)
(* the first symbols of the universe, as many as the budget allows, and never *)
(* the others: positions and news change the order, the refresh does not. A   *)
(* failed lookup is remembered, and the provider left alone for half a TTL.   *)
EXTENDS Naturals, FiniteSets

CONSTANTS
    Companies,      \* the tracked symbols
    Delisted,       \* those the provider has no date for
    CalendarBudget, \* [earnings_calendar] budget_per_refresh
    CalendarTtl,    \* ttl_seconds, in refreshes
    NegativeTtl,    \* half of it
    NoDate          \* a symbol without an entry

ASSUME CalendarAssumption ==
    /\ Delisted \subseteq Companies /\ CalendarBudget \in Nat \ {0}
    /\ CalendarTtl \in Nat \ {0} /\ NegativeTtl \in Nat \ {0}

VARIABLES
    front,          \* the first CalendarBudget symbols of the universe
    dates,          \* dates[s]: age of the entry, at most CalendarTtl
    negative,       \* negative[s]: refreshes until the failed lookup is forgotten
    refused         \* history, refused[s]: refreshes since the last lookup of s that had it
                    \* in front and its date missing or too old

calendarVars == <<front, dates, negative, refused>>

\* Owned positions come first, then candidates by the score of their news, then seeds.
Fronts ==
    {S \in SUBSET Companies :
        Cardinality(S) = IF CalendarBudget < Cardinality(Companies)
                         THEN CalendarBudget ELSE Cardinality(Companies)}

CalendarTypeOK ==
    /\ front \in Fronts
    /\ dates \in [Companies -> 0..CalendarTtl \cup {NoDate}]
    /\ negative \in [Companies -> 0..NegativeTtl]
    /\ refused \in [Companies -> Nat]

CalendarInit ==
    /\ front \in Fronts
    /\ dates = [s \in Companies |-> NoDate]
    /\ negative = [s \in Companies |-> 0] /\ refused = negative

\* refresh fetches a date that is missing or too old, unless a negative stands.
Wanted(s) == dates[s] \in {NoDate, CalendarTtl}
Fetched == {s \in front : Wanted(s) /\ negative[s] = 0}

\* What a failed lookup leaves: half a TTL, of which this interval passes now.
AfterFailure(s) == NegativeTtl - 1
Forgetting(s) == IF negative[s] = 0 THEN 0 ELSE negative[s] - 1

\* A lookup that fails also removes the date the calendar had. `passed` are the dates
\* that lie behind the clock by now, which get() drops.
RefreshCalendar ==
    \E failed \in SUBSET Fetched, passed \in SUBSET Companies :
        /\ Delisted \cap Fetched \subseteq failed
        /\ dates' = [s \in Companies |->
                        IF s \in failed \cup passed THEN NoDate
                        ELSE IF s \in Fetched THEN 1
                        ELSE IF Wanted(s) THEN dates[s] ELSE dates[s] + 1]
        /\ negative' = [s \in Companies |->
                            IF s \in failed THEN AfterFailure(s) ELSE Forgetting(s)]
        /\ refused' = [s \in Companies |->
                            IF s \in Fetched THEN 0
                            ELSE IF s \in front /\ Wanted(s) THEN refused[s] + 1
                            ELSE refused[s]]
        /\ UNCHANGED front

\* The next universe has another order: a position was opened or closed, or news came.
Reorder == front' \in Fronts /\ UNCHANGED <<dates, negative, refused>>

\* The file holds both maps and is written in place: a crash may tear it.
RestartCalendar ==
    /\ dates' = [s \in Companies |-> NoDate]
    /\ negative' = [s \in Companies |-> 0] /\ refused' = negative'
    /\ UNCHANGED front

CalendarNext == RefreshCalendar \/ Reorder \/ RestartCalendar
CalendarSpec == CalendarInit /\ [][CalendarNext]_calendarVars

\* A company whose date is missing or too old is looked up before NegativeTtl refreshes
\* had it among the first symbols of the universe: a failure is held against it for half a
\* TTL and is not renewed by asking. That is all: a company that stays behind the first
\* CalendarBudget symbols is never looked up, however many refreshes there are
\* (EarningsCalendarCache.refresh, _refresh_earnings_calendar).
FrontIsLookedUp == \A s \in Companies : refused[s] < NegativeTtl
=============================================================================
