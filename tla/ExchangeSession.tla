--------------------------- MODULE ExchangeSession ---------------------------
(* When an instrument's market is open, asked in UTC of exchanges that live in *)
(* other time zones and change their clocks: the lookups behind the gate on   *)
(* buys, the flatten of no_overnight and the cancelling of stuck orders. Time *)
(* is in slots of half an hour from a Monday 00:00 UTC.                       *)
EXTENDS Integers, FiniteSetsExt

CONSTANTS
    Exchanges,      \* the schedules: [before, after, shift, open, close]
    Default,        \* that of NYSE, for an instrument without metadata
    FlattenWindow,  \* no_overnight's window before the close
    Grace,          \* grace_seconds_after_open of a pending order
    Horizon         \* bound of the exploration

Slots == 48                     \* a day
Week == -1..(Horizon \div Slots) + 4      \* the days the sessions are taken from

\* A schedule is [before, after: the offset to UTC until and from `shift`,
\* open, close: slots of the local day].
ASSUME SessionAssumption ==
    /\ Default \in Exchanges /\ Horizon \in Nat
    /\ FlattenWindow \in Nat /\ Grace \in Nat
    /\ \A x \in Exchanges : 0 <= x.open /\ x.open < x.close /\ x.close < Slots

VARIABLE clock

SessionTypeOK == clock \in 0..Horizon

SessionInit == clock \in 0..Horizon
Tick == clock < Horizon /\ clock' = clock + 1
SessionNext == Tick
SessionSpec == SessionInit /\ [][SessionNext]_clock

-----------------------------------------------------------------------------
Weekday(d) == (d % 7) < 5

\* The clocks of the registered exchanges: at most a day from UTC, and changed, if at
\* all, on a day without a session (all of them on a Sunday).
ASSUME ClockAssumption ==
    \A x \in Exchanges :
        /\ x.open \in Int /\ x.close \in Int /\ x.shift \in Int
        /\ x.before \in -Slots..Slots /\ x.after \in -Slots..Slots
        /\ \/ x.before = x.after
           \/ /\ (x.shift + x.before) \div Slots = (x.shift + x.after) \div Slots
              /\ ~Weekday((x.shift + x.before) \div Slots)

Local(x, u) == u + (IF u < x.shift THEN x.before ELSE x.after)
Utc(x, l) == IF l - x.before < x.shift THEN l - x.before ELSE l - x.after
DayInUtc(x, u) == u \div Slots      \* mutant
LocalDay(x, u) == Local(x, u) \div Slots

\* _window: the session of the local calendar day of now.
OpenOn(x, d) == Utc(x, d * Slots + x.open)
CloseOn(x, d) == Utc(x, d * Slots + x.close)

IsOpen(x, u) ==
    LET d == LocalDay(x, u) IN Weekday(d) /\ OpenOn(x, d) <= u /\ u < CloseOn(x, d)

SecondsSinceOpen(x, u) == u - OpenOn(x, LocalDay(x, u))

\* _next_open: today's opening if it is still to come, else tomorrow's, and from there
\* past the weekend.
NextOpen(x, u) ==
    LET today == LocalDay(x, u)
        from == IF OpenOn(x, today) <= u THEN today + 1 ELSE today
    IN OpenOn(x, CHOOSE d \in from..from + 2 :
                    Weekday(d) /\ \A e \in from..d - 1 : ~Weekday(e))

\* FX: the weekdays of UTC, opening at midnight.
FxOpen(u) == Weekday(u \div Slots)
FxNextOpen(u) == ((u \div Slots) + 7 - ((u \div Slots) % 7)) * Slots

\* _position_needs_flatten. Crypto never does; FX only when it is closed.
NeedsFlatten(x, u) ==
    \/ ~IsOpen(x, u)
    \/ CloseOn(x, LocalDay(x, u)) - u <= FlattenWindow

\* _eligible: the monitor asks without metadata, so every equity order is judged by
\* the hours of the Default.
StuckEligible(waited, u) ==
    waited >= Grace /\ IsOpen(Default, u) /\ SecondsSinceOpen(Default, u) >= Grace

-----------------------------------------------------------------------------
\* The sessions themselves: one per local weekday.
Sessions(x) == {[open |-> OpenOn(x, d), close |-> CloseOn(x, d)] : d \in {w \in Week : Weekday(w)}}
Past(x) == {s.open : s \in {t \in Sessions(x) : t.open <= clock}}
InSession(x, u) == {s \in Sessions(x) : s.open <= u /\ u < s.close}

\* At any time, also when the local day is not the UTC day and across a change of the
\* clocks, the lookups tell of the session of a local weekday: it is open in it, it
\* opened when it says, the next opening is the first one to come, a position is
\* flattened exactly outside the part of it that no_overnight allows, and an order on
\* the default exchange is not cancelled before it had the grace in session.
SessionExact ==
    /\ \A x \in Exchanges :
        /\ IsOpen(x, clock) <=> InSession(x, clock) # {}
        /\ \A s \in InSession(x, clock) :
            /\ SecondsSinceOpen(x, clock) = clock - s.open
            /\ NeedsFlatten(x, clock) <=> s.close - clock <= FlattenWindow
        /\ ~IsOpen(x, clock) =>
            /\ NeedsFlatten(x, clock)
            /\ NextOpen(x, clock) = Min({s.open : s \in Sessions(x)} \ Past(x))
    /\ ~FxOpen(clock) => FxOpen(FxNextOpen(clock)) /\ ~FxOpen(FxNextOpen(clock) - 1)
    /\ StuckEligible(Grace, clock) =>
        \E s \in InSession(Default, clock) : clock - s.open >= Grace
=============================================================================
