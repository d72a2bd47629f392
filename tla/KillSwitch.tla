----------------------------- MODULE KillSwitch -----------------------------
(***************************************************************************)
(* The daily-loss kill switch, src/strategy/kill_switch.py, over the life  *)
(* of the bot: cycles that check it and trade, midnights, the bot's own    *)
(* profits and losses and the user's, positions the broker closes, an      *)
(* operator who clears the halt, edits the limit or closes everything.     *)
(***************************************************************************)
EXTENDS Integers

CONSTANTS
    None,           \* no baseline, no day
    StartEquity,    \* of the account
    Stops,          \* values of daily_loss_stop_usd, 0 disables the switch
    MaxMove,        \* bound: profit or loss of the bot, and of the user
    MaxOpen,        \* bound: positions of the bot
    MaxActions,     \* bound: orders of the bot in a day
    MaxDay,         \* bound: midnights
    SwitchRegimes   \* sets of SwitchHazards, one of which holds for a behaviour

\* The user trades too; the portfolio cannot be read; the broker closes
\* positions by SL or TP; the operator clears the halt, edits the limit, or panics.
SwitchHazards == {"user", "fetch", "external", "unhalt", "edit", "panic"}

ASSUME SwitchBoundsAssumption ==
    /\ MaxMove \in Nat /\ MaxOpen \in Nat /\ MaxActions \in Nat /\ MaxDay \in Nat
    /\ StartEquity \in Nat /\ StartEquity > 2 * MaxMove
    /\ Stops \subseteq Nat
    /\ SwitchRegimes \subseteq SUBSET SwitchHazards
    /\ None \notin Int

Moves == -MaxMove..MaxMove
Equities == 0..(StartEquity + 2 * MaxMove)
Days == 0..MaxDay

VARIABLES
    regime,       \* what else can happen in this behaviour
    sw,           \* the fields of BotState the switch uses
    stop,         \* cfg.daily_loss_stop_usd
    today,        \* UTC day
    bot, user,    \* profit of the bot's and of the user's positions so far
    open,         \* positions the bot's orders opened, still open
    owned,        \* those of them in bot_owned_positions
    sent,         \* BUY orders not yet filled
    phase,        \* of the loop: away, checked
    lastHalted,   \* CycleRunner._last_halted
    reference,    \* history: bot at the first check of the day or after /unhalt
    alerted       \* history: the present halt was reported

world == <<today, bot, user, open, owned, sent>>
switchVars == <<regime, sw, stop, world, phase, lastHalted, reference, alerted>>

Fresh == [baseline |-> None, halted |-> FALSE, haltedDay |-> None, actions |-> 0,
          baselineDay |-> None]
\* Restored from a state file that has no baseline_day.
Legacy == [Fresh EXCEPT !.baseline = StartEquity, !.haltedDay = 0]

SwitchTypeOK ==
    /\ regime \in SwitchRegimes
    /\ sw \in [baseline : Equities \cup {None}, halted : BOOLEAN,
               haltedDay : Days \cup {None}, actions : 0..MaxActions,
               baselineDay : Days \cup {None}]
    /\ stop \in Stops /\ today \in Days
    /\ bot \in Moves /\ user \in Moves
    /\ open \in 0..MaxOpen /\ owned \in 0..open /\ sent \in 0..MaxOpen
    /\ phase \in {"away", "checked"}
    /\ lastHalted \in BOOLEAN /\ alerted \in BOOLEAN
    /\ reference \in Moves \cup {None}

SwitchInit ==
    /\ regime \in SwitchRegimes
    /\ sw \in {Fresh, Legacy}
    /\ stop \in Stops
    /\ today = 0 /\ bot = 0 /\ user = 0
    /\ open = 0 /\ owned = 0 /\ sent = 0
    /\ phase = "away" /\ lastHalted = FALSE
    /\ reference = None /\ alerted = FALSE

-----------------------------------------------------------------------------
(* update_and_check_kill_switch on the record s. *)

\* Mutant: only open positions count.
SkinnedByPositions(s, count) == count > 0

Skinned(s, count) == count > 0 \/ s.actions > 0

\* Mutant: the new day keeps the old baseline.
RolledKeeping(s, day, equity) ==
    IF s.haltedDay # day
    THEN [s EXCEPT !.halted = FALSE, !.haltedDay = day, !.actions = 0, !.baselineDay = day]
    ELSE s

\* A new UTC day resets the counters and the baseline.
Rolled(s, day, equity) ==
    IF s.haltedDay # day
    THEN [baseline |-> equity, halted |-> FALSE, haltedDay |-> day, actions |-> 0,
          baselineDay |-> day]
    ELSE IF s.baselineDay # day
         THEN [s EXCEPT !.baseline = equity, !.baselineDay = day]
         ELSE s

\* A halt on a day the bot did nothing is dropped.
Unstuck(s, equity, skin) ==
    IF s.halted /\ ~skin THEN [s EXCEPT !.halted = FALSE, !.baseline = equity] ELSE s

\* Mutant: the limit itself is let through.
MeasuredBeyond(s, equity, skin, day) ==
    IF s.halted THEN s
    ELSE IF s.baseline = None
         THEN [s EXCEPT !.baseline = equity, !.baselineDay = day]
    ELSE IF ~skin THEN [s EXCEPT !.baseline = equity]
    ELSE [s EXCEPT !.halted = s.baseline - equity > stop]

\* Mutant: the drawdown replaces the baseline.
MeasuredInPlace(s, equity, skin, day) ==
    IF s.halted THEN s
    ELSE IF s.baseline = None
         THEN [s EXCEPT !.baseline = equity, !.baselineDay = day]
    ELSE [s EXCEPT !.halted = skin /\ s.baseline - equity >= stop,
                   !.baseline = equity - @]

\* The drawdown since the baseline, when the bot can have caused it.
Measured(s, equity, skin, day) ==
    IF s.halted THEN s
    ELSE IF s.baseline = None
         THEN [s EXCEPT !.baseline = equity, !.baselineDay = day]
    ELSE IF ~skin THEN [s EXCEPT !.baseline = equity]
    ELSE [s EXCEPT !.halted = s.baseline - equity >= stop]

\* Skin is read before the roll: yesterday's orders count in its first check.
Checked(s, equity, count, day) ==
    LET skin == Skinned(s, count)
        rolled == Rolled(s, day, equity)
    IN IF stop = 0
       THEN [rolled EXCEPT !.halted = FALSE]
       ELSE Measured(Unstuck(rolled, equity, skin), equity, skin, day)

-----------------------------------------------------------------------------
(* The world. *)

Midnight ==
    /\ today < MaxDay
    /\ today' = today + 1
    /\ UNCHANGED <<regime, sw, stop, bot, user, open, owned, sent, phase, lastHalted,
                   reference, alerted>>

\* The bot's open positions gain or lose.
BotMove ==
    /\ open > 0
    /\ \E d \in {-1, 1} : bot + d \in Moves /\ bot' = bot + d
    /\ UNCHANGED <<regime, sw, stop, today, user, open, owned, sent, phase, lastHalted,
                   reference, alerted>>

UserMove ==
    /\ "user" \in regime
    /\ \E d \in {-1, 1} : user + d \in Moves /\ user' = user + d
    /\ UNCHANGED <<regime, sw, stop, today, bot, open, owned, sent, phase, lastHalted,
                   reference, alerted>>

\* A BUY order executes; the next cycle adopts its position before it checks.
Fill ==
    /\ sent > 0 /\ open < MaxOpen
    /\ sent' = sent - 1 /\ open' = open + 1 /\ owned' = owned + 1
    /\ UNCHANGED <<regime, sw, stop, today, bot, user, phase, lastHalted, reference,
                   alerted>>

\* A stop or a target closes a position; the next cycle sees that it is gone.
BrokerCloses ==
    /\ "external" \in regime
    /\ owned > 0
    /\ open' = open - 1 /\ owned' = owned - 1
    /\ UNCHANGED <<regime, sw, stop, today, bot, user, sent, phase, lastHalted,
                   reference, alerted>>

-----------------------------------------------------------------------------
(* A cycle: check, report, trade. *)

Edge == sw'.halted /\ ~lastHalted

\* The baseline is of a new day, or there was none.
Rebased(s, t) == t.baselineDay # s.baselineDay \/ (s.baseline = None /\ t.baseline # None)

CheckSwitch(failed) ==
    /\ phase = "away"
    /\ failed => "fetch" \in regime
    \* An unread portfolio is an empty one: no equity, and the bot's positions gone.
    /\ sw' = IF failed THEN Checked(sw, 0, 0, today)
             ELSE Checked(sw, StartEquity + bot + user, owned, today)
    /\ owned' = IF failed THEN 0 ELSE owned
    \* emit_kill_switch_if_changed
    /\ alerted' = (sw'.halted /\ (Edge \/ (alerted /\ sw'.haltedDay = sw.haltedDay)))
    /\ lastHalted' = sw'.halted
    /\ reference' = IF Rebased(sw, sw') THEN bot ELSE reference
    /\ phase' = "checked"
    /\ UNCHANGED <<regime, stop, today, bot, user, open, sent>>

Buy ==
    /\ phase = "checked" /\ ~sw.halted
    /\ sw.actions < MaxActions /\ open + sent < MaxOpen
    /\ sw' = [sw EXCEPT !.actions = @ + 1]
    /\ sent' = sent + 1
    /\ UNCHANGED <<regime, stop, today, bot, user, open, owned, phase, lastHalted,
                   reference, alerted>>

Close ==
    /\ phase = "checked" /\ owned > 0
    /\ sw.actions < MaxActions
    /\ sw' = [sw EXCEPT !.actions = @ + 1]
    /\ open' = open - 1 /\ owned' = owned - 1
    /\ UNCHANGED <<regime, stop, today, bot, user, sent, phase, lastHalted, reference,
                   alerted>>

EndCycle ==
    /\ phase = "checked"
    /\ phase' = "away"
    /\ UNCHANGED <<regime, sw, stop, world, lastHalted, reference, alerted>>

-----------------------------------------------------------------------------
(* The operator, between cycles. *)

\* Mutant: the halt is cleared and the baseline kept.
UnhaltInPlace ==
    /\ "unhalt" \in regime /\ phase = "away"
    /\ sw' = [sw EXCEPT !.halted = FALSE]
    /\ alerted' = FALSE
    /\ reference' = None
    /\ UNCHANGED <<regime, stop, world, phase, lastHalted>>

Unhalt ==
    /\ "unhalt" \in regime /\ phase = "away"
    /\ sw' = [sw EXCEPT !.halted = FALSE, !.baseline = None]
    /\ alerted' = FALSE
    /\ reference' = None
    /\ UNCHANGED <<regime, stop, world, phase, lastHalted>>

EditStop ==
    /\ "edit" \in regime /\ phase = "away"
    /\ stop' \in Stops \ {stop}
    /\ UNCHANGED <<regime, sw, world, phase, lastHalted, reference, alerted>>

\* panic_close_all, under the lock: every position it targets is disowned, also one
\* whose close fails, and none counts as an action of the day. Those of scope
\* "bot_owned" that no cycle has adopted yet stay, to be adopted.
Panic ==
    /\ "panic" \in regime /\ phase = "away"
    /\ \E left \in 0..owned : owned' = left /\ open' \in left..open
    /\ UNCHANGED <<regime, sw, stop, today, bot, user, sent, phase, lastHalted, reference,
                   alerted>>

SwitchNext ==
    \/ Midnight \/ BotMove \/ UserMove \/ Fill \/ BrokerCloses
    \/ \E failed \in BOOLEAN : CheckSwitch(failed)
    \/ Buy \/ Close \/ EndCycle
    \/ Unhalt \/ EditStop \/ Panic

SwitchSpec == SwitchInit /\ [][SwitchNext]_switchVars

-----------------------------------------------------------------------------
(* Properties. *)

\* The bot's positions go by its own orders only: no read fails, no stop or target
\* closes one, no /panic disowns one.
OwnOrdersClose == regime \cap {"fetch", "external", "panic"} = {}

\* And all of the account's moves are the bot's.
BotAlone == OwnOrdersClose /\ "user" \notin regime

\* The switch works: when a check ends and the bot has lost the limit since the
\* first check of the day (or since the operator cleared a halt), the bot is
\* halted. The baseline moves whenever the bot has no positions and no orders
\* today, and the roll forgets yesterday's orders; no loss may slip through that.
LossStopsTheDay ==
    [][/\ BotAlone /\ phase = "away" /\ phase' = "checked"
       /\ stop > 0 /\ reference' # None /\ reference' - bot >= stop
       => sw'.halted]_switchVars

\* And only then: a check that halts the bot found that the bot's own positions
\* lost the limit since the reference, a loss of yesterday is never counted again.
HaltIsEarned ==
    [][BotAlone /\ ~sw.halted /\ sw'.halted
       => reference' # None /\ reference' - bot' >= stop]_switchVars

\* As long as the bot's positions go by its own orders only, a halt ends at a UTC
\* midnight, by /unhalt, or by an operator who disables the switch: the rule that
\* drops a halt of an idle bot never drops one the bot earned today, whatever the
\* user's positions do. A failed read, a stop or target that fires, and /panic take
\* the positions away without an action of the day, and the next check of a bot
\* without orders today then drops the halt.
HaltIsKept ==
    [][OwnOrdersClose /\ sw.halted /\ ~sw'.halted
       => sw'.haltedDay # sw.haltedDay \/ stop = 0 \/ sw'.baseline = None]_switchVars

\* Every halt is reported once it holds: the edge detector's memory is never
\* left at "halted" by an earlier halt that ended between two checks.
HaltIsAlerted == phase = "checked" /\ sw.halted => alerted

\* Expected to fail. A halt lasts until the day changes, the operator clears it
\* or the switch is off ("cleared on next UTC day").
HaltIsAlwaysKept ==
    [][sw.halted /\ ~sw'.halted
       => sw'.haltedDay # sw.haltedDay \/ stop = 0 \/ sw'.baseline = None]_switchVars

\* Expected to fail. Losses of the user's own positions never halt the bot.
UserLossNeverHalts ==
    [][~sw.halted /\ sw'.halted => reference' # None /\ reference' > bot']_switchVars
=============================================================================
