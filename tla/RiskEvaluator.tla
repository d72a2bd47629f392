--------------------------- MODULE RiskEvaluator ---------------------------
(***************************************************************************)
(* The risk evaluator, src/strategy/risk.py, and what its verdicts become: *)
(* in every cycle the loop of RiskEvaluator.evaluate judges the requests   *)
(* one by one against the snapshot the cycle read, the executor sends the  *)
(* approved ones, and the broker fills them, at once or after a while.     *)
(* KillSwitch is its first step (here: the BOOLEAN it returns), a request  *)
(* to close is judged in OrderLifecycle (here: a position goes away).      *)
(***************************************************************************)
EXTENDS Integers, FiniteSets, Sums

CONSTANTS
    Slots,               \* for the bot's orders and positions
    Instruments,
    Never,               \* no action on the instrument yet; no instrument
    Amounts,             \* requested, after _build_buy
    Manual,              \* invested by the user
    MaxPerTrade, MaxParallelTrades, MaxBotInvested, MinAmend, Cooldown,   \* GuardrailsConfig
    AccountCaps,         \* values of the directive max_total_account_invested_usd
    MaxClock,            \* bound on time
    Fills                \* subset of {"prompt", "late"}

ASSUME GuardrailsAssumption ==
    /\ Manual \in Nat /\ MaxPerTrade \in Nat \ {0} /\ MaxParallelTrades \in Nat
    /\ MaxBotInvested \in Nat /\ MinAmend \in Nat /\ Cooldown \in Nat
    /\ AccountCaps \subseteq Nat /\ Amounts \subseteq Int
    /\ MaxClock \in Nat /\ Never \notin Nat
    /\ IsFiniteSet(Slots)
    /\ Fills \subseteq {"prompt", "late"}

VARIABLES
    fills,       \* prompt: orders of a cycle are positions before the next one
    clock,       \* time.monotonic, in units of which Cooldown are the cooldown
    lastAction,  \* BotState.last_action_per_instrument
    slot,        \* [at |-> free, approved, sent or open, on |-> instrument, usd |-> amount]
    stage,       \* of the loop: idle, evaluate, execute
    seen,        \* what evaluate is told: [count, invested, account, cap, kill]
    newOpen,     \* new_open_count
    committed,   \* invested_this_cycle
    touched,     \* history: when the broker last accepted an order on the instrument
    thisCycle    \* history: instruments with an order accepted in this cycle

riskVars == <<fills, clock, lastAction, slot, stage, seen, newOpen, committed, touched,
              thisCycle>>

At(where) == {s \in Slots : slot[s].at = where}
TotalIn(ss) == SumOver([s \in Slots |-> slot[s].usd], ss)
Free == [at |-> "free", on |-> Never, usd |-> 0]
Taken == [at : {"approved", "sent", "open"}, on : Instruments, usd : Nat]
NothingSeen == [count |-> 0, invested |-> 0, account |-> 0, cap |-> 0, kill |-> TRUE]

RiskTypeOK ==
    /\ fills \in Fills
    /\ clock \in 0..MaxClock
    /\ lastAction \in [Instruments -> 0..MaxClock \cup {Never}]
    /\ slot \in [Slots -> {Free} \cup Taken]
    /\ stage \in {"idle", "evaluate", "execute"}
    /\ seen \in [count : Nat, invested : Nat, account : Nat, cap : Nat, kill : BOOLEAN]
    /\ newOpen \in Nat /\ committed \in Nat
    /\ touched \in [Instruments -> 0..MaxClock \cup {Never}]
    /\ thisCycle \in SUBSET Instruments

RiskInit ==
    /\ fills \in Fills
    /\ clock = 0
    /\ lastAction = [i \in Instruments |-> Never]
    /\ slot = [s \in Slots |-> Free]
    /\ stage = "idle"
    /\ seen = NothingSeen
    /\ newOpen = 0 /\ committed = 0
    /\ touched = [i \in Instruments |-> Never] /\ thisCycle = {}

-----------------------------------------------------------------------------
(* The caps. *)

\* What a cap (0: none) leaves of an amount; 0 if that is nothing or too little.
Capped(amount, cap, already) ==
    IF cap = 0 \/ amount <= cap - already THEN amount
    ELSE IF cap - already > 0 /\ cap - already >= MinAmend THEN cap - already ELSE 0

\* Mutant: the amendment counts from the snapshot, not from this cycle's approvals.
ApprovedAmountOfSnapshot(asked) ==
    LET perTrade == IF asked > MaxPerTrade THEN MaxPerTrade ELSE asked
        budgeted == Capped(perTrade, MaxBotInvested, seen.invested)
    IN Capped(budgeted, seen.cap, seen.account)

\* The amount a BUY is approved for, 0 when it is denied.
ApprovedAmount(asked) ==
    LET perTrade == IF asked > MaxPerTrade THEN MaxPerTrade ELSE asked
        budgeted == Capped(perTrade, MaxBotInvested, seen.invested + committed)
    IN Capped(budgeted, seen.cap, seen.account + committed)

\* _cooldown_remaining is positive.
Cooling(i) == lastAction[i] # Never /\ clock - lastAction[i] < Cooldown

-----------------------------------------------------------------------------
(* A cycle. *)

\* The snapshot: the bot's positions, and everything of the account that is
\* invested, its open orders too.
BeginEvaluation(kill, cap) ==
    /\ stage = "idle"
    /\ fills = "prompt" => At("sent") = {}
    /\ seen' = [count |-> Cardinality(At("open")), invested |-> TotalIn(At("open")),
                account |-> Manual + TotalIn(At("open") \cup At("sent")),
                cap |-> cap, kill |-> kill]
    /\ newOpen' = 0 /\ committed' = 0
    /\ stage' = "evaluate"
    /\ UNCHANGED <<fills, clock, lastAction, slot, touched, thisCycle>>

\* Mutant: the approvals of this cycle are not counted.
BuyAllowedBySnapshot(i, asked) ==
    ~seen.kill /\ seen.count < MaxParallelTrades /\ ~Cooling(i) /\ asked > 0

\* The vetoes of _evaluate_buy, in terms of what it is told; a symbol that a
\* directive blocks is as good as not requested.
BuyAllowed(i, asked) ==
    ~seen.kill /\ seen.count + newOpen < MaxParallelTrades /\ ~Cooling(i) /\ asked > 0

ApproveBuy(i, asked) ==
    /\ stage = "evaluate"
    /\ BuyAllowed(i, asked) /\ ApprovedAmount(asked) > 0
    /\ \E s \in At("free") :
           slot' = [slot EXCEPT ![s] = [at |-> "approved", on |-> i,
                                        usd |-> ApprovedAmount(asked)]]
    /\ newOpen' = newOpen + 1
    /\ committed' = committed + ApprovedAmount(asked)
    /\ UNCHANGED <<fills, clock, lastAction, stage, seen, touched, thisCycle>>

\* Denied requests change nothing; the last request ends the loop.
EndEvaluation ==
    /\ stage = "evaluate"
    /\ stage' = "execute"
    /\ UNCHANGED <<fills, clock, lastAction, slot, seen, newOpen, committed, touched,
                   thisCycle>>

Accepted(i) ==
    /\ lastAction' = [lastAction EXCEPT ![i] = clock]      \* mark_action
    /\ touched' = [touched EXCEPT ![i] = clock]
    /\ thisCycle' = thisCycle \cup {i}

\* TradeExecutor._open: the order is accepted.
SendBuy(s) ==
    /\ stage = "execute" /\ slot[s].at = "approved"
    /\ slot' = [slot EXCEPT ![s].at = "sent"]
    /\ Accepted(slot[s].on)
    /\ UNCHANGED <<fills, clock, stage, seen, newOpen, committed>>

\* _open: no live rate, or the broker refuses.
BuyFails(s) ==
    /\ stage = "execute" /\ slot[s].at = "approved"
    /\ slot' = [slot EXCEPT ![s] = Free]
    /\ UNCHANGED <<fills, clock, lastAction, stage, seen, newOpen, committed, touched,
                   thisCycle>>

\* Mutant: a close does not start the cooldown.
SendCloseUnmarked(s) ==
    /\ stage = "execute" /\ slot[s].at = "open"
    /\ slot' = [slot EXCEPT ![s] = Free]
    /\ touched' = [touched EXCEPT ![slot[s].on] = clock]
    /\ thisCycle' = thisCycle \cup {slot[s].on}
    /\ UNCHANGED <<fills, clock, lastAction, stage, seen, newOpen, committed>>

\* Mutant: the amount of the closed position is credited to the cycle.
SendCloseCredited(s) ==
    /\ stage = "execute" /\ slot[s].at = "open"
    /\ slot' = [slot EXCEPT ![s] = Free]
    /\ Accepted(slot[s].on)
    /\ committed' = committed - slot[s].usd
    /\ UNCHANGED <<fills, clock, stage, seen, newOpen>>

\* TradeExecutor._close of a whole position.
SendClose(s) ==
    /\ stage = "execute" /\ slot[s].at = "open"
    /\ slot' = [slot EXCEPT ![s] = Free]
    /\ Accepted(slot[s].on)
    /\ UNCHANGED <<fills, clock, stage, seen, newOpen, committed>>

EndExecution ==
    /\ stage = "execute" /\ At("approved") = {}
    /\ stage' = "idle"
    /\ seen' = NothingSeen /\ newOpen' = 0 /\ committed' = 0 /\ thisCycle' = {}
    /\ UNCHANGED <<fills, clock, lastAction, slot, touched>>

-----------------------------------------------------------------------------
(* Time and the broker. *)

Tick ==
    /\ clock < MaxClock
    /\ clock' = clock + 1
    /\ UNCHANGED <<fills, lastAction, slot, stage, seen, newOpen, committed, touched,
                   thisCycle>>

Executed(s) ==
    /\ slot[s].at = "sent"
    /\ slot' = [slot EXCEPT ![s].at = "open"]
    /\ UNCHANGED <<fills, clock, lastAction, stage, seen, newOpen, committed, touched,
                   thisCycle>>

\* A stop, a target or the user closes the position.
Vanishes(s) ==
    /\ slot[s].at = "open"
    /\ slot' = [slot EXCEPT ![s] = Free]
    /\ UNCHANGED <<fills, clock, lastAction, stage, seen, newOpen, committed, touched,
                   thisCycle>>

RiskNext ==
    \/ \E kill \in BOOLEAN, cap \in AccountCaps : BeginEvaluation(kill, cap)
    \/ \E i \in Instruments, asked \in Amounts : ApproveBuy(i, asked)
    \/ EndEvaluation
    \/ \E s \in Slots : SendBuy(s) \/ BuyFails(s) \/ SendClose(s) \/ Executed(s) \/ Vanishes(s)
    \/ EndExecution
    \/ Tick

RiskSpec == RiskInit /\ [][RiskNext]_riskVars

-----------------------------------------------------------------------------
(* Properties. *)

\* However many BUYs a cycle approves, and however they are amended, together with
\* what the cycle saw they respect every limit: the bot's budget, the operator's
\* ceiling on the whole account, the number of parallel trades.
CapsKept ==
    newOpen > 0 =>
        /\ MaxBotInvested > 0 => seen.invested + committed <= MaxBotInvested
        /\ seen.cap > 0 => seen.account + committed <= seen.cap
        /\ seen.count + newOpen <= MaxParallelTrades

\* No order is for more than the per-trade limit, and one that a cap shrank is still
\* worth sending: an amount nobody asked for is no smaller than the amend floor.
AmountsSane ==
    \A s \in Slots \ At("free") :
        /\ 0 < slot[s].usd /\ slot[s].usd <= MaxPerTrade
        /\ slot[s].usd \in Amounts \cup {MaxPerTrade} \/ slot[s].usd >= MinAmend

\* What a cycle approves and sends stays within the guardrails.
OrdersWithinLimits == CapsKept /\ AmountsSane

\* With orders that fill before the next cycle, the limits hold of what is really
\* invested at any time and not only of what a cycle saw.
ExposureKept ==
    fills = "prompt" =>
        /\ Cardinality(Slots \ At("free")) <= MaxParallelTrades
        /\ MaxBotInvested > 0 => TotalIn(Slots \ At("free")) <= MaxBotInvested

\* Two accepted orders of different cycles on one instrument, the second of them a
\* BUY, are a cooldown apart. (A close is never delayed, and within one cycle the
\* evaluator cannot see what the executor will mark.)
CooldownKept ==
    [][\A s \in Slots :
           slot[s].at = "approved" /\ slot'[s].at = "sent"
           => LET i == slot[s].on
              IN i \in thisCycle \/ touched[i] = Never \/ clock - touched[i] >= Cooldown]_riskVars
=============================================================================
