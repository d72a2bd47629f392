---------------------------- MODULE MCBackground ----------------------------
(* What a cycle works with and reports to: the market data, the tools, the    *)
(* Telegram service, its alerts and commands, the performance ledger, the     *)
(* usage of the LLM, the watch list and its caches, the trading hours. In     *)
(* each behaviour one of them moves; the others stay in one of their first    *)
(* states.                                                                    *)
EXTENDS MarketData, ToolStack, TelegramService, OperatorCommands, PerformanceLedger,
        UsageTracker, Watchlist, FundamentalsCache, EarningsCalendar, ExchangeSession

VARIABLE focus

\* A toggle of the menu, and an update the service has no parser for.
TheMessages == {
    [kind |-> "toggle", chat |-> 1, type |-> "trade"],
    [kind |-> "other", chat |-> 2, type |-> "none"]}

\* /resume, /panic, a directive and a guardrail.
Cmd(setting, choice, panics) == [setting |-> setting, choice |-> choice, panics |-> panics]
TheCommands == {
    Cmd("paused", "off", FALSE), Cmd("paused", "on", TRUE),
    Cmd("directive", "on", FALSE), Cmd("guardrail", "on", FALSE)}
ThePnls == {-1, 2}

\* Offsets before and after the clocks change, in half hours, and when they do: New
\* York and London go forward, Sydney back, Tokyo never changes.
Nyse == [before |-> -10, after |-> -8, shift |-> 302, open |-> 19, close |-> 32]
Lse == [before |-> 0, after |-> 2, shift |-> 290, open |-> 16, close |-> 33]
Tse == [before |-> 18, after |-> 18, shift |-> 0, open |-> 18, close |-> 31]
Asx == [before |-> 22, after |-> 20, shift |-> 272, open |-> 20, close |-> 32]
TheExchanges == {Nyse, Lse, Tse, Asx}

TheUniverses == {{1, 2, 3}, {2, 3}}
TheLadder == <<3, 2>>

\* The default order of these tools; a tool without a rank has 99, and its name.
TheTools == {"market_hours", "rsi", "obv", "earnings_proximity"}
ThePriority == [
    trending |-> [obv |-> 6, earnings_proximity |-> 99, market_hours |-> 100, rsi |-> 101],
    ranging |-> [rsi |-> 0, market_hours |-> 6, earnings_proximity |-> 99, obv |-> 100]]
TheAssets == {[crypto |-> FALSE, volume |-> TRUE], [crypto |-> TRUE, volume |-> FALSE]}

MCInit ==
    /\ focus \in {"market", "tools", "telegram", "commands", "ledger", "usage", "watch",
                 "caches", "calendar", "session"}
    /\ MarketInit /\ StackInit /\ TelegramInit /\ CommandsInit /\ LedgerInit
    /\ UsageInit /\ WatchInit /\ CacheInit /\ CalendarInit /\ SessionInit
    /\ focus # "market" => limit = 0
    /\ focus # "session" => clock = 0
    /\ focus # "watch" => held = {} /\ uptime = 0
    /\ focus # "calendar" => front = CHOOSE first \in Fronts : TRUE

MCNext ==
    \/ focus = "market" /\ MarketNext /\ UNCHANGED
        <<focus, stackVars, telegramVars, commandVars, ledgerVars,
          usageVars, watchVars, cacheVars, calendarVars, clock>>
    \/ focus = "tools" /\ StackNext /\ UNCHANGED
        <<focus, marketVars, telegramVars, commandVars, ledgerVars,
          usageVars, watchVars, cacheVars, calendarVars, clock>>
    \/ focus = "telegram" /\ TelegramNext /\ UNCHANGED
        <<focus, marketVars, stackVars, commandVars, ledgerVars,
          usageVars, watchVars, cacheVars, calendarVars, clock>>
    \/ focus = "commands" /\ CommandsNext /\ UNCHANGED
        <<focus, marketVars, stackVars, telegramVars, ledgerVars,
          usageVars, watchVars, cacheVars, calendarVars, clock>>
    \/ focus = "ledger" /\ LedgerNext /\ UNCHANGED
        <<focus, marketVars, stackVars, telegramVars, commandVars,
          usageVars, watchVars, cacheVars, calendarVars, clock>>
    \/ focus = "usage" /\ UsageNext /\ UNCHANGED
        <<focus, marketVars, stackVars, telegramVars, commandVars,
          ledgerVars, watchVars, cacheVars, calendarVars, clock>>
    \/ focus = "watch" /\ WatchNext /\ UNCHANGED
        <<focus, marketVars, stackVars, telegramVars, commandVars,
          ledgerVars, usageVars, cacheVars, calendarVars, clock>>
    \/ focus = "caches" /\ CacheNext /\ UNCHANGED
        <<focus, marketVars, stackVars, telegramVars, commandVars,
          ledgerVars, usageVars, watchVars, calendarVars, clock>>
    \/ focus = "calendar" /\ CalendarNext /\ UNCHANGED
        <<focus, marketVars, stackVars, telegramVars, commandVars,
          ledgerVars, usageVars, watchVars, cacheVars, clock>>
    \/ focus = "session" /\ SessionNext /\ UNCHANGED
        <<focus, marketVars, stackVars, telegramVars, commandVars,
          ledgerVars, usageVars, watchVars, cacheVars, calendarVars>>

MCSpec ==
    MCInit /\ [][MCNext]_<<focus, marketVars, stackVars, telegramVars, commandVars,
                           ledgerVars, usageVars, watchVars, cacheVars, calendarVars, clock>>

\* At most three alerts and updates together; no command twice, and a guardrail, which is
\* stored apart from the others, with one other at most. When the operator doubts every
\* command, or no day has all its writes, nothing is left to judge.
FewEvents ==
    /\ emitted + Len(posted) <= 3
    /\ \A m, n \in DOMAIN asked : m # n => asked[m].cmd # asked[n].cmd
    /\ (\E n \in DOMAIN asked : asked[n].cmd.setting = "guardrail") => Len(asked) <= 2
    /\ Cardinality(doubtful) < MaxCommands
    /\ failed # Days

\* Nothing tells one trade from another.
TradeSymmetry == Permutations(Trades)

\* The state spaces are well formed: queues and flight hold alerts that were emitted,
\* what is confirmed was posted, rows are of days that have come, ages and waits stay
\* within their limits.
TypesOK ==
    /\ focus = "market" => MarketTypeOK
    /\ focus = "tools" => StackTypeOK
    /\ focus = "telegram" => TelegramTypeOK
    /\ focus = "commands" => CommandsTypeOK
    /\ focus = "ledger" => LedgerTypeOK
    /\ focus = "usage" => UsageTypeOK
    /\ focus = "watch" => WatchTypeOK
    /\ focus = "caches" => CacheTypeOK
    /\ focus = "calendar" => CalendarTypeOK
    /\ focus = "session" => SessionTypeOK

\* What opens and closes when is said by the exchanges' own clocks (only a behaviour in
\* which the clock moves is worth the comparison).
SessionsExact == focus = "session" => SessionExact

\* What the operator asks for reaches the bot and stands there: no update is confirmed to
\* Telegram before it was dispatched, and no command that was answered is undone by a
\* slower one or a restart, unless its own save failed or the save of a cycle that had
\* read the setting before was written after.
CommandsReachTheBot == NoCommandLost /\ ConfirmedStands

\* The providers are asked for what they can serve, as far as the budgets reach: a symbol
\* waits for its fundamentals no longer than the calm symbols need to have their turns with
\* what the restless ones leave, and a company among the first of the universe for its
\* earnings date no longer than half a TTL.
ServableIsFetched == FundamentalsServed /\ FrontIsLookedUp
=============================================================================
