---------------------------- MODULE MCDecisions ----------------------------
(* What the bot decides, and what it decides by: the decision of a cycle, the *)
(* stop bands and the configuration, checked side by side. In each behaviour  *)
(* one of them moves and the others stay in one of their first states.        *)
EXTENDS DecisionCycle, DynamicStops, ConfigStore

VARIABLE focus

\* Two positions on a stock, one on a crypto instrument.
TheHoldings == {"p1", "p2", "p3"}
TheInstOf == [p \in TheHoldings |-> IF p = "p3" THEN "btc" ELSE "acme"]
Entry(act, i, name, pid, part) ==
    [action |-> act, inst |-> i, name |-> name, pid |-> pid, part |-> part]
TheEntries == {
    Entry("BUY", "acme", "acme", "none", "whole"),
    Entry("BUY", "btc", "acme", "none", "whole"),       \* under another's name
    Entry("CLOSE", "acme", "acme", "none", "whole"),    \* without a positionId
    Entry("CLOSE", "acme", "acme", "p1", "part"),
    Entry("CLOSE", "btc", "btc", "p1", "whole"),        \* a position of the other instrument
    Entry("CLOSE", "btc", "btc", "p3", "bad"),
    Entry("MODIFY_STOPS", "acme", "acme", "p2", "whole")}
TheEdits ==
    {[field |-> "blocked", value |-> v] : v \in {{}, {"acme"}}}
    \cup {[field |-> "barred", value |-> v] : v \in {{}, {"btc"}}}
    \cup {[field |-> "closing", value |-> v] : v \in {{}, Kinds}}
TheSituations == {{},
    {<<"no_overnight", p>> : p \in TheHoldings},
    {<<"hold_ceiling_minutes", "p1">>, <<"hold_ceiling_minutes", "p3">>}}

TheMoves == {-3, 0, 3}

Strength == <<"strategy", "min_signal_strength">>
Period == <<"strategy", "rsi_period">>
Limit == <<"guardrails", "max_per_trade_usd">>
TheSettings == {Strength, Period, Limit}
TheTunable == {Strength, Period}
TheGuarded == {Limit}
Set(s, v) == [setting |-> s, value |-> v]
TheTuneRequests == {
    <<Set(Strength, 1)>>, <<Set(Strength, 2)>>,
    <<Set(Strength, 1), Set(Strength, 2)>>,             \* one setting twice
    <<Set(Strength, 2), Set(Period, 1)>>,
    <<Set(Limit, 2), Set(Period, 2)>>}                  \* one outside the whitelist

MCInit ==
    /\ focus \in {"decision", "stops", "config"}
    /\ DecisionInit /\ StopsInit /\ ConfigInit
    /\ focus # "config" => \A s \in Settings : toml[s] = 1

MCNext ==
    \/ focus = "decision" /\ DecisionNext /\ UNCHANGED <<focus, stopVars, configVars>>
    \/ focus = "stops" /\ StopsNext /\ UNCHANGED <<focus, decisionVars, configVars>>
    \/ focus = "config" /\ ConfigNext /\ UNCHANGED <<focus, decisionVars, stopVars>>

MCSpec ==
    /\ MCInit /\ [][MCNext]_<<focus, decisionVars, stopVars, configVars>>
    /\ DecisionFairness

\* The period is only tuned; the two other settings are also edited in the file.
PeriodInFile == toml[Period] = 1

\* The state spaces are well formed: what a directive closes and what is approved are
\* owned and requested, bands and settings are values that a start can read back.
TypesOK ==
    /\ focus = "decision" => DecisionTypeOK
    /\ focus = "stops" => StopsTypeOK
    /\ focus = "config" => ConfigTypeOK
=============================================================================
