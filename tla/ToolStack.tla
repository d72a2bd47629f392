----------------------------- MODULE ToolStack -----------------------------
(***************************************************************************)
(* The tool stack that judges every candidate of a cycle:                  *)
(* src/strategy/tool_orchestration.py drives one evaluation per candidate, *)
(* tools/selector.py chooses the tools within a budget, tools/runner.py    *)
(* runs them until the first veto, and strategy/performance.py keeps the   *)
(* rolling hit rate by which the next selection demotes a tool.            *)
(*                                                                         *)
(* What a tool computes is an input here: a gate passes, vetoes or raises, *)
(* a scoring tool is bullish (1), neutral (0) or bearish (-1).             *)
(***************************************************************************)
EXTENDS Integers, Sequences, FiniteSets, SequencesExt

CONSTANTS
    Tools,        \* names in the registry
    Gates,        \* tools with role gate or both
    Scorers,      \* tools that emit a score
    Always,       \* ToolSelectorConfig.always_include
    VolumeTools,  \* tools with requires_volume
    EquityTools,  \* tools that do not apply to crypto
    Regimes,      \* labels of detect_instrument_regime
    Priority,     \* [Regimes -> [Tools -> Nat]], ties broken by name
    Assets,       \* the candidates' [crypto, volume]
    Quoted,       \* instruments
    StackBudget,  \* max_tools_per_cycle
    MinObs,       \* min_observations
    MinHitPct,    \* min_hit_rate in percent
    Window,       \* rolling_window of the performance log
    Prices,       \* closing prices
    MaxCycle      \* bound: cycles

ASSUME ToolsAssumption ==
    /\ Gates \subseteq Tools /\ Scorers \subseteq Tools /\ Always \subseteq Tools
    /\ IsFiniteSet(Tools) /\ IsFiniteSet(Quoted)
ASSUME PriorityAssumption ==
    /\ Priority \in [Regimes -> [Tools -> Nat]]
    /\ \A r \in Regimes, t, u \in Tools : t # u => Priority[r][t] # Priority[r][u]
ASSUME StackBoundsAssumption ==
    /\ StackBudget \in Nat /\ MinObs \in Nat /\ MinHitPct \in Nat /\ Window \in Nat \ {0}
    /\ MaxCycle \in Nat \ {0} /\ Prices \subseteq Nat \ {0}

Cycles == 0..MaxCycle
Signs == {-1, 0, 1}
Says == {"pass", "veto", "raise"}
Score == [inst : Quoted, tool : Tools, sign : Signs]
NoPrice == 0
Raises == 2   \* in place of a sign: the tool raised and has no score

VARIABLES
    rolling,   \* ToolPerformanceLog._rolling: hits and misses of each tool
    logged,    \* the same outcomes as the JSONL file holds them
    scores,    \* _scores: what was scored, by cycle
    closes,    \* _closes: the closing prices, by cycle
    cycleIndex,
    evaluated, \* the instruments judged in the current evaluation
    verdict    \* the last candidate, what the tools had to say, and what came of it

stackVars == <<rolling, logged, scores, closes, cycleIndex, evaluated, verdict>>

NoVerdict == [act |-> "none", asset |-> "none", says |-> <<>>, ran |-> {}, passed |-> TRUE]
NoScores == [c \in Cycles |-> {}]
NoCloses == [c \in Cycles |-> [i \in Quoted |-> NoPrice]]

StackTypeOK ==
    /\ rolling \in [Tools -> Seq(BOOLEAN)] /\ logged \in [Tools -> Seq(BOOLEAN)]
    /\ \A t \in Tools : Len(rolling[t]) <= Window
    /\ scores \in [Cycles -> SUBSET Score]
    /\ closes \in [Cycles -> [Quoted -> Prices \cup {NoPrice}]]
    /\ cycleIndex \in Cycles
    /\ evaluated \subseteq Quoted
    /\ verdict.ran \subseteq Tools /\ verdict.passed \in BOOLEAN

StackInit ==
    /\ rolling = [t \in Tools |-> <<>>] /\ logged = rolling
    /\ scores = NoScores /\ closes = NoCloses
    /\ cycleIndex = 1 /\ evaluated = {} /\ verdict = NoVerdict

-----------------------------------------------------------------------------
(* Selection. *)

Hits(w) == Len(SelectSeq(w, LAMBDA hit : hit))

\* Below min_observations a tool has no hit rate and is not demoted.
BelowRate(w) ==
    /\ Len(w) >= MinObs
    /\ IF w = <<>> THEN MinHitPct > 0 ELSE 100 * Hits(w) < MinHitPct * Len(w)

Demoted(t) == t \notin Always /\ BelowRate(rolling[t])

Applies(t, asset) ==
    /\ asset.crypto => t \notin EquityTools
    /\ t \in VolumeTools => asset.volume

\* The sort key: tools of always_include first, then the priority of the regime.
Before(t, u, r) ==
    \/ t \in Always /\ u \notin Always
    \/ (t \in Always <=> u \in Always) /\ Priority[r][t] < Priority[r][u]

\* Mutants: the budget spares nobody, by rank alone; a demoted tool goes on running.
SelectedByRank(asset, r) ==
    LET eligible == {t \in Tools : Applies(t, asset) /\ ~Demoted(t)} IN
    {t \in eligible :
        Cardinality({u \in eligible : Priority[r][u] < Priority[r][t]}) < StackBudget}
SelectedDemotedToo(asset, r) ==
    LET eligible == {t \in Tools : Applies(t, asset)} IN
    {t \in eligible :
        t \in Always \/ Cardinality({u \in eligible : Before(u, t, r)}) < StackBudget}

\* A demoted tool takes no budget; always_include is exempt from demotion and budget.
Selected(asset, r) ==
    LET eligible == {t \in Tools : Applies(t, asset) /\ ~Demoted(t)} IN
    {t \in eligible :
        t \in Always \/ Cardinality({u \in eligible : Before(u, t, r)}) < StackBudget}

-----------------------------------------------------------------------------
(* Evaluation. *)

\* Gates look at BUY candidates only, and raising is not a veto.
Vetoing(ts, act, says) == {t \in ts \cap Gates : act = "BUY" /\ says[t] = "veto"}

\* The first veto ends the run.
Run(ts, r, act, says) ==
    {t \in ts : \A u \in Vetoing(ts, act, says) : ~Before(u, t, r)}

\* evaluate_candidates for one candidate: select, run, record the scores.
EvaluateCandidate(i, act, asset, r, says, sign) ==
    LET selected == Selected(asset, r)
        ran == Run(selected, r, act, says)
        scored == {t \in ran \cap Scorers : sign[t] # Raises} IN
    /\ i \notin evaluated
    /\ evaluated' = evaluated \cup {i}
    /\ verdict' = [act |-> act, asset |-> asset, says |-> says, ran |-> ran,
                   passed |-> Vetoing(selected, act, says) = {}]
    /\ scores' = [scores EXCEPT ![cycleIndex] =
                    @ \cup {[inst |-> i, tool |-> t, sign |-> sign[t]] : t \in scored}]
    /\ UNCHANGED <<rolling, logged, closes, cycleIndex>>

\* An outcome needs a close of both cycles; an unchanged price is a miss.
Outcomes(was, now) ==
    {s \in scores[cycleIndex - 1] : was[s.inst] # NoPrice /\ now[s.inst] # NoPrice}
Hit(s, was, now) ==
    \/ s.sign > 0 /\ now[s.inst] > was[s.inst]
    \/ s.sign < 0 /\ now[s.inst] < was[s.inst]

\* Mutant: a window without a length.
BumpUnbounded(w, hit) == Append(w, hit)

\* deque(maxlen = rolling_window): a full window forgets its oldest outcome.
Bump(w, hit) ==
    LET longer == Append(w, hit) IN
    IF Len(longer) > Window THEN Tail(longer) ELSE longer

\* A tool scored on several instruments gets their outcomes in one fixed order.
Bumped(w, outcomes, t, was, now) ==
    LET mine == SetToSeq({s \in outcomes : s.tool = t}) IN
    FoldLeft(LAMBDA acc, s : Bump(acc, Hit(s, was, now)), w, mine)

\* settle drops the buckets of the last two cycles; older ones stay.
Forget(f, c, empty) == [k \in Cycles |-> IF k \in {c - 1, c - 2} THEN empty ELSE f[k]]

\* Once the candidates are judged: record_close for all instruments with candles,
\* settle the scores of the cycle before. The file may refuse the append.
Settle(now, written) ==
    LET was == closes[cycleIndex - 1]
        outcomes == Outcomes(was, now) IN
    /\ evaluated # {} /\ cycleIndex < MaxCycle
    /\ \A i \in evaluated : now[i] # NoPrice
    /\ rolling' = [t \in Tools |-> Bumped(rolling[t], outcomes, t, was, now)]
    /\ logged' = IF written
                 THEN [t \in Tools |-> Bumped(logged[t], outcomes, t, was, now)]
                 ELSE logged
    /\ scores' = Forget(scores, cycleIndex, {})
    /\ closes' = Forget([closes EXCEPT ![cycleIndex] = now], cycleIndex,
                        [i \in Quoted |-> NoPrice])
    /\ evaluated' = {} /\ cycleIndex' = cycleIndex + 1
    /\ verdict' = NoVerdict

\* A cycle without candidates does not call the stack: nothing is settled.
SkipCycle ==
    /\ evaluated = {} /\ cycleIndex < MaxCycle
    /\ cycleIndex' = cycleIndex + 1
    /\ UNCHANGED <<rolling, logged, scores, closes, evaluated, verdict>>

\* A new process reads the windows back from the file; pending scores are lost.
RestartStack ==
    /\ rolling' = logged
    /\ scores' = NoScores /\ closes' = NoCloses
    /\ evaluated' = {} /\ verdict' = NoVerdict
    /\ UNCHANGED <<logged, cycleIndex>>

StackNext ==
    \/ \E i \in Quoted, act \in {"BUY", "CLOSE"}, asset \in Assets, r \in Regimes,
          says \in [Gates -> Says], sign \in [Scorers -> Signs \cup {Raises}] :
            EvaluateCandidate(i, act, asset, r, says, sign)
    \/ \E now \in [Quoted -> Prices \cup {NoPrice}], written \in BOOLEAN : Settle(now, written)
    \/ SkipCycle
    \/ RestartStack

-----------------------------------------------------------------------------
(* Properties. *)

SaidVeto(gates) ==
    /\ verdict.act = "BUY"
    /\ \E g \in gates : Applies(g, verdict.asset) /\ verdict.says[g] = "veto"

\* Whatever the hit rates, the budget and the failures of other tools: a BUY that one
\* of the gates in always_include objects to is vetoed (ToolSelector, ToolRunner).
AlwaysGatesDecide == SaidVeto(Gates \cap Always) => ~verdict.passed

Outstanding(t) == \E c \in {cycleIndex - 1, cycleIndex} : \E s \in scores[c] : s.tool = t

\* Demotion feeds on itself: a tool demoted in memory and in the file, with no score
\* waiting for its outcome, is never run again, so it has no new outcomes, so nothing,
\* not even a restart, brings it back (ToolSelector.select, ToolPerformanceLog).
OutForGood(t) == Demoted(t) /\ BelowRate(logged[t]) /\ ~Outstanding(t)
DemotionIsFinal == [][\A t \in Tools : OutForGood(t) => OutForGood(t)']_stackVars

StackSpec == StackInit /\ [][StackNext]_stackVars
=============================================================================
