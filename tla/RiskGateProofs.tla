--------------------------- MODULE RiskGateProofs ---------------------------
(***************************************************************************)
(* What stands between a decision and the broker. First the kill switch,   *)
(* for every limit, every history of profits and losses and any number of  *)
(* days and orders; then the risk evaluator, for every guardrail and       *)
(* directive, any number of requests and any amounts; then the two of      *)
(* MCRiskGate together.                                                    *)
(***************************************************************************)
EXTENDS MCRiskGate, SumProofs

Record == [baseline : Equities \cup {None}, halted : BOOLEAN,
           haltedDay : Days \cup {None}, actions : 0..MaxActions,
           baselineDay : Days \cup {None}]

\* The check keeps the record a record, whatever equity and positions it is told
\* (update_and_check_kill_switch).
LEMMA CheckedType ==
    ASSUME stop \in Stops, NEW s \in Record, NEW equity \in Equities, NEW count \in Nat,
           NEW day \in Days
    PROVE  Checked(s, equity, count, day) \in Record
<1> DEFINE skin == Skinned(s, count)
           rolled == Rolled(s, day, equity)
           unstuck == Unstuck(rolled, equity, skin)
<1>1. skin \in BOOLEAN
    <2>1. (count > 0) \in BOOLEAN /\ (s.actions > 0) \in BOOLEAN
        OBVIOUS
    <2> QED BY <2>1 DEF Skinned
<1>2. rolled \in Record
    <2>1. 0 \in 0..MaxActions
        BY SwitchBoundsAssumption
    <2> QED BY <2>1 DEF Rolled, Record
<1>3. unstuck \in Record
    <2> HIDE DEF skin, rolled
    <2> QED BY <1>1, <1>2 DEF Unstuck, Record
<1>4. Measured(unstuck, equity, skin, day) \in Record
    <2> DEFINE lost == unstuck.baseline - equity >= stop
    <2>1. lost \in BOOLEAN
        OBVIOUS
    <2>2. Measured(unstuck, equity, skin, day)
            \in {unstuck, [unstuck EXCEPT !.baseline = equity, !.baselineDay = day],
                [unstuck EXCEPT !.baseline = equity], [unstuck EXCEPT !.halted = lost]}
        <3> HIDE DEF unstuck, skin
        <3> QED BY DEF Measured
    <2> HIDE DEF unstuck, lost
    <2> QED BY <1>3, <2>1, <2>2 DEF Record
<1>5. [rolled EXCEPT !.halted = FALSE] \in Record
    <2> HIDE DEF rolled
    <2> QED BY <1>2 DEF Record
<1> QED
    BY <1>4, <1>5 DEF Checked

LEMMA SwitchTypeInit == SwitchInit => SwitchTypeOK
<1> SUFFICES ASSUME SwitchInit PROVE SwitchTypeOK
    OBVIOUS
<1>1. /\ StartEquity \in Equities /\ 0 \in Days /\ 0 \in Moves
      /\ 0 \in 0..MaxActions /\ 0 \in 0..MaxOpen /\ 0 \in 0..0
    BY SwitchBoundsAssumption DEF Equities, Days, Moves
<1>2. Fresh \in Record
    BY <1>1 DEF Fresh, Record
<1>3. Legacy \in Record
    BY <1>1, <1>2 DEF Legacy, Record
<1>4. sw \in Record
    BY <1>2, <1>3 DEF SwitchInit
<1> QED
    BY <1>1, <1>4 DEF SwitchInit, SwitchTypeOK, Record

LEMMA SwitchTypeNext == SwitchTypeOK /\ [SwitchNext]_switchVars => SwitchTypeOK'
<1> SUFFICES ASSUME SwitchTypeOK, [SwitchNext]_switchVars PROVE SwitchTypeOK'
    OBVIOUS
<1> USE DEF SwitchTypeOK
<1>a. /\ MaxMove \in Nat /\ MaxOpen \in Nat /\ MaxActions \in Nat /\ MaxDay \in Nat
      /\ StartEquity \in Nat /\ StartEquity > 2 * MaxMove
    BY SwitchBoundsAssumption
<1>1. CASE Midnight
    BY <1>1, <1>a DEF Midnight, Days
<1>2. CASE BotMove
    BY <1>2 DEF BotMove
<1>3. CASE UserMove
    BY <1>3 DEF UserMove
<1>4. CASE Fill
    BY <1>4, <1>a DEF Fill
<1>5. CASE BrokerCloses
    BY <1>5, <1>a DEF BrokerCloses
<1>6. ASSUME NEW failed \in BOOLEAN, CheckSwitch(failed)
      PROVE  SwitchTypeOK'
    <2>1. sw \in Record
        BY DEF Record
    <2>2. StartEquity + bot + user \in Equities
        BY <1>a DEF Equities, Moves
    <2>3. 0 \in Equities
        BY <1>a DEF Equities
    <2>4. owned \in Nat
        BY <1>a
    <2>5. sw' \in Record
        <3>1. CASE failed
            BY <1>6, <2>1, <2>3, <3>1, CheckedType DEF CheckSwitch
        <3>2. CASE ~failed
            BY <1>6, <2>1, <2>2, <2>4, <3>2, CheckedType DEF CheckSwitch
        <3> QED
            BY <3>1, <3>2
    <2>6. sw'.halted \in BOOLEAN
        BY <2>5 DEF Record
    <2>7. lastHalted' \in BOOLEAN
        BY <1>6, <2>6 DEF CheckSwitch
    <2>8. alerted' \in BOOLEAN
        BY <1>6 DEF CheckSwitch
    <2>9. owned' \in 0..open'
        BY <1>6, <1>a DEF CheckSwitch
    <2>10. reference' \in Moves \cup {None}
        BY <1>6 DEF CheckSwitch
    <2> QED
        BY <1>6, <2>5, <2>7, <2>8, <2>9, <2>10 DEF CheckSwitch, Record
<1>7. CASE Buy
    <2>1. sw'.actions \in 0..MaxActions /\ sent' \in 0..MaxOpen
        BY <1>7, <1>a DEF Buy
    <2> QED
        BY <1>7, <1>a, <2>1 DEF Buy
<1>8. CASE Close
    BY <1>8, <1>a DEF Close
<1>9. CASE EndCycle
    BY <1>9 DEF EndCycle, world
<1>10. CASE Unhalt
    BY <1>10 DEF Unhalt, world
<1>11. CASE EditStop
    BY <1>11 DEF EditStop, world
<1>12. CASE Panic
    <2>1. PICK left \in 0..owned : owned' = left /\ open' \in left..open
        BY <1>12 DEF Panic
    <2>2. open' \in 0..MaxOpen /\ owned' \in 0..open'
        BY <1>a, <2>1
    <2> QED
        BY <1>12, <2>2 DEF Panic
<1>13. CASE UNCHANGED switchVars
    BY <1>13 DEF switchVars, world
<1> QED
    BY <1>1, <1>2, <1>3, <1>4, <1>5, <1>6, <1>7, <1>8, <1>9, <1>10, <1>11, <1>12, <1>13
    DEF SwitchNext

\* In every behaviour the switch's fields have their types: the baseline is an
\* equity the account really had, or missing (BotState).
THEOREM SwitchTypeCorrect == SwitchSpec => []SwitchTypeOK
<1>1. SwitchInit => SwitchTypeOK
    BY SwitchTypeInit
<1>2. SwitchTypeOK /\ [SwitchNext]_switchVars => SwitchTypeOK'
    BY SwitchTypeNext
<1> QED
    BY <1>1, <1>2, PTL DEF SwitchSpec

-----------------------------------------------------------------------------

\* A check that ends halted is of an enabled switch and of a day already begun, and
\* the bot was halted or had a baseline and something at stake.
LEMMA CheckedHalts ==
    ASSUME stop \in Nat, NEW s \in Record, NEW equity \in Equities, NEW count \in Nat,
           NEW day \in Days, Checked(s, equity, count, day).halted
    PROVE  /\ stop # 0
           /\ s.haltedDay = day
           /\ Checked(s, equity, count, day).actions = s.actions
           /\ s.halted \/ (Skinned(s, count) /\ s.baseline # None)
<1> DEFINE skin == Skinned(s, count)
           rolled == Rolled(s, day, equity)
           unstuck == Unstuck(rolled, equity, skin)
           measured == Measured(unstuck, equity, skin, day)
<1>1. equity \in Int /\ equity # None
    BY SwitchBoundsAssumption DEF Equities
<1>2. stop # 0
    <2>1. rolled \in Record
        <3>1. 0 \in 0..MaxActions
            BY SwitchBoundsAssumption
        <3> QED BY <3>1 DEF Rolled, Record
    <2> HIDE DEF rolled
    <2> QED BY <2>1 DEF Checked, Record
<1>3. Checked(s, equity, count, day) = measured
    BY <1>2 DEF Checked
<1>4. ASSUME NEW t \in Record, ~t.halted, t.baseline = equity
      PROVE  ~Measured(t, equity, skin, day).halted
    <2>1. ~(t.baseline - equity >= stop)
        BY <1>1, <1>2, <1>4
    <2> QED
        BY <1>1, <1>4, <2>1 DEF Measured, Record
<1>5. s.haltedDay = day
    <2> SUFFICES ASSUME s.haltedDay # day PROVE FALSE
        OBVIOUS
    <2>1. /\ rolled \in Record /\ ~rolled.halted /\ rolled.baseline = equity
        <3>1. 0 \in 0..MaxActions
            BY SwitchBoundsAssumption
        <3> QED BY <3>1 DEF Rolled, Record
    <2>2. unstuck = rolled
        <3> HIDE DEF rolled
        <3> QED BY <2>1 DEF Unstuck
    <2> HIDE DEF rolled, unstuck
    <2> QED
        BY <1>3, <1>4, <2>1, <2>2
<1>6. s.halted \/ (skin /\ s.baseline # None)
    <2> SUFFICES ASSUME ~s.halted, ~skin \/ s.baseline = None PROVE FALSE
        OBVIOUS
    <2>1. rolled \in Record /\ ~rolled.halted
        BY <1>5 DEF Rolled, Record
    <2>2. unstuck = rolled
        <3> HIDE DEF rolled
        <3> QED BY <2>1 DEF Unstuck
    <2>3. rolled.baseline \in {equity, s.baseline}
        BY <1>5 DEF Rolled, Record
    <2>4. CASE rolled.baseline = equity
        <3> HIDE DEF rolled, unstuck
        <3> QED BY <1>3, <1>4, <2>1, <2>2, <2>4
    <2>5. CASE rolled.baseline = s.baseline
        <3>1. ~Measured(rolled, equity, skin, day).halted
            <4> HIDE DEF rolled, skin
            <4> QED BY <2>1, <2>5 DEF Measured, Record
        <3> HIDE DEF rolled, unstuck
        <3> QED BY <1>3, <2>2, <3>1
    <2> QED
        BY <2>3, <2>4, <2>5
<1>7. measured.actions = s.actions
    <2>1. rolled \in Record /\ rolled.actions = s.actions
        BY <1>5 DEF Rolled, Record
    <2>2. unstuck \in Record /\ unstuck.actions = s.actions
        <3> HIDE DEF rolled, skin
        <3> QED BY <2>1 DEF Unstuck, Record
    <2> HIDE DEF rolled, skin, unstuck
    <2> QED
        BY <2>2 DEF Measured, Record
<1> QED
    BY <1>2, <1>3, <1>5, <1>6, <1>7

\* A check of the same day keeps the halt of a bot with something at stake.
LEMMA CheckedKeeps ==
    ASSUME NEW s \in Record, NEW equity \in Equities, NEW count \in Nat, NEW day \in Days,
           s.halted, Skinned(s, count), s.haltedDay = day, stop # 0
    PROVE  Checked(s, equity, count, day).halted
<1> DEFINE rolled == Rolled(s, day, equity)
<1>1. rolled \in Record /\ rolled.halted
    BY DEF Rolled, Record
<1>2. Unstuck(rolled, equity, Skinned(s, count)) = rolled
    <2> HIDE DEF rolled
    <2> QED BY DEF Unstuck
<1>3. Measured(rolled, equity, Skinned(s, count), day) = rolled
    <2> HIDE DEF rolled
    <2> QED BY <1>1 DEF Measured
<1> HIDE DEF rolled
<1> QED
    BY <1>1, <1>2, <1>3 DEF Checked, rolled

\* The check's record is of its day.
LEMMA CheckedDay ==
    ASSUME NEW s \in Record, NEW equity \in Equities, NEW count \in Nat, NEW day \in Days
    PROVE  Checked(s, equity, count, day).haltedDay = day
<1> DEFINE skin == Skinned(s, count)
           rolled == Rolled(s, day, equity)
           unstuck == Unstuck(rolled, equity, skin)
<1>1. rolled \in Record /\ rolled.haltedDay = day
    <2>1. 0 \in 0..MaxActions
        BY SwitchBoundsAssumption
    <2> QED BY <2>1 DEF Rolled, Record
<1>2. unstuck \in Record /\ unstuck.haltedDay = day
    <2> HIDE DEF rolled, skin
    <2> QED BY <1>1 DEF Unstuck, Record
<1>3. Measured(unstuck, equity, skin, day).haltedDay = day
    <2> HIDE DEF unstuck, skin
    <2> QED BY <1>2 DEF Measured, Record
<1>4. [rolled EXCEPT !.halted = FALSE].haltedDay = day
    <2> HIDE DEF rolled
    <2> QED BY <1>1 DEF Record
<1> HIDE DEF rolled, unstuck, skin
<1> QED
    BY <1>3, <1>4 DEF Checked, rolled, unstuck, skin

\* What a cycle's check computes from.
LEMMA CheckSwitchIs ==
    ASSUME SwitchTypeOK, NEW failed \in BOOLEAN, CheckSwitch(failed)
    PROVE  \E equity \in Equities, count \in Nat :
               /\ sw' = Checked(sw, equity, count, today)
               /\ "fetch" \notin regime => count = owned
<1>1. /\ MaxMove \in Nat /\ StartEquity \in Nat /\ StartEquity > 2 * MaxMove
      /\ MaxOpen \in Nat
    BY SwitchBoundsAssumption
<1>2. CASE failed
    <2>1. 0 \in Equities
        BY <1>1 DEF Equities
    <2> QED
        BY <1>2, <2>1 DEF CheckSwitch
<1>3. CASE ~failed
    <2>1. StartEquity + bot + user \in Equities
        BY <1>1 DEF SwitchTypeOK, Equities, Moves
    <2>2. owned \in Nat
        BY <1>1 DEF SwitchTypeOK
    <2> QED
        BY <1>3, <2>1, <2>2 DEF CheckSwitch
<1> QED
    BY <1>2, <1>3

\* The three parts of the switch that the other proofs read have their types.
LEMMA StopType == SwitchTypeOK => stop \in Nat /\ sw \in Record /\ today \in Days
BY SwitchBoundsAssumption DEF SwitchTypeOK, Record

-----------------------------------------------------------------------------

\* The edge detector remembers a halt that is over only until the next check, which
\* cannot halt because /unhalt left no baseline.
AlertInv ==
    /\ sw.halted => alerted
    /\ lastHalted /\ ~sw.halted => sw.baseline = None

\* Every step keeps a halt announced, and a cleared one without its baseline.
LEMMA AlertNext ==
    SwitchTypeOK /\ AlertInv /\ [SwitchNext]_switchVars => AlertInv'
<1> SUFFICES ASSUME SwitchTypeOK, AlertInv, [SwitchNext]_switchVars PROVE AlertInv'
    OBVIOUS
<1>1. ASSUME NEW failed \in BOOLEAN, CheckSwitch(failed)
      PROVE  AlertInv'
    <2>1. PICK equity \in Equities, count \in Nat : sw' = Checked(sw, equity, count, today)
        BY <1>1, CheckSwitchIs
    <2>2. sw'.haltedDay = today
        BY <2>1, CheckedDay, StopType
    <2>3. sw'.halted => /\ sw.haltedDay = today
                        /\ sw.halted \/ sw.baseline # None
        BY <2>1, CheckedHalts, StopType
    <2>4. lastHalted' = sw'.halted
        BY <1>1 DEF CheckSwitch
    <2>5. ASSUME sw'.halted PROVE alerted'
        <3>1. CASE lastHalted
            BY <1>1, <2>2, <2>3, <2>5, <3>1 DEF CheckSwitch, AlertInv
        <3>2. CASE ~lastHalted
            BY <1>1, <2>5, <3>2 DEF CheckSwitch, Edge
        <3> QED
            BY <3>1, <3>2
    <2> QED
        BY <2>4, <2>5 DEF AlertInv
<1>2. CASE Buy \/ Close
    <2>1. /\ sw'.halted = sw.halted /\ sw'.baseline = sw.baseline
          /\ UNCHANGED <<alerted, lastHalted>>
        BY <1>2, StopType DEF Buy, Close, Record
    <2> QED
        BY <2>1 DEF AlertInv
<1>3. CASE Unhalt
    <2>1. ~sw'.halted /\ sw'.baseline = None
        BY <1>3, StopType DEF Unhalt, Record
    <2> QED
        BY <2>1 DEF AlertInv
<1>4. CASE UNCHANGED <<sw, alerted, lastHalted>>
    BY <1>4 DEF AlertInv
<1>5. ASSUME Midnight \/ BotMove \/ UserMove \/ Fill \/ BrokerCloses \/ EndCycle
             \/ EditStop \/ Panic \/ UNCHANGED switchVars
      PROVE  UNCHANGED <<sw, alerted, lastHalted>>
    BY <1>5 DEF Midnight, BotMove, UserMove, Fill, BrokerCloses, EndCycle, EditStop,
                Panic, switchVars
<1> QED
    BY <1>1, <1>2, <1>3, <1>4, <1>5 DEF SwitchNext

\* Every halt is reported when its first check ends, whatever limits the operator
\* sets, however often the halt is cleared and whatever reads fail
\* (emit_kill_switch_if_changed).
THEOREM HaltsAreAlerted == SwitchSpec => []HaltIsAlerted
<1>1. SwitchInit => SwitchTypeOK /\ AlertInv
    <2>1. SwitchInit => AlertInv
        <3> SUFFICES ASSUME SwitchInit PROVE ~sw.halted /\ ~lastHalted
            BY DEF AlertInv
        <3>1. ~Fresh.halted /\ ~Legacy.halted
            BY DEF Fresh, Legacy
        <3> QED
            BY <3>1 DEF SwitchInit
    <2> QED
        BY <2>1, SwitchTypeInit
<1>2. SwitchTypeOK /\ AlertInv /\ [SwitchNext]_switchVars => (SwitchTypeOK /\ AlertInv)'
    BY SwitchTypeNext, AlertNext
<1>3. AlertInv => HaltIsAlerted
    BY DEF AlertInv, HaltIsAlerted
<1> QED
    BY <1>1, <1>2, <1>3, PTL DEF SwitchSpec

-----------------------------------------------------------------------------

\* While positions vanish only by the bot's own orders and every read succeeds, a
\* halted bot has a position or an order of the day.
HaltInv ==
    OwnOrdersClose /\ sw.halted => Skinned(sw, owned)

\* Every step keeps a halt the bot had a part in, by a position or by an action of the
\* day, while the bot's positions go by its own orders only.
LEMMA HaltNext ==
    SwitchTypeOK /\ HaltInv /\ [SwitchNext]_switchVars => HaltInv'
<1> SUFFICES ASSUME SwitchTypeOK, HaltInv, [SwitchNext]_switchVars,
                    OwnOrdersClose', sw'.halted
             PROVE  Skinned(sw', owned')
    BY DEF HaltInv
<1>0. regime' = regime /\ OwnOrdersClose
    BY DEF SwitchNext, switchVars, Midnight, BotMove, UserMove, Fill, BrokerCloses,
           CheckSwitch, Buy, Close, EndCycle, Unhalt, EditStop, Panic, OwnOrdersClose
<1>n. /\ owned \in Int /\ owned >= 0 /\ sw.actions \in Int /\ sw.actions >= 0
    BY SwitchBoundsAssumption DEF SwitchTypeOK
<1>1. ASSUME NEW failed \in BOOLEAN, CheckSwitch(failed)
      PROVE  Skinned(sw', owned')
    <2>1. PICK equity \in Equities, count \in Nat :
              /\ sw' = Checked(sw, equity, count, today)
              /\ count = owned
        BY <1>0, <1>1, CheckSwitchIs DEF OwnOrdersClose
    <2>2. /\ sw'.actions = sw.actions
          /\ sw.halted \/ Skinned(sw, owned)
        BY <2>1, CheckedHalts, StopType
    <2>3. owned' = owned
        BY <1>0, <1>1 DEF CheckSwitch, OwnOrdersClose
    <2>4. Skinned(sw, owned)
        BY <1>0, <2>2 DEF HaltInv
    <2> QED
        BY <2>2, <2>3, <2>4 DEF Skinned
<1>2. CASE Buy \/ Close
    <2>1. sw'.actions = sw.actions + 1
        BY <1>2, StopType DEF Buy, Close, Record
    <2>2. sw'.actions > 0
        BY <1>n, <2>1
    <2> QED
        BY <2>2 DEF Skinned
<1>3. CASE Unhalt
    BY <1>3, StopType DEF Unhalt, Record
<1>4. CASE Fill
    <2>1. owned' > 0
        BY <1>4, <1>n DEF Fill
    <2> QED
        BY <2>1 DEF Skinned
<1>5. ~BrokerCloses /\ ~Panic
    BY <1>0 DEF BrokerCloses, Panic, OwnOrdersClose
<1>6. CASE UNCHANGED <<sw, owned>>
    BY <1>0, <1>6 DEF HaltInv, Skinned
<1>7. ASSUME Midnight \/ BotMove \/ UserMove \/ EndCycle \/ EditStop \/ UNCHANGED switchVars
      PROVE  UNCHANGED <<sw, owned>>
    BY <1>7 DEF Midnight, BotMove, UserMove, EndCycle, EditStop, switchVars, world
<1> QED
    BY <1>1, <1>2, <1>3, <1>4, <1>5, <1>6, <1>7 DEF SwitchNext

\* A halt ends at a midnight, by /unhalt or with the switch off, as long as the bot's
\* positions go by its own orders only: without a failed read, a stop or target that
\* fires, or a /panic, each of which makes the code drop the halt of a bot that has
\* sent no order today (update_and_check_kill_switch, panic_close_all).
THEOREM HaltsAreKept == SwitchSpec => HaltIsKept
<1>1. SwitchInit => SwitchTypeOK /\ HaltInv
    <2>1. SwitchInit => HaltInv
        <3> SUFFICES ASSUME SwitchInit PROVE ~sw.halted
            BY DEF HaltInv
        <3>1. ~Fresh.halted /\ ~Legacy.halted
            BY DEF Fresh, Legacy
        <3> QED
            BY <3>1 DEF SwitchInit
    <2> QED
        BY <2>1, SwitchTypeInit
<1>2. SwitchTypeOK /\ HaltInv /\ [SwitchNext]_switchVars => (SwitchTypeOK /\ HaltInv)'
    BY SwitchTypeNext, HaltNext
<1>3. SwitchTypeOK /\ HaltInv /\ [SwitchNext]_switchVars
      => [OwnOrdersClose /\ sw.halted /\ ~sw'.halted
          => sw'.haltedDay # sw.haltedDay \/ stop = 0 \/ sw'.baseline = None]_switchVars
    <2> SUFFICES ASSUME SwitchTypeOK, HaltInv, SwitchNext,
                        OwnOrdersClose, sw.halted, ~sw'.halted,
                        sw'.haltedDay = sw.haltedDay, stop # 0
                 PROVE  sw'.baseline = None
        OBVIOUS
    <2>1. ASSUME NEW failed \in BOOLEAN, CheckSwitch(failed)
          PROVE  FALSE
        <3>1. PICK equity \in Equities, count \in Nat :
                  sw' = Checked(sw, equity, count, today) /\ count = owned
            BY <2>1, CheckSwitchIs DEF OwnOrdersClose
        <3>2. sw.haltedDay = today
            BY <3>1, CheckedDay, StopType
        <3>3. Skinned(sw, count)
            BY <3>1 DEF HaltInv
        <3> QED
            BY <3>1, <3>2, <3>3, CheckedKeeps, StopType
    <2>2. CASE Buy \/ Close
        BY <2>2, StopType DEF Buy, Close, Record
    <2>3. CASE Unhalt
        BY <2>3, StopType DEF Unhalt, Record
    <2>4. CASE Midnight \/ BotMove \/ UserMove \/ Fill \/ BrokerCloses \/ EndCycle
               \/ EditStop \/ Panic
        BY <2>4 DEF Midnight, BotMove, UserMove, Fill, BrokerCloses, EndCycle, EditStop,
               Panic
    <2> QED
        BY <2>1, <2>2, <2>3, <2>4 DEF SwitchNext
<1> QED
    BY <1>1, <1>2, <1>3, PTL DEF SwitchSpec, HaltIsKept

-----------------------------------------------------------------------------
(* The baseline and what it stands for. *)

\* A check of a new day, or of a record without a day, takes the equity as baseline.
LEMMA CheckedRebases ==
    ASSUME stop \in Nat, NEW s \in Record, NEW equity \in Equities, NEW count \in Nat,
           NEW day \in Days, s.haltedDay # day \/ s.baselineDay # day
    PROVE  /\ Checked(s, equity, count, day).baseline = equity
           /\ Checked(s, equity, count, day).baselineDay = day
<1> DEFINE skin == Skinned(s, count)
           rolled == Rolled(s, day, equity)
           unstuck == Unstuck(rolled, equity, skin)
<1>0. equity # None
    BY SwitchBoundsAssumption DEF Equities
<1>1. rolled \in Record /\ rolled.baseline = equity /\ rolled.baselineDay = day
    <2>1. 0 \in 0..MaxActions
        BY SwitchBoundsAssumption
    <2> QED BY <2>1 DEF Rolled, Record
<1>2. unstuck \in Record /\ unstuck.baseline = equity /\ unstuck.baselineDay = day
    <2> HIDE DEF rolled, skin
    <2> QED BY <1>1 DEF Unstuck, Record
<1>3. /\ Measured(unstuck, equity, skin, day).baseline = equity
      /\ Measured(unstuck, equity, skin, day).baselineDay = day
    <2> DEFINE lost == unstuck.baseline - equity >= stop
    <2>1. Measured(unstuck, equity, skin, day)
            \in {unstuck, [unstuck EXCEPT !.baseline = equity], [unstuck EXCEPT !.halted = lost]}
        <3> HIDE DEF unstuck, skin
        <3> QED BY <1>0, <1>2 DEF Measured
    <2> HIDE DEF unstuck, lost
    <2> QED BY <1>2, <2>1 DEF Record
<1>4. /\ [rolled EXCEPT !.halted = FALSE].baseline = equity
      /\ [rolled EXCEPT !.halted = FALSE].baselineDay = day
    <2> HIDE DEF rolled
    <2> QED BY <1>1 DEF Record
<1> HIDE DEF rolled, unstuck, skin
<1> QED
    BY <1>3, <1>4 DEF Checked, rolled, unstuck, skin

\* A later check of the day keeps a baseline of a bot with something at stake, and
\* halts it by the loss since.
LEMMA CheckedMeasures ==
    ASSUME stop \in Nat, NEW s \in Record, NEW equity \in Equities, NEW count \in Nat,
           NEW day \in Days, s.haltedDay = day, s.baselineDay = day
    PROVE  /\ Checked(s, equity, count, day).baselineDay = day
           /\ Checked(s, equity, count, day).actions = s.actions
           /\ \/ Checked(s, equity, count, day).baseline = s.baseline
              \/ /\ Checked(s, equity, count, day).baseline = equity
                 /\ s.baseline = None \/ ~Skinned(s, count)
           /\ stop # 0 /\ s.baseline = None => ~Checked(s, equity, count, day).halted \/ s.halted
           /\ stop # 0 /\ Skinned(s, count) /\ s.baseline # None /\ ~s.halted
              => Checked(s, equity, count, day).halted = (s.baseline - equity >= stop)
<1> DEFINE skin == Skinned(s, count)
           unstuck == Unstuck(s, equity, skin)
           lost == s.baseline - equity >= stop
<1>0. equity # None
    BY SwitchBoundsAssumption DEF Equities
<1>1. Rolled(s, day, equity) = s
    BY DEF Rolled
<1>2. CASE stop = 0
    <2>1. Checked(s, equity, count, day) = [s EXCEPT !.halted = FALSE]
        BY <1>1, <1>2 DEF Checked
    <2> QED
        BY <1>2, <2>1 DEF Record
<1>3. CASE stop # 0
    <2>1. Checked(s, equity, count, day) = Measured(unstuck, equity, skin, day)
        BY <1>1, <1>3 DEF Checked
    <2>2. CASE skin
        <3>1. unstuck = s
            BY <2>2 DEF Unstuck
        <3>2. Measured(s, equity, skin, day) =
                IF s.halted THEN s
                ELSE IF s.baseline = None
                     THEN [s EXCEPT !.baseline = equity, !.baselineDay = day]
                ELSE [s EXCEPT !.halted = lost]
            <4> HIDE DEF skin
            <4> QED BY <2>2 DEF Measured
        <3> HIDE DEF lost, unstuck
        <3>3. Checked(s, equity, count, day) =
                IF s.halted THEN s
                ELSE IF s.baseline = None
                     THEN [s EXCEPT !.baseline = equity, !.baselineDay = day]
                ELSE [s EXCEPT !.halted = lost]
            BY <2>1, <3>1, <3>2
        <3>4. CASE s.halted
            BY <3>3, <3>4
        <3>5. CASE ~s.halted /\ s.baseline = None
            BY <3>3, <3>5 DEF Record
        <3>6. CASE ~s.halted /\ s.baseline # None
            <4>1. Checked(s, equity, count, day) = [s EXCEPT !.halted = lost]
                BY <3>3, <3>6
            <4> QED
                BY <3>6, <4>1 DEF Record, lost
        <3> QED
            BY <3>4, <3>5, <3>6
    <2>3. CASE ~skin
        <3>1. \/ unstuck = s /\ ~s.halted
              \/ unstuck = [s EXCEPT !.halted = FALSE, !.baseline = equity]
            <4> HIDE DEF skin
            <4> QED BY <2>3 DEF Unstuck
        <3>2. unstuck \in Record /\ ~unstuck.halted
              /\ unstuck.actions = s.actions /\ unstuck.baselineDay = day
            <4> HIDE DEF unstuck
            <4> QED BY <3>1 DEF Record
        <3>3. Measured(unstuck, equity, skin, day) \in
                {[unstuck EXCEPT !.baseline = equity, !.baselineDay = day],
                 [unstuck EXCEPT !.baseline = equity]}
            <4> HIDE DEF unstuck, skin
            <4> QED BY <2>3, <3>2 DEF Measured
        <3> HIDE DEF unstuck
        <3>4. LET c == Measured(unstuck, equity, skin, day)
              IN c.baseline = equity /\ c.baselineDay = day /\ c.actions = s.actions
                 /\ ~c.halted
            <4> HIDE DEF skin
            <4> QED BY <3>2, <3>3 DEF Record
        <3> QED
            BY <2>1, <2>3, <3>4
    <2> QED
        BY <2>2, <2>3
<1> QED
    BY <1>2, <1>3

\* With no one else's money moving, the baseline is what the account was worth at the
\* reference, and the bot can have moved since only with something at stake.
EarnedInv ==
    BotAlone =>
        /\ owned = open /\ user = 0
        /\ sw.baselineDay \in {None, sw.haltedDay}
        /\ reference = None => sw.baselineDay = None \/ sw.baseline = None
        /\ reference # None =>
              /\ sw.baseline = StartEquity + reference
              /\ Skinned(sw, owned) \/ bot = reference

LEMMA EarnedInit == SwitchInit => EarnedInv
<1>1. Fresh.baselineDay = None /\ Legacy.baselineDay = None
    BY DEF Fresh, Legacy
<1> QED
    BY <1>1 DEF SwitchInit, EarnedInv

\* A check without failed reads sees the bot's profit and its positions.
LEMMA AloneSees ==
    ASSUME SwitchTypeOK, EarnedInv, BotAlone, NEW failed \in BOOLEAN, CheckSwitch(failed)
    PROVE  /\ StartEquity + bot \in Equities /\ owned \in Nat
           /\ sw' = Checked(sw, StartEquity + bot, owned, today)
           /\ UNCHANGED <<bot, user, open, owned, stop, regime>>
           /\ reference' = IF Rebased(sw, sw') THEN bot ELSE reference
           /\ bot \in Int /\ reference \in Int \cup {None}
<1>0. /\ MaxMove \in Nat /\ StartEquity \in Nat /\ StartEquity > 2 * MaxMove
      /\ MaxOpen \in Nat
    BY SwitchBoundsAssumption
<1>1. ~failed
    BY DEF CheckSwitch, BotAlone, OwnOrdersClose
<1>2. bot \in Int /\ bot >= -MaxMove /\ bot <= MaxMove
    BY <1>0 DEF SwitchTypeOK, Moves
<1>3. StartEquity + bot + user = StartEquity + bot
    BY <1>0, <1>2 DEF EarnedInv
<1>4. StartEquity + bot \in Equities
    BY <1>0, <1>2 DEF Equities
<1>5. reference \in Int \cup {None}
    BY <1>0 DEF SwitchTypeOK, Moves
<1>6. owned \in Nat
    BY <1>0 DEF SwitchTypeOK
<1> QED
    BY <1>1, <1>2, <1>3, <1>4, <1>5, <1>6 DEF CheckSwitch

\* While the bot trades alone, every step keeps the baseline the equity of its own
\* reference point.
LEMMA EarnedNext ==
    SwitchTypeOK /\ EarnedInv /\ [SwitchNext]_switchVars => EarnedInv'
<1> SUFFICES ASSUME SwitchTypeOK, EarnedInv, [SwitchNext]_switchVars, BotAlone'
             PROVE  EarnedInv'
    BY DEF EarnedInv
<1>0. regime' = regime /\ BotAlone
    BY DEF SwitchNext, switchVars, Midnight, BotMove, UserMove, Fill, BrokerCloses,
           CheckSwitch, Buy, Close, EndCycle, Unhalt, EditStop, Panic, BotAlone,
           OwnOrdersClose
<1>n. /\ owned \in Nat /\ open \in Nat /\ sw.actions \in Nat /\ None \notin Int
    BY SwitchBoundsAssumption DEF SwitchTypeOK
<1>1. ASSUME NEW failed \in BOOLEAN, CheckSwitch(failed)
      PROVE  EarnedInv'
    <2> DEFINE equity == StartEquity + bot
    <2>1. /\ equity \in Equities /\ equity # None
          /\ sw' = Checked(sw, equity, owned, today)
          /\ UNCHANGED <<bot, user, open, owned>>
          /\ reference' = IF Rebased(sw, sw') THEN bot ELSE reference
          /\ bot # None
        BY <1>0, <1>1, <1>n, AloneSees DEF Equities
    <2>2. sw'.haltedDay = today
        BY <2>1, <1>n, CheckedDay, StopType
    <2> HIDE DEF equity
    <2>3. CASE sw.haltedDay # today \/ sw.baselineDay # today
        <3>1. sw'.baseline = equity /\ sw'.baselineDay = today
            BY <1>n, <2>1, <2>3, CheckedRebases, StopType
        <3>2. sw.baselineDay # today
            <4>1. today # None
                BY SwitchBoundsAssumption DEF SwitchTypeOK, Days
            <4> QED
                BY <1>0, <2>3, <4>1 DEF EarnedInv
        <3>3. reference' = bot
            BY <2>1, <3>1, <3>2 DEF Rebased
        <3> QED
            BY <1>0, <2>1, <2>2, <3>1, <3>3 DEF EarnedInv, equity
    <2>4. CASE sw.haltedDay = today /\ sw.baselineDay = today
        <3>1. /\ sw'.baselineDay = today /\ sw'.actions = sw.actions
              /\ \/ sw'.baseline = sw.baseline
                 \/ sw'.baseline = equity /\ (sw.baseline = None \/ ~Skinned(sw, owned))
            BY <1>n, <2>1, <2>4, CheckedMeasures, StopType, SMTT(60)
        <3>2. Skinned(sw', owned') = Skinned(sw, owned)
            BY <2>1, <3>1 DEF Skinned
        <3>3. sw.baselineDay # None
            BY <2>4, SwitchBoundsAssumption DEF SwitchTypeOK, Days
        <3>4. CASE sw'.baseline = sw.baseline
            <4>1. reference' = reference
                BY <2>1, <2>4, <3>1, <3>4 DEF Rebased
            <4> QED
                BY <1>0, <2>1, <2>2, <3>1, <3>2, <3>3, <3>4, <4>1 DEF EarnedInv
        <3>5. CASE sw'.baseline = equity /\ sw.baseline = None
            <4>1. reference' = bot
                BY <2>1, <3>5 DEF Rebased
            <4> QED
                BY <1>0, <2>1, <2>2, <3>1, <3>5, <4>1 DEF EarnedInv, equity
        <3>6. CASE sw'.baseline = equity /\ sw.baseline # None /\ ~Skinned(sw, owned)
            <4>1. reference' = reference
                BY <2>1, <2>4, <3>1, <3>6 DEF Rebased
            <4>2. reference # None /\ bot = reference
                BY <1>0, <3>3, <3>6 DEF EarnedInv
            <4> QED
                BY <1>0, <2>1, <2>2, <3>1, <3>2, <3>6, <4>1, <4>2 DEF EarnedInv, equity
        <3> QED
            BY <3>1, <3>4, <3>5, <3>6
    <2> QED
        BY <2>3, <2>4
<1>2. CASE Buy \/ Close
    <2>1. /\ sw'.actions = sw.actions + 1 /\ sw'.baseline = sw.baseline
          /\ sw'.baselineDay = sw.baselineDay /\ sw'.haltedDay = sw.haltedDay
          /\ UNCHANGED <<bot, user, reference>>
        BY <1>2, StopType DEF Buy, Close, Record
    <2>2. sw'.actions > 0
        BY <1>n, <2>1
    <2>3. owned' = open'
        BY <1>0, <1>2 DEF Buy, Close, EarnedInv
    <2> QED
        BY <1>0, <2>1, <2>2, <2>3 DEF EarnedInv, Skinned
<1>3. CASE Unhalt
    <2>1. sw'.baseline = None /\ sw'.baselineDay = sw.baselineDay /\ sw'.haltedDay = sw.haltedDay
        BY <1>3, StopType DEF Unhalt, Record
    <2> QED
        BY <1>0, <1>3, <2>1 DEF Unhalt, EarnedInv, world
<1>4. CASE Fill \/ BotMove
    <2>1. owned' = open' /\ owned' > 0 /\ UNCHANGED <<sw, user, reference>>
        BY <1>0, <1>4, <1>n DEF Fill, BotMove, EarnedInv
    <2> QED
        BY <1>0, <2>1 DEF EarnedInv, Skinned
<1>5. ~BrokerCloses /\ ~UserMove /\ ~Panic
    BY <1>0 DEF BrokerCloses, UserMove, Panic, BotAlone, OwnOrdersClose
<1>6. CASE UNCHANGED <<sw, bot, user, open, owned, reference>>
    BY <1>0, <1>6 DEF EarnedInv, Skinned
<1>7. ASSUME Midnight \/ EndCycle \/ EditStop \/ UNCHANGED switchVars
      PROVE  UNCHANGED <<sw, bot, user, open, owned, reference>>
    BY <1>7 DEF Midnight, EndCycle, EditStop, switchVars, world
<1> QED
    BY <1>1, <1>2, <1>3, <1>4, <1>5, <1>6, <1>7 DEF SwitchNext

LEMMA Earned == SwitchSpec => [](SwitchTypeOK /\ EarnedInv)
<1>1. SwitchInit => SwitchTypeOK /\ EarnedInv
    BY SwitchTypeInit, EarnedInit
<1>2. SwitchTypeOK /\ EarnedInv /\ [SwitchNext]_switchVars => (SwitchTypeOK /\ EarnedInv)'
    BY SwitchTypeNext, EarnedNext
<1> QED
    BY <1>1, <1>2, PTL DEF SwitchSpec

\* A check that finds the bot's own loss since the reference at the limit halts it,
\* however the baseline moved before (update_and_check_kill_switch).
THEOREM LossesStopTheDay == SwitchSpec => LossStopsTheDay
<1>1. SwitchTypeOK /\ EarnedInv /\ [SwitchNext]_switchVars
      => [/\ BotAlone /\ phase = "away" /\ phase' = "checked"
          /\ stop > 0 /\ reference' # None /\ reference' - bot >= stop
          => sw'.halted]_switchVars
    <2> SUFFICES ASSUME SwitchTypeOK, EarnedInv, SwitchNext, BotAlone,
                        phase = "away", phase' = "checked", stop > 0, reference' # None,
                        reference' - bot >= stop
                 PROVE  sw'.halted
        OBVIOUS
    <2>a. /\ stop \in Nat /\ stop # 0 /\ sw \in Record /\ today \in Days /\ StartEquity \in Nat
        BY SwitchBoundsAssumption DEF SwitchTypeOK, Record
    <2>1. PICK failed \in BOOLEAN : CheckSwitch(failed)
        BY DEF SwitchNext, Midnight, BotMove, UserMove, Fill, BrokerCloses, Buy, Close,
               EndCycle, Unhalt, EditStop, Panic, world
    <2> DEFINE equity == StartEquity + bot
    <2>2. /\ equity \in Equities /\ owned \in Nat
          /\ sw' = Checked(sw, equity, owned, today)
          /\ reference' = IF Rebased(sw, sw') THEN bot ELSE reference
          /\ bot \in Int /\ reference \in Int \cup {None}
        BY <2>1, AloneSees
    <2>3. reference' # bot
        BY <2>a, <2>2
    <2>4. reference' = reference /\ ~Rebased(sw, sw')
        BY <2>2, <2>3
    <2>5. /\ sw.baseline = StartEquity + reference
          /\ Skinned(sw, owned)
          /\ sw.baselineDay \in {None, sw.haltedDay}
        BY <2>3, <2>4 DEF EarnedInv
    <2>6. equity = StartEquity + bot
        OBVIOUS
    <2> HIDE DEF equity
    <2>7. sw.baseline # None /\ today # None
        BY <2>2, <2>4, <2>5, <2>a, SwitchBoundsAssumption DEF Days
    <2>8. sw.haltedDay = today /\ sw.baselineDay = today
        <3> SUFFICES ASSUME sw.haltedDay # today \/ sw.baselineDay # today PROVE FALSE
            OBVIOUS
        <3>1. sw'.baselineDay = today
            BY <2>a, <2>2, CheckedRebases
        <3>2. sw.baselineDay # today
            BY <2>5, <2>7
        <3> QED
            BY <3>1, <3>2, <2>4 DEF Rebased
    <2>9. CASE sw.halted
        BY <2>a, <2>2, <2>5, <2>8, <2>9, CheckedKeeps
    <2>10. CASE ~sw.halted
        <3>1. sw'.halted = (sw.baseline - equity >= stop)
            BY <2>a, <2>2, <2>5, <2>7, <2>8, <2>10, CheckedMeasures, SMTT(60)
        <3>2. sw.baseline - equity >= stop
            <4>1. reference \in Int /\ reference - bot >= stop
                BY <2>2, <2>4
            <4> QED
                BY <4>1, <2>5, <2>6, <2>a, <2>2
        <3> QED
            BY <3>1, <3>2
    <2> QED
        BY <2>9, <2>10
<1> QED
    BY <1>1, Earned, PTL DEF LossStopsTheDay, SwitchSpec

\* A check of a new baseline does not halt a switch that was not halted.
LEMMA CheckedSpares ==
    ASSUME stop \in Nat, stop # 0, NEW s \in Record, NEW equity \in Equities,
           NEW count \in Nat, NEW day \in Days,
           ~s.halted, s.haltedDay # day \/ s.baselineDay # day
    PROVE  ~Checked(s, equity, count, day).halted
<1> DEFINE skin == Skinned(s, count)
           rolled == Rolled(s, day, equity)
<1>0. equity # None /\ equity \in Int
    BY SwitchBoundsAssumption DEF Equities
<1>1. rolled \in Record /\ rolled.baseline = equity /\ ~rolled.halted
    <2>1. 0 \in 0..MaxActions
        BY SwitchBoundsAssumption
    <2> QED BY <2>1 DEF Rolled, Record
<1>2. Checked(s, equity, count, day) = Measured(Unstuck(rolled, equity, skin), equity, skin, day)
    BY DEF Checked
<1> HIDE DEF rolled, skin
<1>3. Unstuck(rolled, equity, skin) = rolled
    BY <1>1 DEF Unstuck
<1>4. Measured(rolled, equity, skin, day)
        \in {[rolled EXCEPT !.baseline = equity],
             [rolled EXCEPT !.halted = (rolled.baseline - equity >= stop)]}
    BY <1>0, <1>1 DEF Measured
<1>5. ~(rolled.baseline - equity >= stop)
    BY <1>0, <1>1
<1> QED
    BY <1>1, <1>2, <1>3, <1>4, <1>5 DEF Record

\* A check that halts the bot found the loss of its own since the reference
\* (update_and_check_kill_switch): yesterday's losses and a fresh baseline never halt.
THEOREM HaltsAreEarned == SwitchSpec => HaltIsEarned
<1>1. SwitchTypeOK /\ EarnedInv /\ [SwitchNext]_switchVars
      => [BotAlone /\ ~sw.halted /\ sw'.halted
          => reference' # None /\ reference' - bot' >= stop]_switchVars
    <2> SUFFICES ASSUME SwitchTypeOK, EarnedInv, SwitchNext, BotAlone,
                        ~sw.halted, sw'.halted
                 PROVE  reference' # None /\ reference' - bot' >= stop
        BY DEF switchVars
    <2>a. /\ stop \in Nat /\ sw \in Record /\ today \in Days /\ StartEquity \in Nat
          /\ None \notin Int
        BY SwitchBoundsAssumption DEF SwitchTypeOK, Record
    <2>b. ~Buy /\ ~Close /\ ~Unhalt
        BY <2>a DEF Buy, Close, Unhalt, Record
    <2>1. PICK failed \in BOOLEAN : CheckSwitch(failed)
        BY <2>b DEF SwitchNext, Midnight, BotMove, UserMove, Fill, BrokerCloses,
               EndCycle, EditStop, Panic, world
    <2> DEFINE equity == StartEquity + bot
    <2>2. /\ equity \in Equities /\ owned \in Nat
          /\ sw' = Checked(sw, equity, owned, today) /\ bot' = bot
          /\ reference' = IF Rebased(sw, sw') THEN bot ELSE reference
          /\ bot \in Int /\ reference \in Int \cup {None}
        BY <2>1, AloneSees
    <2>3. equity = StartEquity + bot
        OBVIOUS
    <2> HIDE DEF equity
    <2>4. /\ Skinned(sw, owned) /\ stop # 0
        BY <2>a, <2>2, CheckedHalts
    <2>5. sw.haltedDay = today /\ sw.baselineDay = today
        BY <2>a, <2>2, <2>4, CheckedSpares
    <2>6. sw.baseline # None
        BY <2>a, <2>2, <2>4, <2>5, CheckedMeasures, SMTT(60)
    <2>7. today # None
        BY <2>a DEF Days
    <2>8. reference # None /\ sw.baseline = StartEquity + reference
        BY <2>5, <2>6, <2>7 DEF EarnedInv
    <2>9. sw'.baselineDay = today
        BY <2>a, <2>2, <2>5, CheckedMeasures, SMTT(60)
    <2>10. reference' = reference
        BY <2>2, <2>5, <2>6, <2>9 DEF Rebased
    <2>11. sw.baseline - equity >= stop
        <3> DEFINE c == Checked(sw, equity, owned, today)
        <3>1. owned \in Nat /\ equity \in Equities /\ stop \in Nat
              /\ sw \in Record /\ today \in Days
            BY <2>a, <2>2
        <3>2. stop # 0 /\ Skinned(sw, owned) /\ sw.baseline # None /\ ~sw.halted
              => c.halted = (sw.baseline - equity >= stop)
            BY <3>1, <2>5, CheckedMeasures, SMTT(60)
        <3>3. c = sw'
            BY <2>2
        <3> HIDE DEF c
        <3>4. c.halted
            BY <3>3
        <3> QED
            BY <3>2, <3>4, <2>4, <2>6
    <2>12. reference \in Int
        BY <2>2, <2>8
    <2>13. sw.baseline - equity = reference - bot
        BY <2>2, <2>3, <2>8, <2>12, <2>a
    <2> QED
        BY <2>2, <2>8, <2>10, <2>11, <2>13
<1> QED
    BY <1>1, Earned, PTL DEF HaltIsEarned, SwitchSpec

-----------------------------------------------------------------------------
(* The risk evaluator. *)

\* A cap lets through all of an amount, nothing, or the headroom when it is above
\* the floor; what it lets through fits under the cap (Capped, for
\* _apply_budget_cap and _apply_account_total_cap).
LEMMA CappedFits ==
    ASSUME NEW amount \in Nat, NEW cap \in Nat, NEW already \in Nat
    PROVE  /\ Capped(amount, cap, already) \in Nat
           /\ Capped(amount, cap, already) <= amount
           /\ cap > 0 /\ Capped(amount, cap, already) > 0
              => already + Capped(amount, cap, already) <= cap
           /\ \/ Capped(amount, cap, already) = amount
              \/ Capped(amount, cap, already) = 0
              \/ Capped(amount, cap, already) >= MinAmend
<1> MinAmend \in Nat
    BY GuardrailsAssumption
<1> QED
    BY SMT DEF Capped

\* The amount of an approval respects every limit on amounts (the clamps of
\* _evaluate_buy in their order).
LEMMA ApprovedAmountFits ==
    ASSUME RiskTypeOK, NEW asked \in Amounts, asked > 0, ApprovedAmount(asked) > 0
    PROVE  /\ ApprovedAmount(asked) \in Nat \ {0}
           /\ ApprovedAmount(asked) <= MaxPerTrade
           /\ ApprovedAmount(asked) \in Amounts \cup {MaxPerTrade}
              \/ ApprovedAmount(asked) >= MinAmend
           /\ MaxBotInvested > 0
              => seen.invested + committed + ApprovedAmount(asked) <= MaxBotInvested
           /\ seen.cap > 0 => seen.account + committed + ApprovedAmount(asked) <= seen.cap
<1> DEFINE perTrade == IF asked > MaxPerTrade THEN MaxPerTrade ELSE asked
           inBudget == seen.invested + committed
           inAccount == seen.account + committed
           budgeted == Capped(perTrade, MaxBotInvested, inBudget)
           final == Capped(budgeted, seen.cap, inAccount)
<1>1. /\ MaxPerTrade \in Nat /\ MinAmend \in Nat /\ MaxBotInvested \in Nat
      /\ Amounts \subseteq Int
    BY GuardrailsAssumption
<1>2. /\ perTrade \in Nat /\ perTrade <= MaxPerTrade
      /\ perTrade \in Amounts \cup {MaxPerTrade}
    BY <1>1
<1>3. inBudget \in Nat /\ inAccount \in Nat /\ seen.cap \in Nat
    BY DEF RiskTypeOK
<1>4. /\ budgeted \in Nat /\ budgeted <= perTrade
      /\ MaxBotInvested > 0 /\ budgeted > 0 => inBudget + budgeted <= MaxBotInvested
      /\ budgeted = perTrade \/ budgeted = 0 \/ budgeted >= MinAmend
    <2> HIDE DEF perTrade, inBudget
    <2> QED BY <1>1, <1>2, <1>3, CappedFits
<1>5. /\ final \in Nat /\ final <= budgeted
      /\ seen.cap > 0 /\ final > 0 => inAccount + final <= seen.cap
      /\ final = budgeted \/ final = 0 \/ final >= MinAmend
    <2> HIDE DEF budgeted, inAccount
    <2> QED BY <1>3, <1>4, CappedFits
<1>6. ApprovedAmount(asked) = final
    BY DEF ApprovedAmount
<1>7. final > 0
    BY <1>6
<1>8. MaxBotInvested > 0 => inBudget + final <= MaxBotInvested
    <2> HIDE DEF final, budgeted, inBudget, perTrade
    <2> QED BY <1>1, <1>3, <1>4, <1>5, <1>7
<1>9. /\ final \in Nat \ {0} /\ final <= MaxPerTrade
      /\ final \in Amounts \cup {MaxPerTrade} \/ final >= MinAmend
    <2> HIDE DEF final, budgeted, perTrade
    <2> QED BY <1>1, <1>2, <1>4, <1>5, <1>7
<1>10. seen.cap > 0 => inAccount + final <= seen.cap
    BY <1>5, <1>7
<1> HIDE DEF final
<1> QED
    BY <1>6, <1>8, <1>9, <1>10

-----------------------------------------------------------------------------

LEMMA RiskTypeInit == RiskInit => RiskTypeOK
BY GuardrailsAssumption DEF RiskInit, RiskTypeOK, Free, NothingSeen

\* The money in any set of slots is a number.
LEMMA TotalsAreNat == RiskTypeOK => \A ss \in SUBSET Slots : TotalIn(ss) \in Nat
<1> SUFFICES ASSUME RiskTypeOK, NEW ss \in SUBSET Slots
             PROVE  SumOver([s \in Slots |-> slot[s].usd], ss) \in Nat
    BY DEF TotalIn
<1>1. IsFiniteSet(ss)
    BY FS_Subset, GuardrailsAssumption
<1>2. \A s \in ss : [t \in Slots |-> slot[t].usd][s] \in Nat
    BY DEF RiskTypeOK, Free, Taken
<1> QED
    BY <1>1, <1>2, SumIsNat

\* What a cycle reads at its start is a count, three amounts and the switch.
LEMMA SeenType ==
    ASSUME RiskTypeOK, NEW kill \in BOOLEAN, NEW cap \in AccountCaps,
           BeginEvaluation(kill, cap)
    PROVE  seen' \in [count : Nat, invested : Nat, account : Nat, cap : Nat, kill : BOOLEAN]
<1>1. At("open") \in SUBSET Slots /\ At("open") \cup At("sent") \in SUBSET Slots
    BY DEF At
<1>2. Cardinality(At("open")) \in Nat
    <2>1. IsFiniteSet(At("open"))
        BY <1>1, FS_Subset, GuardrailsAssumption
    <2> QED
        BY <2>1, FS_CardinalityType
<1>3. TotalIn(At("open")) \in Nat /\ TotalIn(At("open") \cup At("sent")) \in Nat
    BY <1>1, TotalsAreNat
<1>4. Manual + TotalIn(At("open") \cup At("sent")) \in Nat
    BY <1>3, GuardrailsAssumption
<1>5. cap \in Nat
    BY GuardrailsAssumption
<1> QED
    BY <1>2, <1>3, <1>4, <1>5 DEF BeginEvaluation

LEMMA RiskTypeNext == RiskTypeOK /\ [RiskNext]_riskVars => RiskTypeOK'
<1> SUFFICES ASSUME RiskTypeOK, [RiskNext]_riskVars PROVE RiskTypeOK'
    OBVIOUS
<1> USE DEF RiskTypeOK
<1>1. ASSUME NEW kill \in BOOLEAN, NEW cap \in AccountCaps, BeginEvaluation(kill, cap)
      PROVE  RiskTypeOK'
    BY <1>1, SeenType DEF BeginEvaluation
<1>2. ASSUME NEW i \in Instruments, NEW asked \in Amounts, ApproveBuy(i, asked)
      PROVE  RiskTypeOK'
    <2>1. ApprovedAmount(asked) \in Nat
        BY <1>2, ApprovedAmountFits DEF ApproveBuy, BuyAllowed
    <2>2. slot' \in [Slots -> {Free} \cup Taken]
        BY <1>2, <2>1 DEF ApproveBuy, At, Taken
    <2> QED
        BY <1>2, <2>1, <2>2 DEF ApproveBuy
<1>3. CASE EndEvaluation
    BY <1>3 DEF EndEvaluation
<1>4. ASSUME NEW s \in Slots,
             SendBuy(s) \/ BuyFails(s) \/ SendClose(s) \/ Executed(s) \/ Vanishes(s)
      PROVE  RiskTypeOK'
    <2>1. slot[s] \in Taken
        BY <1>4 DEF SendBuy, BuyFails, SendClose, Executed, Vanishes, Free
    <2>2. slot' \in [Slots -> {Free} \cup Taken]
        BY <1>4, <2>1 DEF SendBuy, BuyFails, SendClose, Executed, Vanishes, Taken
    <2>3. /\ lastAction' \in [Instruments -> 0..MaxClock \cup {Never}]
          /\ touched' \in [Instruments -> 0..MaxClock \cup {Never}]
          /\ thisCycle' \in SUBSET Instruments
        <3>1. CASE UNCHANGED <<lastAction, touched, thisCycle>>
            BY <3>1
        <3>2. CASE Accepted(slot[s].on)
            BY <2>1, <3>2 DEF Accepted, Taken
        <3> QED
            BY <1>4, <3>1, <3>2 DEF SendBuy, BuyFails, SendClose, Executed, Vanishes
    <2>4. UNCHANGED <<fills, clock, stage, seen, newOpen, committed>>
        BY <1>4 DEF SendBuy, BuyFails, SendClose, Executed, Vanishes
    <2> QED
        BY <2>2, <2>3, <2>4
<1>5. CASE EndExecution
    BY <1>5 DEF EndExecution, NothingSeen
<1>6. CASE Tick
    BY <1>6, GuardrailsAssumption DEF Tick
<1>7. CASE UNCHANGED riskVars
    BY <1>7 DEF riskVars
<1> QED
    BY <1>1, <1>2, <1>3, <1>4, <1>5, <1>6, <1>7 DEF RiskNext

\* In every behaviour the variables of the evaluator have their types: a cycle's
\* counters (new_open_count, invested_this_cycle) never go below zero.
THEOREM RiskTypeCorrect == RiskSpec => []RiskTypeOK
<1>1. RiskInit => RiskTypeOK
    BY RiskTypeInit
<1>2. RiskTypeOK /\ [RiskNext]_riskVars => RiskTypeOK'
    BY RiskTypeNext
<1> QED
    BY <1>1, <1>2, PTL DEF RiskSpec

-----------------------------------------------------------------------------

LEMMA CapsInit == RiskInit => CapsKept
BY DEF RiskInit, CapsKept

\* Every step keeps what a cycle has committed within the caps it read.
LEMMA CapsNext ==
    RiskTypeOK /\ CapsKept /\ [RiskNext]_riskVars => CapsKept'
<1> SUFFICES ASSUME RiskTypeOK, CapsKept, [RiskNext]_riskVars PROVE CapsKept'
    OBVIOUS
<1>1. ASSUME NEW kill \in BOOLEAN, NEW cap \in AccountCaps, BeginEvaluation(kill, cap)
      PROVE  CapsKept'
    BY <1>1 DEF BeginEvaluation, CapsKept
<1>2. ASSUME NEW i \in Instruments, NEW asked \in Amounts, ApproveBuy(i, asked)
      PROVE  CapsKept'
    <2>1. /\ MaxBotInvested > 0
             => seen.invested + committed + ApprovedAmount(asked) <= MaxBotInvested
          /\ seen.cap > 0 => seen.account + committed + ApprovedAmount(asked) <= seen.cap
          /\ ApprovedAmount(asked) \in Nat
        BY <1>2, ApprovedAmountFits DEF ApproveBuy, BuyAllowed
    <2>2. seen.count + newOpen < MaxParallelTrades
        BY <1>2 DEF ApproveBuy, BuyAllowed
    <2>3. /\ seen' = seen /\ newOpen' = newOpen + 1
          /\ committed' = committed + ApprovedAmount(asked)
        BY <1>2 DEF ApproveBuy
    <2>4. /\ seen.count \in Nat /\ seen.invested \in Nat /\ seen.account \in Nat
          /\ seen.cap \in Nat /\ newOpen \in Nat /\ committed \in Nat
          /\ MaxParallelTrades \in Nat /\ MaxBotInvested \in Nat
        BY GuardrailsAssumption DEF RiskTypeOK
    <2> QED
        BY <2>1, <2>2, <2>3, <2>4 DEF CapsKept
<1>3. ASSUME NEW s \in Slots,
             SendBuy(s) \/ BuyFails(s) \/ SendClose(s) \/ Executed(s) \/ Vanishes(s)
      PROVE  CapsKept'
    <2>1. UNCHANGED <<seen, newOpen, committed>>
        BY <1>3 DEF SendBuy, BuyFails, SendClose, Executed, Vanishes
    <2> QED
        BY <2>1 DEF CapsKept
<1>4. CASE EndExecution
    BY <1>4 DEF EndExecution, CapsKept
<1>5. CASE EndEvaluation \/ Tick \/ UNCHANGED riskVars
    <2>1. UNCHANGED <<seen, newOpen, committed>>
        BY <1>5 DEF EndEvaluation, Tick, riskVars
    <2> QED
        BY <2>1 DEF CapsKept
<1> QED
    BY <1>1, <1>2, <1>3, <1>4, <1>5 DEF RiskNext

\* The BUYs one cycle approves, together with what it saw, respect the bot's budget,
\* the operator's ceiling on the account and the number of parallel trades, however
\* many requests there are and however their amounts are amended (evaluate).
LEMMA ApprovalsRespectCaps == RiskSpec => []CapsKept
<1>1. RiskInit => RiskTypeOK /\ CapsKept
    BY RiskTypeInit, CapsInit
<1>2. RiskTypeOK /\ CapsKept /\ [RiskNext]_riskVars => (RiskTypeOK /\ CapsKept)'
    BY RiskTypeNext, CapsNext
<1> QED
    BY <1>1, <1>2, PTL DEF RiskSpec

-----------------------------------------------------------------------------

LEMMA AmountsInit == RiskInit => AmountsSane
BY DEF RiskInit, AmountsSane, At, Free

\* Every step keeps every order within the per-trade limit and worth sending.
LEMMA AmountsNext ==
    RiskTypeOK /\ AmountsSane /\ [RiskNext]_riskVars => AmountsSane'
<1> SUFFICES ASSUME RiskTypeOK, AmountsSane, [RiskNext]_riskVars,
                    NEW r \in Slots, slot'[r].at # "free"
             PROVE  /\ 0 < slot'[r].usd /\ slot'[r].usd <= MaxPerTrade
                    /\ \/ slot'[r].usd \in Amounts \cup {MaxPerTrade}
                       \/ slot'[r].usd >= MinAmend
    BY DEF AmountsSane, At
<1>1. CASE slot[r].at # "free" /\ slot'[r].usd = slot[r].usd
    BY <1>1 DEF AmountsSane, At
<1>2. ASSUME NEW i \in Instruments, NEW asked \in Amounts, ApproveBuy(i, asked),
             slot'[r] # slot[r]
      PROVE  /\ 0 < slot'[r].usd /\ slot'[r].usd <= MaxPerTrade
             /\ \/ slot'[r].usd \in Amounts \cup {MaxPerTrade}
                \/ slot'[r].usd >= MinAmend
    <2>1. slot'[r].usd = ApprovedAmount(asked)
        BY <1>2 DEF ApproveBuy, At, RiskTypeOK
    <2> QED
        BY <1>2, <2>1, ApprovedAmountFits DEF ApproveBuy, BuyAllowed
<1>3. ASSUME NEW s \in Slots,
             SendBuy(s) \/ BuyFails(s) \/ SendClose(s) \/ Executed(s) \/ Vanishes(s)
      PROVE  slot[r].at # "free" /\ slot'[r].usd = slot[r].usd
    BY <1>3 DEF SendBuy, BuyFails, SendClose, Executed, Vanishes, RiskTypeOK, Free, Taken
<1>4. ASSUME slot' = slot
      PROVE  slot[r].at # "free" /\ slot'[r].usd = slot[r].usd
    BY <1>4
<1>5. \/ slot' = slot
      \/ \E i \in Instruments, asked \in Amounts : ApproveBuy(i, asked)
      \/ \E s \in Slots :
            SendBuy(s) \/ BuyFails(s) \/ SendClose(s) \/ Executed(s) \/ Vanishes(s)
    BY DEF RiskNext, riskVars, BeginEvaluation, EndEvaluation, EndExecution, Tick
<1> QED
    BY <1>1, <1>2, <1>3, <1>4, <1>5

\* Every order the bot sends is for a positive amount of at most max_per_trade_usd,
\* and one a cap shrank is not below the amend floor.
LEMMA OrdersAreSane == RiskSpec => []AmountsSane
<1>1. RiskInit => RiskTypeOK /\ AmountsSane
    BY RiskTypeInit, AmountsInit
<1>2. RiskTypeOK /\ AmountsSane /\ [RiskNext]_riskVars => (RiskTypeOK /\ AmountsSane)'
    BY RiskTypeNext, AmountsNext
<1> QED
    BY <1>1, <1>2, PTL DEF RiskSpec

\* The guardrails hold of every cycle, for the sum of what it approves and for each
\* order it sends.
THEOREM ApprovalsStayWithinLimits == RiskSpec => []OrdersWithinLimits
<1>1. CapsKept /\ AmountsSane => OrdersWithinLimits
    BY DEF OrdersWithinLimits
<1> QED
    BY <1>1, ApprovalsRespectCaps, OrdersAreSane, PTL

-----------------------------------------------------------------------------
(* The cooldown. *)

\* An approval waits for its order with the cooldown over: only an order of the same
\* cycle can start it again before the order is sent.
CooledDown(i) == i \in thisCycle \/ touched[i] = Never \/ clock - touched[i] >= Cooldown
CooldownInv ==
    /\ lastAction = touched
    /\ \A s \in At("approved") : CooledDown(slot[s].on)

LEMMA CooldownInit == RiskInit => CooldownInv
BY DEF RiskInit, CooldownInv, At, Free

\* Every step keeps an approved order on an instrument that has cooled down.
LEMMA CooldownNext ==
    RiskTypeOK /\ CooldownInv /\ [RiskNext]_riskVars => CooldownInv'
<1> SUFFICES ASSUME RiskTypeOK, CooldownInv, [RiskNext]_riskVars PROVE CooldownInv'
    OBVIOUS
<1>n. /\ Cooldown \in Nat /\ clock \in Nat /\ Never \notin Nat /\ MaxClock \in Nat
      /\ \A i \in Instruments : touched[i] \in Nat \cup {Never}
    BY GuardrailsAssumption DEF RiskTypeOK
<1>1. ASSUME NEW i \in Instruments, NEW asked \in Amounts, ApproveBuy(i, asked)
      PROVE  CooldownInv'
    <2>1. CooledDown(i)
        <3>1. ~(touched[i] # Never /\ clock - touched[i] < Cooldown)
            BY <1>1 DEF ApproveBuy, BuyAllowed, Cooling, CooldownInv
        <3>2. touched[i] = Never \/ clock - touched[i] >= Cooldown
            <4> SUFFICES ASSUME touched[i] # Never PROVE clock - touched[i] >= Cooldown
                OBVIOUS
            <4>1. touched[i] \in Nat /\ ~(clock - touched[i] < Cooldown)
                BY <1>n, <3>1
            <4> QED
                BY <1>n, <4>1
        <3> QED
            BY <3>2 DEF CooledDown
    <2>2. UNCHANGED <<clock, lastAction, touched, thisCycle>>
        BY <1>1 DEF ApproveBuy
    <2>3. \A s \in At("approved")' : slot'[s].on = i \/ (s \in At("approved") /\ slot'[s] = slot[s])
        BY <1>1 DEF ApproveBuy, At, RiskTypeOK
    <2> QED
        BY <2>1, <2>2, <2>3 DEF CooldownInv, CooledDown
<1>2. ASSUME NEW s \in Slots,
             SendBuy(s) \/ BuyFails(s) \/ SendClose(s) \/ Executed(s) \/ Vanishes(s)
      PROVE  CooldownInv'
    <2>1. \A r \in At("approved")' : r \in At("approved") /\ slot'[r] = slot[r]
        BY <1>2 DEF SendBuy, BuyFails, SendClose, Executed, Vanishes, At, RiskTypeOK, Free, Taken
    <2>2. clock' = clock
        BY <1>2 DEF SendBuy, BuyFails, SendClose, Executed, Vanishes
    <2>3. CASE UNCHANGED <<lastAction, touched, thisCycle>>
        BY <2>1, <2>2, <2>3 DEF CooldownInv, CooledDown
    <2>4. CASE Accepted(slot[s].on)
        <3>1. lastAction' = touched'
            BY <2>4 DEF Accepted, CooldownInv
        <3>2. \A i \in Instruments : CooledDown(i) => CooledDown(i)'
            BY <2>2, <2>4 DEF Accepted, CooledDown, RiskTypeOK
        <3>3. \A r \in At("approved") : slot[r].on \in Instruments
            BY DEF At, RiskTypeOK, Free, Taken
        <3> QED
            BY <2>1, <3>1, <3>2, <3>3 DEF CooldownInv
    <2> QED
        BY <1>2, <2>3, <2>4 DEF SendBuy, BuyFails, SendClose, Executed, Vanishes
<1>3. CASE Tick
    <2>1. \A i \in Instruments : CooledDown(i) => CooledDown(i)'
        BY <1>3, <1>n DEF Tick, CooledDown
    <2>2. \A r \in At("approved") : slot[r].on \in Instruments
        BY DEF At, RiskTypeOK, Free, Taken
    <2>3. UNCHANGED <<slot, lastAction, touched>>
        BY <1>3 DEF Tick
    <2> QED
        BY <2>1, <2>2, <2>3 DEF CooldownInv, At
<1>4. CASE EndExecution
    BY <1>4 DEF EndExecution, CooldownInv, At
<1>5. ASSUME UNCHANGED <<slot, clock, lastAction, touched, thisCycle>> PROVE CooldownInv'
    BY <1>5 DEF CooldownInv, CooledDown, At
<1>6. ASSUME \/ \E kill \in BOOLEAN, cap \in AccountCaps : BeginEvaluation(kill, cap)
             \/ EndEvaluation \/ UNCHANGED riskVars
      PROVE  UNCHANGED <<slot, clock, lastAction, touched, thisCycle>>
    BY <1>6 DEF BeginEvaluation, EndEvaluation, riskVars
<1> QED
    BY <1>1, <1>2, <1>3, <1>4, <1>5, <1>6 DEF RiskNext

\* A BUY is sent a cooldown after the last order of an earlier cycle that the broker
\* accepted on its instrument, whatever was closed, failed or vanished in between
\* (_evaluate_buy, mark_action).
THEOREM CooldownIsKept == RiskSpec => CooldownKept
<1>1. RiskInit => RiskTypeOK /\ CooldownInv
    BY RiskTypeInit, CooldownInit
<1>2. RiskTypeOK /\ CooldownInv /\ [RiskNext]_riskVars => (RiskTypeOK /\ CooldownInv)'
    BY RiskTypeNext, CooldownNext
<1>3. CooldownInv => [\A s \in Slots :
                          slot[s].at = "approved" /\ slot'[s].at = "sent"
                          => LET i == slot[s].on
                             IN i \in thisCycle \/ touched[i] = Never
                                \/ clock - touched[i] >= Cooldown]_riskVars
    BY DEF CooldownInv, CooledDown, At
<1> QED
    BY <1>1, <1>2, <1>3, PTL DEF RiskSpec, CooldownKept

-----------------------------------------------------------------------------
(* The exposure. *)

Busy == Slots \ At("free")

WithinLimits ==
    /\ Cardinality(Busy) <= MaxParallelTrades
    /\ MaxBotInvested > 0 => TotalIn(Busy) <= MaxBotInvested

\* With prompt fills a cycle sees everything that is invested when it begins; from
\* then on it can only have added what it approved.
Accounted ==
    IF stage = "idle" THEN At("approved") = {}
    ELSE /\ Cardinality(Busy) <= seen.count + newOpen
         /\ TotalIn(Busy) <= seen.invested + committed

ExposureInv == fills = "prompt" => WithinLimits /\ Accounted

BusyOK == IsFiniteSet(Busy) /\ Cardinality(Busy) \in Nat /\ TotalIn(Busy) \in Nat

\* The slots in use, and their money, have their types.
LEMMA BusyTypes == RiskTypeOK => BusyOK
<1> SUFFICES ASSUME RiskTypeOK PROVE BusyOK
    OBVIOUS
<1>1. Busy \in SUBSET Slots /\ IsFiniteSet(Slots)
    BY GuardrailsAssumption DEF Busy
<1>2. IsFiniteSet(Busy)
    BY <1>1, FS_Subset
<1> QED
    BY <1>1, <1>2, TotalsAreNat, FS_CardinalityType DEF BusyOK

LEMMA BusyTypesNext == (RiskTypeOK => BusyOK)'
BY BusyTypes, PTL

\* A slot is given up, or its order comes further: no more is invested.
LEMMA ExposureShrinks ==
    ASSUME RiskTypeOK, RiskTypeOK', Busy' \subseteq Busy,
           \A s \in Busy' : slot'[s].usd = slot[s].usd
    PROVE  Cardinality(Busy)' <= Cardinality(Busy) /\ TotalIn(Busy)' <= TotalIn(Busy)
<1> DEFINE f == [s \in Slots |-> slot[s].usd]
           g == [s \in Slots |-> slot'[s].usd]
<1>1. IsFiniteSet(Busy) /\ IsFiniteSet(Busy')
    BY BusyTypes, FS_Subset DEF BusyOK
<1>2. Cardinality(Busy') <= Cardinality(Busy)
    BY <1>1, FS_Subset
<1>3. Busy \in SUBSET Slots /\ Busy' \in SUBSET Slots
    BY DEF Busy
<1>4. \A s \in Busy' : f[s] = g[s]
    BY <1>3
<1>5. \A s \in Busy : f[s] \in Nat
    BY <1>3 DEF RiskTypeOK, Free, Taken
<1>6. TotalIn(Busy) = SumOver(f, Busy) /\ TotalIn(Busy)' = SumOver(g, Busy')
    BY DEF TotalIn
<1> HIDE DEF f, g
<1>7. SumOver(f, Busy') = SumOver(g, Busy')
    BY <1>1, <1>4, SumCongruent
<1>8. SumOver(f, Busy') <= SumOver(f, Busy)
    BY <1>1, <1>5, SumOfPart
<1> QED
    BY <1>2, <1>6, <1>7, <1>8

\* An approval takes one slot and adds its amount.
LEMMA ExposureGrows ==
    ASSUME RiskTypeOK, RiskTypeOK', NEW i \in Instruments, NEW asked \in Amounts,
           ApproveBuy(i, asked)
    PROVE  /\ Cardinality(Busy)' = Cardinality(Busy) + 1
           /\ TotalIn(Busy)' = TotalIn(Busy) + ApprovedAmount(asked)
<1> DEFINE f == [s \in Slots |-> slot[s].usd]
           g == [s \in Slots |-> slot'[s].usd]
<1>1. PICK r \in At("free") : slot' = [slot EXCEPT ![r] =
                [at |-> "approved", on |-> i, usd |-> ApprovedAmount(asked)]]
    BY DEF ApproveBuy
<1>2. r \in Slots /\ r \notin Busy /\ Busy \in SUBSET Slots
    BY DEF At, Busy
<1>3. slot'[r] = [at |-> "approved", on |-> i, usd |-> ApprovedAmount(asked)]
      /\ \A s \in Slots \ {r} : slot'[s] = slot[s]
    BY <1>1, <1>2 DEF RiskTypeOK
<1>4. Busy' = Busy \cup {r}
    BY <1>2, <1>3 DEF Busy, At
<1>5. IsFiniteSet(Busy)
    BY BusyTypes DEF BusyOK
<1>6. Cardinality(Busy') = Cardinality(Busy) + 1
    BY <1>2, <1>4, <1>5, FS_AddElement
<1>7. \A s \in Slots : f[s] \in Int /\ g[s] \in Int
    BY DEF RiskTypeOK, Free, Taken
<1>8. (\A s \in Busy : f[s] = g[s]) /\ g[r] = ApprovedAmount(asked)
    BY <1>2, <1>3
<1>9. TotalIn(Busy) = SumOver(f, Busy) /\ TotalIn(Busy)' = SumOver(g, Busy')
    BY DEF TotalIn
<1> HIDE DEF f, g
<1>10. SumOver(f, Busy) = SumOver(g, Busy)
    BY <1>5, <1>8, SumCongruent
<1>11. SumOver(g, Busy \cup {r}) = SumOver(g, Busy) + g[r]
    BY <1>2, <1>5, <1>7, SumAdd
<1> QED
    BY <1>4, <1>6, <1>8, <1>9, <1>10, <1>11

LEMMA ExposureInit == RiskInit => ExposureInv
<1> SUFFICES ASSUME RiskInit PROVE ExposureInv
    OBVIOUS
<1>1. Busy = {} /\ At("approved") = {} /\ stage = "idle"
    BY DEF RiskInit, Busy, At, Free
<1>2. Cardinality(Busy) = 0
    BY <1>1, FS_EmptySet
<1>3. TotalIn(Busy) = 0
    BY <1>1, SumEmpty DEF TotalIn
<1> QED
    BY <1>1, <1>2, <1>3, GuardrailsAssumption DEF ExposureInv, WithinLimits, Accounted

\* With prompt fills, every step keeps what is invested within the limits and in the
\* accounts.
LEMMA ExposureNext ==
    RiskTypeOK /\ CapsKept /\ ExposureInv /\ [RiskNext]_riskVars => ExposureInv'
<1> SUFFICES ASSUME RiskTypeOK, CapsKept, ExposureInv, [RiskNext]_riskVars,
                    fills' = "prompt"
             PROVE  WithinLimits' /\ Accounted'
    BY DEF ExposureInv
<1>t. RiskTypeOK' /\ CapsKept'
    BY RiskTypeNext, CapsNext
<1>b. /\ Cardinality(Busy) \in Nat /\ TotalIn(Busy) \in Nat
      /\ Cardinality(Busy)' \in Nat /\ TotalIn(Busy)' \in Nat
      /\ MaxParallelTrades \in Nat /\ MaxBotInvested \in Nat
    BY <1>t, BusyTypes, BusyTypesNext, GuardrailsAssumption DEF BusyOK
<1>c. /\ seen.count \in Nat /\ seen.invested \in Nat /\ newOpen \in Nat
      /\ committed \in Nat
    BY DEF RiskTypeOK
<1>p. fills = "prompt"
    BY DEF RiskNext, riskVars, BeginEvaluation, ApproveBuy, EndEvaluation, SendBuy, BuyFails,
           SendClose, Executed, Vanishes, EndExecution, Tick
<1>i. WithinLimits /\ Accounted
    BY <1>p DEF ExposureInv
\* No slot is taken.
<1>s. ASSUME \/ slot' = slot
             \/ \E s \in Slots : SendBuy(s) \/ BuyFails(s) \/ SendClose(s) \/ Executed(s)
                               \/ Vanishes(s)
      PROVE  /\ Cardinality(Busy)' <= Cardinality(Busy) /\ TotalIn(Busy)' <= TotalIn(Busy)
             /\ WithinLimits'
    <2>1. Busy' \subseteq Busy /\ \A s \in Busy' : slot'[s].usd = slot[s].usd
        <3>1. CASE slot' = slot
            BY <3>1 DEF Busy, At
        <3>2. ASSUME NEW s \in Slots,
                     SendBuy(s) \/ BuyFails(s) \/ SendClose(s) \/ Executed(s) \/ Vanishes(s)
              PROVE  Busy' \subseteq Busy /\ \A r \in Busy' : slot'[r].usd = slot[r].usd
            BY <3>2 DEF SendBuy, BuyFails, SendClose, Executed, Vanishes, Busy, At, Free,
                        Taken, RiskTypeOK
        <3> QED
            BY <1>s, <3>1, <3>2
    <2>2. Cardinality(Busy)' <= Cardinality(Busy) /\ TotalIn(Busy)' <= TotalIn(Busy)
        BY <1>t, <2>1, ExposureShrinks
    <2> QED
        BY <1>b, <1>i, <2>2 DEF WithinLimits
<1>1. ASSUME NEW kill \in BOOLEAN, NEW cap \in AccountCaps, BeginEvaluation(kill, cap)
      PROVE  WithinLimits' /\ Accounted'
    <2>1. Busy = At("open")
        BY <1>1, <1>i, <1>p DEF BeginEvaluation, Accounted, Busy, At, RiskTypeOK, Free, Taken
    <2>2. seen'.count = Cardinality(Busy) /\ seen'.invested = TotalIn(Busy)
        BY <1>1, <2>1 DEF BeginEvaluation
    <2>3. slot' = slot /\ newOpen' = 0 /\ committed' = 0 /\ stage' # "idle"
        BY <1>1 DEF BeginEvaluation
    <2> QED
        BY <1>b, <1>s, <2>2, <2>3 DEF Accounted
<1>2. ASSUME NEW i \in Instruments, NEW asked \in Amounts, ApproveBuy(i, asked)
      PROVE  WithinLimits' /\ Accounted'
    <2>1. /\ Cardinality(Busy)' = Cardinality(Busy) + 1
          /\ TotalIn(Busy)' = TotalIn(Busy) + ApprovedAmount(asked)
        BY <1>2, <1>t, ExposureGrows
    <2>2. /\ stage # "idle" /\ stage' = stage /\ seen' = seen
          /\ newOpen' = newOpen + 1 /\ committed' = committed + ApprovedAmount(asked)
        BY <1>2 DEF ApproveBuy
    <2>3. ApprovedAmount(asked) \in Nat
        BY <1>2, ApprovedAmountFits DEF ApproveBuy, BuyAllowed
    <2>4. Accounted'
        BY <1>b, <1>c, <1>i, <2>1, <2>2, <2>3 DEF Accounted
    <2>5. /\ MaxBotInvested > 0 => seen.invested + committed' <= MaxBotInvested
          /\ seen.count + newOpen' <= MaxParallelTrades
        BY <1>c, <1>t, <2>2 DEF CapsKept
    <2> QED
        BY <1>b, <1>c, <2>2, <2>3, <2>4, <2>5 DEF Accounted, WithinLimits
<1>3. ASSUME NEW s \in Slots,
             SendBuy(s) \/ BuyFails(s) \/ SendClose(s) \/ Executed(s) \/ Vanishes(s)
      PROVE  WithinLimits' /\ Accounted'
    <2>1. UNCHANGED <<stage, seen, newOpen, committed>>
        BY <1>3 DEF SendBuy, BuyFails, SendClose, Executed, Vanishes
    <2>2. stage = "idle" => At("approved")' = {}
        BY <1>3, <1>i DEF SendBuy, BuyFails, SendClose, Executed, Vanishes, Accounted, At,
                          RiskTypeOK, Free, Taken
    <2>3. stage # "idle" => Accounted'
        BY <1>b, <1>c, <1>i, <1>s, <1>3, <2>1 DEF Accounted
    <2> QED
        BY <1>s, <1>3, <2>1, <2>2, <2>3 DEF Accounted
<1>4. CASE EndEvaluation \/ Tick \/ UNCHANGED riskVars
    <2>1. /\ slot' = slot /\ UNCHANGED <<seen, newOpen, committed>>
          /\ (stage' = stage \/ (stage # "idle" /\ stage' # "idle"))
        BY <1>4 DEF EndEvaluation, Tick, riskVars
    <2>2. WithinLimits' /\ Busy' = Busy /\ At("approved")' = At("approved")
          /\ TotalIn(Busy)' = TotalIn(Busy)
        BY <1>s, <2>1 DEF Busy, At, TotalIn
    <2> QED
        BY <1>i, <2>1, <2>2 DEF Accounted
<1>5. CASE EndExecution
    <2>1. slot' = slot /\ stage' = "idle" /\ At("approved") = {}
        BY <1>5 DEF EndExecution
    <2>2. At("approved")' = At("approved")
        BY <2>1 DEF At
    <2> QED
        BY <1>s, <2>1, <2>2 DEF Accounted
<1> QED
    BY <1>1, <1>2, <1>3, <1>4, <1>5 DEF RiskNext

\* When orders fill before the next cycle, what is really invested, in positions and in
\* orders on their way, keeps to the number of parallel trades and to the bot's budget
\* at any time, although a cycle judges each request against the snapshot it began
\* with, and positions close meanwhile (the counters of evaluate).
THEOREM ExposureStaysWithinLimits == RiskSpec => []ExposureKept
<1>1. RiskInit => RiskTypeOK /\ CapsKept /\ ExposureInv
    BY RiskTypeInit, CapsInit, ExposureInit
<1>2. /\ RiskTypeOK /\ CapsKept /\ ExposureInv
      /\ [RiskNext]_riskVars
      => (RiskTypeOK /\ CapsKept /\ ExposureInv)'
    BY RiskTypeNext, CapsNext, ExposureNext
<1>3. ExposureInv => ExposureKept
    BY DEF ExposureInv, WithinLimits, ExposureKept, Busy
<1> QED
    BY <1>1, <1>2, <1>3, PTL DEF RiskSpec

-----------------------------------------------------------------------------
(* Side by side. *)

\* In a behaviour of both, each of them behaves as it does alone.
LEMMA GateIsSwitchAndRisk == MCSpec => SwitchSpec /\ RiskSpec
<1>1. MCInit => SwitchInit /\ RiskInit
    BY DEF MCInit
<1>2. [MCNext]_<<focus, switchVars, riskVars>> => [SwitchNext]_switchVars /\ [RiskNext]_riskVars
    BY DEF MCNext
<1> QED
    BY <1>1, <1>2, PTL DEF MCSpec, SwitchSpec, RiskSpec

\* The fields of the switch and the counters of the evaluator keep their types while
\* either runs (BotState, evaluate).
THEOREM GateTypeCorrect == MCSpec => []TypesOK
<1>1. SwitchTypeOK /\ RiskTypeOK => TypesOK
    BY DEF TypesOK
<1> QED
    BY <1>1, GateIsSwitchAndRisk, SwitchTypeCorrect, RiskTypeCorrect, PTL
=============================================================================
