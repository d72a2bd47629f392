-------------------------- MODULE PerformanceLedger --------------------------
(* The performance tracker: open trades, the ledger of closed trades and one  *)
(* row of statistics per UTC day. The row of the running day lives in memory; *)
(* it reaches the database when somebody reads the statistics or at the first *)
(* event of another day. The connection commits every statement by itself     *)
(* (isolation_level=None), a failed one is only logged. Excursions, equity    *)
(* and rates are left out.                                                    *)
EXTENDS Integers, FiniteSets, Sums

CONSTANTS
    Trades,         \* position ids; the broker never uses one twice
    Pnls,           \* what a mark of a position may show
    NoTrade,        \* an id the map or table does not hold
    Unmarked,       \* a trade no snapshot has marked yet: last_pnl_usd is None
    MaxDay, MaxFaults   \* bounds of the exploration

ASSUME LedgerAssumption ==
    /\ IsFiniteSet(Trades) /\ Pnls \subseteq Int /\ MaxDay \in Nat \ {0} /\ MaxFaults \in Nat
    /\ NoTrade \notin Pnls \cup {Unmarked}
    /\ NoTrade \notin [pnl: Pnls \cup {0}, day: 1..MaxDay]

VARIABLES
    day,            \* the UTC date of the clock
    adopted,        \* trades the cycle has recorded as opened
    open,           \* _open: the tracker's map
    openRows,       \* the table open_positions
    closedRows,     \* the table closed_trades
    row,            \* DailyRoller._today; day 0 stands for None
    dirty,          \* DailyRoller._dirty
    dayRows,        \* the table daily_snapshots
    broken,         \* history: days whose row lost events to a restart
    failed,         \* history: days in which a write was refused
    faults          \* restarts and refused writes so far

ledgerVars == <<day, adopted, open, openRows, closedRows, row, dirty, dayRows, broken,
                failed, faults>>

Days == 1..MaxDay
Fresh(d) == [day |-> d, realized |-> 0, wins |-> 0, losses |-> 0, even |-> 0]
DayRow == [day: 0..MaxDay, realized: Int, wins: Nat, losses: Nat, even: Nat]
OpenMap == [Trades -> Pnls \cup {NoTrade, Unmarked}]
ClosedTrade == [pnl: Pnls \cup {0}, day: Days]

LedgerTypeOK ==
    /\ day \in Days /\ adopted \subseteq Trades
    /\ open \in OpenMap /\ openRows \in OpenMap
    /\ closedRows \in [Trades -> ClosedTrade \cup {NoTrade}]
    /\ row \in DayRow /\ row.day <= day /\ dirty \in BOOLEAN
    /\ dayRows \in [Days -> DayRow]
    /\ broken \subseteq Days /\ failed \subseteq Days /\ faults \in 0..MaxFaults

LedgerInit ==
    /\ day = 1 /\ adopted = {}
    /\ open = [t \in Trades |-> NoTrade] /\ openRows = open
    /\ closedRows = [t \in Trades |-> NoTrade]
    /\ row = Fresh(0) /\ dirty = FALSE
    /\ dayRows = [d \in Days |-> Fresh(0)]
    /\ broken = {} /\ failed = {} /\ faults = 0

-----------------------------------------------------------------------------
Opened(map) == {t \in Trades : map[t] # NoTrade}

\* _ensure_today: the row an event of today counts in.
RowToday == IF row.day = day THEN row ELSE Fresh(day)

\* At the first event of another day the outgoing row is written if it changed. A
\* refused write is forgotten; `refused` are the days other writes were refused on.
MustRoll == dirty /\ row.day \notin {0, day}
RolloverUnwritten(works, refused) ==     \* mutant: the outgoing row is dropped
    /\ UNCHANGED dayRows
    /\ failed' = failed \cup refused
Rollover(works, refused) ==
    /\ dayRows' = IF MustRoll /\ works THEN [dayRows EXCEPT ![row.day] = row] ELSE dayRows
    /\ failed' = failed \cup refused \cup IF MustRoll /\ ~works THEN {row.day} ELSE {}

Fault(bad) == (bad => faults < MaxFaults) /\ faults' = IF bad THEN faults + 1 ELSE faults

\* save_open_positions deletes every row and inserts those of the map one by one. When
\* it is refused or the process dies on the way, the table is as it was, or holds only
\* some of the rows.
CutShort(map) ==
    {openRows} \cup
    {[t \in Trades |-> IF t \in kept THEN map[t] ELSE NoTrade] :
        kept \in SUBSET Opened(map) \ {Opened(map)}}
SaveOpen(saved) == IF saved THEN openRows' = open' ELSE openRows' \in CutShort(open')

RecordOpen(t) ==
    /\ t \notin adopted
    /\ adopted' = adopted \cup {t}
    /\ open' = [open EXCEPT ![t] = Unmarked]
    /\ row' = RowToday /\ dirty' = TRUE
    /\ \E works, saved \in BOOLEAN :
        Rollover(works, {}) /\ SaveOpen(saved) /\ Fault(~(works /\ saved))
    /\ UNCHANGED <<day, closedRows, broken>>

\* The cycle marks the open trades whose positions it saw, saves the map and then
\* updates the day's equity.
Marked == {map \in OpenMap : \A t \in Trades :
              map[t] = open[t] \/ (t \in Opened(open) /\ map[t] \in Pnls)}
Observe ==
    /\ open' \in Marked
    /\ row' = RowToday /\ dirty' = TRUE
    /\ \E works, saved \in BOOLEAN :
        Rollover(works, {}) /\ SaveOpen(saved) /\ Fault(~(works /\ saved))
    /\ UNCHANGED <<day, adopted, closedRows, broken>>

Pnl(t) == IF open[t] = Unmarked THEN 0 ELSE open[t]

Booked(t) == [closedRows EXCEPT ![t] = [pnl |-> Pnl(t), day |-> day]]

Counted(r, pnl) ==
    [r EXCEPT !.realized = @ + pnl,
              !.wins = IF pnl > 0 THEN @ + 1 ELSE @,
              !.losses = IF pnl < 0 THEN @ + 1 ELSE @,
              !.even = IF pnl = 0 THEN @ + 1 ELSE @]

\* record_close: out of the map, into the ledger, the map saved, then counted. The
\* trade keeps the last mark; the ledger replaces a row of the same id.
RecordClose(t, appended, saved) ==
    /\ t \in Opened(open)
    /\ open' = [open EXCEPT ![t] = NoTrade]
    /\ closedRows' = IF appended THEN Booked(t) ELSE closedRows
    /\ SaveOpen(saved)
    /\ row' = Counted(RowToday, Pnl(t)) /\ dirty' = TRUE
    /\ \E works \in BOOLEAN :
        /\ Rollover(works, IF appended /\ saved THEN {} ELSE {day})
        /\ Fault(~(works /\ appended /\ saved))
    /\ UNCHANGED <<day, adopted, broken>>

\* What a restart takes from the daily rows: a row of today, which a fresh one will
\* replace, or an older one that was never written.
BrokenByRestart == IF row.day \in Days /\ (row.day = day \/ dirty) THEN {row.day} ELSE {}

Restarted ==
    /\ open' = openRows'
    /\ row' = Fresh(0) /\ dirty' = FALSE
    /\ Fault(TRUE)
    /\ UNCHANGED <<day, adopted, dayRows, failed>>

LedgerRestart ==
    /\ broken' = broken \cup BrokenByRestart
    /\ UNCHANGED <<openRows, closedRows>>
    /\ Restarted

\* The process dies inside record_close: the ledger has the trade, the table is being
\* rewritten without it, the day does not count it. (Inside record_open it dies after a
\* RecordOpen whose save was cut short: the day's row comes first there.)
CrashInClose(t) ==
    /\ t \in Opened(open)
    /\ closedRows' = Booked(t)
    /\ LET rest == [open EXCEPT ![t] = NoTrade]
       IN openRows' \in {rest} \cup CutShort(rest)
    /\ broken' = broken \cup BrokenByRestart \cup {day}
    /\ Restarted

\* The process dies inside observe_positions, before the day's row is touched.
CrashInObserve ==
    /\ \E map \in Marked : openRows' \in {map} \cup CutShort(map)
    /\ broken' = broken \cup BrokenByRestart
    /\ UNCHANGED closedRows
    /\ Restarted

\* summary and daily_history write the running row first.
ReadStats ==
    /\ row.day # 0 /\ dirty
    /\ \/ dayRows' = [dayRows EXCEPT ![row.day] = row] /\ Fault(FALSE) /\ UNCHANGED failed
       \/ failed' = failed \cup {row.day} /\ Fault(TRUE) /\ UNCHANGED dayRows
    /\ dirty' = FALSE
    /\ UNCHANGED <<day, adopted, open, openRows, closedRows, row, broken>>

Midnight ==
    /\ day < MaxDay /\ day' = day + 1
    /\ UNCHANGED <<adopted, open, openRows, closedRows, row, dirty, dayRows, broken,
                   failed, faults>>

LedgerNext ==
    \/ \E t \in Trades : RecordOpen(t)
    \/ \E t \in Trades, appended, saved \in BOOLEAN : RecordClose(t, appended, saved)
    \/ \E t \in Trades : CrashInClose(t)
    \/ CrashInObserve \/ Observe \/ ReadStats \/ LedgerRestart \/ Midnight

LedgerSpec == LedgerInit /\ [][LedgerNext]_ledgerVars

-----------------------------------------------------------------------------
\* aggregate over the ledger's trades of one day.
ClosedOn(d) == {t \in Trades : closedRows[t] # NoTrade /\ closedRows[t].day = d}
Aggregate(d) ==
    LET won == {t \in ClosedOn(d) : closedRows[t].pnl > 0}
        lost == {t \in ClosedOn(d) : closedRows[t].pnl < 0}
    IN [realized |-> SumOver([t \in ClosedOn(d) |-> closedRows[t].pnl], ClosedOn(d)),
        wins |-> Cardinality(won), losses |-> Cardinality(lost),
        even |-> Cardinality(ClosedOn(d) \ (won \cup lost))]
Totals(r) == [realized |-> r.realized, wins |-> r.wins, losses |-> r.losses, even |-> r.even]

\* The two accounts of a day agree. Unless a write was refused on it, a day's row
\* never counts a close the ledger does not hold; and once the tracker has moved on
\* from a day no restart broke into, the row says what the ledger says, although they
\* are written at different times, the process may have died between days, and rewrites
\* of the open trades that are cut short lose trades the tracker then never closes.
DaysMatchLedger ==
    \A d \in Days \ failed :
        /\ dayRows[d].wins <= Aggregate(d).wins
        /\ dayRows[d].losses <= Aggregate(d).losses
        /\ dayRows[d].even <= Aggregate(d).even
        /\ d < row.day /\ d \notin broken => Totals(dayRows[d]) = Aggregate(d)
=============================================================================
