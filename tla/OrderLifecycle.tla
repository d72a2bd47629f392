--------------------------- MODULE OrderLifecycle ---------------------------
(***************************************************************************)
(* The life of one order, from the moment a trading cycle places it until  *)
(* the bot has forgotten it: src/cycle.py (the hooks around a cycle),      *)
(* src/execution/executor.py (placement), src/execution/monitor.py         *)
(* (adoption), src/execution/stuck_orders.py (cancellation), the ownership *)
(* half of src/state.py and src/persistence.py, the open/closed ledger of  *)
(* src/performance/tracker.py and panic_close_all of                       *)
(* src/control/controller.py, against a broker that fills, rejects and     *)
(* closes whenever it likes.                                               *)
(*                                                                         *)
(* The broker gives a position an id of its own; here a BUY order and the  *)
(* position it opens share one id.                                         *)
(***************************************************************************)
EXTENDS Naturals, Sequences, FiniteSets

CONSTANTS
    OrderIds,     \* ids the broker can hand out, each used at most once
    Manual,       \* positions the user opened outside the bot
    None,         \* the missing order id or position id of a result
    MaxParallel,  \* guardrails.max_parallel_trades
    MaxRequests,  \* bound: approved requests of one cycle
    Regimes       \* what may go wrong, and operations.cancel_stuck_orders_enabled

FaultKinds ==
    { "fetch",      \* the portfolio cannot be read
      "ambiguous",  \* a placement times out: the order may exist
      "noId",       \* a placement is acknowledged without an order id
      "reject",     \* the broker rejects an order it had accepted
      "cancelRace", \* a DELETE fails although it took effect, or is refused
      "recheck",    \* the status recheck after a failed DELETE fails
      "exception",  \* the cycle raises
      "crash",      \* the process is killed and started again
      "tornTable",  \* ... between the statements that replace open_positions
      "stop",       \* the process is stopped by a signal and started again
      "panic",      \* the operator sends /panic
      "panicFail" } \* a close sent by /panic fails

ASSUME OrderIdsAssumption ==
    /\ OrderIds \cap Manual = {}
    /\ None \notin OrderIds \cup Manual
ASSUME NoneAssumption ==
    None \notin {"unplaced", "pending", "executed", "cancelled", "rejected"}
ASSUME BoundsAssumption == MaxParallel \in Nat /\ MaxRequests \in Nat
ASSUME RegimesAssumption ==
    Regimes \subseteq [faults : SUBSET FaultKinds, cancelStuck : BOOLEAN]

Positions == OrderIds \cup Manual
CloseKinds == {"CLOSE", "PARTIAL"}
Orders == [ kind : {"none", "BUY"} \cup CloseKinds,
            pos : Positions \cup {None},
            by : {"nobody", "cycle", "panic"},
            status : {"unplaced", "pending", "executed", "cancelled", "rejected"} ]
Unplaced == [kind |-> "none", pos |-> None, by |-> "nobody", status |-> "unplaced"]
Snapshots == [pos : SUBSET Positions, pend : SUBSET OrderIds]
EmptySnapshot == [pos |-> {}, pend |-> {}]
BuyRequest == [act |-> "BUY", pos |-> None]
Requests == {BuyRequest} \cup [act : CloseKinds, pos : Positions]
Results == [act : {"BUY", "CLOSE"}, order : OrderIds \cup {None}, pos : Positions \cup {None}]

VARIABLES
    order,      \* the broker's book of orders
    open,       \* the broker's open positions
    owned,      \* state.bot_owned_positions
    tracked,    \* the keys of monitor._tracked; order holds what it keeps of each
    pc,         \* where the main loop is
    snap,       \* the portfolio snapshot of the running cycle
    todo,       \* stuck orders the running cycle has yet to cancel
    queue,      \* approved requests not executed yet
    results,    \* the cycle's "ok" results
    perfOpen,   \* performance._open
    perfClosed, \* the closed_trades table
    disk,       \* bot_owned_positions in bot_state.json
    panicPc,    \* where panic_close_all is
    panicTodo,  \* positions panic_close_all has yet to close
    regime      \* the regime of this behaviour, fixed from the start

broker == <<order, open>>
cycle == <<pc, snap, todo, queue, results>>
perf == <<perfOpen, perfClosed>>
panic == <<panicPc, panicTodo>>
vars == <<order, open, owned, tracked, cycle, perf, disk, panic, regime>>

TypeOK ==
    /\ order \in [OrderIds -> Orders]
    /\ open \subseteq Positions
    /\ owned \subseteq Positions /\ disk \subseteq Positions
    /\ tracked \subseteq OrderIds
    /\ pc \in {"idle", "stuck", "decide", "execute", "save"}
    /\ snap \in Snapshots
    /\ todo \subseteq OrderIds
    /\ queue \in Seq(Requests)
    /\ results \subseteq Results
    /\ perfOpen \subseteq Positions /\ perfClosed \subseteq Positions
    /\ panicPc \in {"idle", "closing"}
    /\ panicTodo \subseteq Positions
    /\ regime \in Regimes

Init ==
    /\ order = [o \in OrderIds |-> Unplaced]
    /\ open = Manual
    /\ owned = {} /\ disk = {} /\ tracked = {}
    /\ pc = "idle" /\ snap = EmptySnapshot /\ todo = {}
    /\ queue = <<>> /\ results = {}
    /\ perfOpen = {} /\ perfClosed = {}
    /\ panicPc = "idle" /\ panicTodo = {}
    /\ regime \in Regimes

May(fault) == fault \in regime.faults

-----------------------------------------------------------------------------
(* The broker. *)

Fresh == {o \in OrderIds : order[o].status = "unplaced"}
Pending == {o \in OrderIds : order[o].status = "pending"}
IsBuy(o) == order[o].kind = "BUY"
IsClose(o) == order[o].kind \in CloseKinds
SetStatus(o, s) == order' = [order EXCEPT ![o].status = s]
Place(o, kind, pos, by) ==
    order' = [order EXCEPT ![o] =
                [kind |-> kind, pos |-> pos, by |-> by, status |-> "pending"]]

FillBuy(o) ==
    /\ o \in Pending /\ IsBuy(o)
    /\ SetStatus(o, "executed")
    /\ open' = open \cup {o}
    /\ UNCHANGED <<owned, tracked, cycle, perf, disk, panic>>

\* A full close removes the position, a partial one leaves the remainder open.
FillClose(o) ==
    /\ o \in Pending /\ IsClose(o) /\ order[o].pos \in open
    /\ SetStatus(o, "executed")
    /\ open' = IF order[o].kind = "CLOSE" THEN open \ {order[o].pos} ELSE open
    /\ UNCHANGED <<owned, tracked, cycle, perf, disk, panic>>

\* Market shut, no margin, position already gone.
RejectOrder(o) ==
    /\ o \in Pending
    /\ May("reject") \/ (IsClose(o) /\ order[o].pos \notin open)
    /\ SetStatus(o, "rejected")
    /\ UNCHANGED <<open, owned, tracked, cycle, perf, disk, panic>>

\* Stop-loss, take-profit, or the user closing by hand.
ExternalClose(p) ==
    /\ p \in open
    /\ open' = open \ {p}
    /\ UNCHANGED <<order, owned, tracked, cycle, perf, disk, panic>>

-----------------------------------------------------------------------------
(* First half of run_one: read the portfolio, reconcile, look for stuck    *)
(* orders.                                                                 *)

\* Mutants of Adopted: the order id is not compared; the pending orders are
\* searched instead of the positions.
AdoptedUnmatched(s) == IF tracked = {} THEN {} ELSE s.pos
AdoptedPending(s) == {o \in tracked : IsBuy(o) /\ o \in s.pend}

Adopted(s) == {o \in tracked : IsBuy(o) /\ o \in s.pos}
\* Mutant: every order the snapshot does not show as a position is dropped.
SettledIfAbsent(s) == {o \in tracked : o \notin s.pos}

SettledCloses(s) == {o \in tracked : IsClose(o) /\ order[o].pos \notin s.pos}
FindStuck(t, s) == {o \in t : IsBuy(o) => o \in s.pend}

\* Mutant: a read that comes back empty is taken at its word.
FetchPortfolioOrEmpty ==
    {[pos |-> open, pend |-> {o \in Pending : IsBuy(o)}], EmptySnapshot}

FetchPortfolio ==
    {[pos |-> open, pend |-> {o \in Pending : IsBuy(o)}]}
        \cup (IF May("fetch") THEN {EmptySnapshot} ELSE {})

\* Mutant: a close leaves the open entry.
RecordCloseKeepsOpen(ps) ==
    /\ perfClosed' = perfClosed \cup (ps \cap perfOpen)
    /\ UNCHANGED perfOpen

\* PerformanceTracker.record_open and record_close; closing what is not in the
\* open ledger does nothing.
RecordOpen(ps) == perfOpen' = perfOpen \cup ps
RecordClose(ps) ==
    /\ perfOpen' = perfOpen \ ps
    /\ perfClosed' = perfClosed \cup (ps \cap perfOpen)

\* monitor.reconcile, _record_performance_opens and the search of
\* _cancel_stuck_orders; which orders are past their grace is a matter of time.
BeginCycle ==
    /\ pc = "idle" /\ panicPc = "idle"
    /\ snap' \in FetchPortfolio
    /\ owned' = owned \cup Adopted(snap')
    /\ RecordOpen(Adopted(snap'))
    /\ tracked' = tracked \ (Adopted(snap') \cup SettledCloses(snap'))
    /\ IF regime.cancelStuck THEN todo' \in SUBSET FindStuck(tracked', snap') ELSE todo' = {}
    /\ pc' = "stuck"
    /\ UNCHANGED <<broker, queue, results, perfClosed, disk, panic>>

\* The DELETE went through.
CancelAccepted(o) ==
    /\ pc = "stuck" /\ o \in todo
    /\ o \in Pending
    /\ SetStatus(o, "cancelled")
    /\ tracked' = tracked \ {o}
    /\ todo' = todo \ {o}
    /\ UNCHANGED <<open, owned, pc, snap, queue, results, perf, disk, panic>>

\* What get_order_info says of a status after the DELETE failed; None when
\* the recheck fails as well.
Recheck(status) == {status} \cup (IF May("recheck") THEN {None} ELSE {})
\* Mutant: any answer counts as settled.
SettledIfKnown(answer) == answer # None

Settled(answer) == answer \in {"executed", "cancelled"}

\* The DELETE failed: refused because the order is no longer pending, or lost
\* on the way with or without having taken effect.
CancelFailed(o) ==
    /\ pc = "stuck" /\ o \in todo
    /\ \/ o \notin Pending /\ UNCHANGED order
       \/ o \in Pending /\ May("cancelRace")
          /\ (UNCHANGED order \/ SetStatus(o, "cancelled"))
    /\ \E answer \in Recheck(order'[o].status) :
          tracked' = IF Settled(answer) THEN tracked \ {o} ELSE tracked
    /\ todo' = todo \ {o}
    /\ UNCHANGED <<open, owned, pc, snap, queue, results, perf, disk, panic>>

\* _record_performance_vanished: an owned position missing from the snapshot
\* is booked as closed and disowned.
Vanished == owned \ snap.pos
BookVanished ==
    /\ pc = "stuck" /\ todo = {}
    /\ RecordClose(Vanished)
    /\ owned' = owned \ Vanished
    /\ pc' = "decide"
    /\ UNCHANGED <<broker, tracked, snap, todo, queue, results, disk, panic>>

-----------------------------------------------------------------------------
(* Second half: decide, pass the risk evaluator, execute, book. *)

BotPositionCount == Cardinality({p \in snap.pos : p \in owned})
Buys(q) == {i \in 1..Len(q) : q[i].act = "BUY"}

\* RiskEvaluator.evaluate as far as ownership and the number of positions go.
Approved(q) ==
    /\ \A i \in 1..Len(q) : q[i].act \in CloseKinds => q[i].pos \in owned
    /\ Buys(q) = {} \/ BotPositionCount + Cardinality(Buys(q)) <= MaxParallel

RequestLists == UNION {[1..n -> Requests] : n \in 0..MaxRequests}

\* Whatever the decision engine asks for, only approved requests are sent.
Decide ==
    /\ pc = "decide"
    /\ queue' \in {q \in RequestLists : Approved(q)}
    /\ Len(queue') <= Cardinality(Fresh)
    /\ results' = {}
    /\ pc' = "execute"
    /\ UNCHANGED <<broker, owned, tracked, snap, todo, perf, disk, panic>>

\* The order id an acknowledged placement reports.
ReportedIds(o) == {o} \cup (IF May("noId") THEN {None} ELSE {})

\* TradeExecutor._open.
ExecBuy ==
    /\ pc = "execute" /\ queue # <<>> /\ Head(queue) = BuyRequest
    /\ queue' = Tail(queue)
    /\ \/ \E o \in Fresh : \E id \in ReportedIds(o) :
             /\ Place(o, "BUY", o, "cycle")
             /\ results' = results \cup {[act |-> "BUY", order |-> id, pos |-> None]}
       \/ May("ambiguous") /\ \E o \in Fresh : Place(o, "BUY", o, "cycle")
          /\ UNCHANGED results
       \/ UNCHANGED <<order, results>>
    /\ UNCHANGED <<open, owned, tracked, pc, snap, todo, perf, disk, panic>>

\* TradeExecutor._close: an acknowledged full close disowns the position.
ExecClose ==
    /\ pc = "execute" /\ queue # <<>> /\ Head(queue).act \in CloseKinds
    /\ queue' = Tail(queue)
    /\ LET kind == Head(queue).act
           p == Head(queue).pos
       IN  \/ /\ p \in open
              /\ \E o \in Fresh : \E id \in ReportedIds(o) :
                    /\ Place(o, kind, p, "cycle")
                    /\ results' = results \cup {[act |-> "CLOSE", order |-> id, pos |-> p]}
              /\ owned' = IF kind = "CLOSE" THEN owned \ {p} ELSE owned
           \/ /\ May("ambiguous") /\ p \in open
              /\ \E o \in Fresh : Place(o, kind, p, "cycle")
              /\ UNCHANGED <<owned, results>>
           \/ UNCHANGED <<order, owned, results>>
    /\ UNCHANGED <<open, tracked, pc, snap, todo, perf, disk, panic>>

\* Mutants: results without an order id are tracked; partial closes are booked.
PlacedOrNone(rs) == {r.order : r \in rs}
ClosedAtAll(rs) == {r.pos : r \in {q \in rs : q.act = "CLOSE"}}

\* _track_placed_orders.
PlacedOrders(rs) == {r.order : r \in {q \in rs : q.order # None}}
\* _record_performance_closes: a closed position still owned was closed in part.
FullyClosed(rs) == {r.pos : r \in {q \in rs : q.act = "CLOSE"}} \ owned

FinishCycle ==
    /\ pc = "execute" /\ queue = <<>>
    /\ tracked' = tracked \cup PlacedOrders(results)
    /\ RecordClose(FullyClosed(results))
    /\ pc' = "save"
    /\ snap' = EmptySnapshot /\ results' = {}
    /\ UNCHANGED <<broker, owned, todo, queue, disk, panic>>

\* The main loop swallows an exception of the cycle and skips the save. It can
\* come from the decision phase, or from a BUY whose entry price is not positive.
CycleRaises ==
    /\ May("exception")
    /\ \/ pc = "decide"
       \/ pc = "execute" /\ queue # <<>> /\ Head(queue) = BuyRequest
    /\ pc' = "idle" /\ snap' = EmptySnapshot /\ queue' = <<>> /\ results' = {}
    /\ UNCHANGED <<broker, owned, tracked, todo, perf, disk, panic>>

\* controller.persist_state, called by the main loop without the lock.
Save ==
    /\ pc = "save"
    /\ disk' = owned
    /\ pc' = "idle"
    /\ UNCHANGED <<broker, owned, tracked, snap, todo, queue, results, perf, panic>>

-----------------------------------------------------------------------------
(* /panic, on an HTTP thread, under the controller's lock. *)

LockFree == pc \in {"idle", "save"} /\ panicPc = "idle"

PanicBegin ==
    /\ May("panic") /\ LockFree
    /\ \E targets \in {open, open \cap owned} :
          /\ Cardinality(targets) <= Cardinality(Fresh)
          /\ panicTodo' = targets
    /\ panicPc' = "closing"
    /\ UNCHANGED <<broker, owned, tracked, cycle, perf, disk>>

\* The position is disowned whether or not the close was accepted.
PanicClose(p) ==
    /\ panicPc = "closing" /\ p \in panicTodo
    /\ \/ p \in open /\ \E o \in Fresh : Place(o, "CLOSE", p, "panic")
       \/ (p \notin open \/ May("panicFail")) /\ UNCHANGED order
    /\ owned' = owned \ {p}
    /\ panicTodo' = panicTodo \ {p}
    /\ UNCHANGED <<open, tracked, cycle, perf, disk, panicPc>>

PanicEnd ==
    /\ panicPc = "closing" /\ panicTodo = {}
    /\ disk' = owned
    /\ panicPc' = "idle"
    /\ UNCHANGED <<broker, owned, tracked, cycle, perf, panicTodo>>

-----------------------------------------------------------------------------
(* The end of the process and the start of the next one: what was on disk  *)
(* is all that is left of the state, the monitor starts empty, and the     *)
(* performance tables were written as they changed, statement by statement *)
(* (isolation_level=None: "with self._conn" opens no transaction).         *)

Restart ==
    /\ tracked' = {} /\ pc' = "idle" /\ snap' = EmptySnapshot /\ todo' = {}
    /\ queue' = <<>> /\ results' = {} /\ panicPc' = "idle" /\ panicTodo' = {}
    /\ UNCHANGED broker

\* Positions a booking hook is about to record as closed.
ClosesDue ==
    CASE pc = "stuck" /\ todo = {} -> Vanished
      [] pc = "execute" /\ queue = <<>> -> FullyClosed(results)
      [] OTHER -> {}

\* Positions reconcile is about to adopt and record_open to enter.
OpensDue ==
    IF pc = "idle" /\ panicPc = "idle"
    THEN Adopted([pos |-> open, pend |-> Pending])
    ELSE {}

\* record_close appends to closed_trades and then rewrites open_positions: a
\* crash between the two writes, or between two trades, leaves some trades
\* moved and up to one in both tables.
TornRecordClose(ps) ==
    \E booked \in SUBSET (ps \cap perfOpen) : \E cleared \in SUBSET booked :
        /\ Cardinality(booked \ cleared) <= 1
        /\ perfClosed' = perfClosed \cup booked
        /\ perfOpen' = perfOpen \ cleared

Crash ==
    /\ May("crash")
    /\ owned' = disk
    /\ TornRecordClose(ClosesDue)
    /\ Restart /\ UNCHANGED disk

\* A rewrite of open_positions is going on: record_open or record_close runs, or
\* observe_positions, which follows the booking of the vanished positions.
RewriteDue ==
    \/ OpensDue # {}
    \/ pc = "stuck" /\ todo = {}
    \/ ClosesDue \cap perfOpen # {}

\* save_open_positions deletes every row and inserts the rows one by one: a crash
\* in between leaves any part of what it was writing.
CrashInRewrite ==
    /\ May("crash") /\ May("tornTable") /\ RewriteDue
    /\ owned' = disk
    /\ \E booked \in SUBSET (ClosesDue \cap perfOpen), entered \in SUBSET OpensDue :
          /\ perfClosed' = perfClosed \cup booked
          /\ perfOpen' \in SUBSET ((perfOpen \cup entered) \ booked)
    /\ Restart /\ UNCHANGED disk

\* A signal ends the loop between cycles, or a cycle before it executes.
StopAndStart ==
    /\ May("stop") /\ panicPc = "idle" /\ pc \in {"idle", "decide"}
    /\ disk' = owned
    /\ Restart /\ UNCHANGED <<owned, perf>>

-----------------------------------------------------------------------------
Broker ==
    \/ \E o \in OrderIds : FillBuy(o) \/ FillClose(o) \/ RejectOrder(o)
    \/ \E p \in Positions : ExternalClose(p)

Cycle ==
    \/ BeginCycle \/ BookVanished \/ Decide
    \/ \E o \in OrderIds : CancelAccepted(o) \/ CancelFailed(o)
    \/ ExecBuy \/ ExecClose \/ FinishCycle \/ CycleRaises \/ Save

Panic == PanicBegin \/ PanicEnd \/ \E p \in Positions : PanicClose(p)

Next ==
    /\ Broker \/ Cycle \/ Panic \/ Crash \/ CrashInRewrite \/ StopAndStart
    /\ UNCHANGED regime

Spec == Init /\ [][Next]_vars

\* The loop runs on; the portfolio is not unreadable for ever.
ReadPortfolio == BeginCycle /\ snap'.pos = open
FairSpec ==
    /\ Spec
    /\ WF_vars(Cycle /\ UNCHANGED regime)
    /\ SF_vars(ReadPortfolio /\ UNCHANGED regime)

-----------------------------------------------------------------------------
(* What should hold. A property that needs some fault to be absent says so. *)

Without(faults) == regime.faults \cap faults = {}
BotPositions == {o \in OrderIds : IsBuy(o) /\ order[o].status = "executed"}
CloseUnderway(p) == \E o \in Pending : order[o].kind = "CLOSE" /\ order[o].pos = p

\* The bot only ever counts as its own a position that one of its own BUY
\* orders opened, in memory and in the state file (state.py: "so we don't
\* accidentally close positions the user already had"), even when orders time
\* out, the process dies, or /panic runs between two cycles.
OnlyBotPositionsOwned == owned \cup disk \subseteq BotPositions

\* An order the trading cycle sends to close something closes a position the
\* bot opened, whatever the decision engine asked for; only /panic may touch
\* the user's own positions (risk._evaluate_close).
ClosesOnlyOwn ==
    \A o \in OrderIds :
        IsClose(o) /\ order[o].by = "cycle" => order[o].pos \in BotPositions

\* The user's positions are left alone: none becomes the bot's by a wrong match, a
\* restart or a stale file, and so none is ever closed by a cycle.
UserPositionsAreSafe == OnlyBotPositionsOwned /\ ClosesOnlyOwn

\* No trade is in the open and in the closed ledger at once, although closes
\* are booked by two different hooks, portfolio reads and cycles fail, /panic
\* disowns positions behind the ledger's back and the bot is stopped and
\* started in between (tracker.record_open, tracker.record_close). Only a crash
\* between the two writes of record_close can break it.
LedgerDisjoint == Without({"crash"}) => perfOpen \cap perfClosed = {}

\* What the bot owns, or will own after a restart, went through record_open and
\* is still there, so that its close will be found in the ledger: also when the
\* process dies between two writes of the ledger, though not in the middle of one
\* (bot_state.json and the tables are saved apart, nothing reconciles them).
OwnedIsBooked ==
    Without({"tornTable"}) => owned \cup disk \subseteq perfOpen \cup perfClosed

\* The ledger can be relied on: a trade is in one of its parts, and whatever the
\* bot owns is in one, unless a crash tore the table of open positions.
LedgerSound == LedgerDisjoint /\ OwnedIsBooked

\* Between two cycles the open ledger holds exactly what the bot owns, unless a
\* cycle raised, the process was killed, or /panic ran: only
\* _record_performance_closes and _record_performance_vanished take a position
\* out of the ledger, and one they miss stays in _open for ever.
LedgerMatchesOwnership ==
    Without({"exception", "crash", "panic"}) /\ pc \in {"idle", "save"}
        => perfOpen = owned

\* An order leaves the tracked map only when the broker is done with it or its
\* position is gone, as long as the portfolio can be read and the process lives.
EvictionIsSettled ==
    [][Without({"fetch", "crash", "stop"}) =>
         \A o \in tracked \ tracked' :
            \/ order'[o].status \in {"executed", "cancelled"}
            \/ IsClose(o) /\ order[o].pos \notin open']_vars

\* Positions booked as "external" because the portfolio did not list them.
JustVanished == IF pc = "stuck" /\ pc' = "decide" THEN owned \ owned' ELSE {}

\* They really are gone (_record_performance_vanished: "positions that vanished
\* from the broker"), as long as the portfolio can be read.
VanishedIsGone == [][Without({"fetch"}) => JustVanished \cap open = {}]_vars

\* The same, as the comment has it: whether or not the portfolio could be read.
VanishedIsAlwaysGone == [][JustVanished \cap open = {}]_vars

\* A position the bot opened never falls out of its sight while it is open: it
\* is tracked until adopted, then owned until a close order is on its way. That
\* holds through /panic, for orders that are acknowledged and not cancelled as
\* stuck.
NoOrphans ==
    /\ Without(FaultKinds \ {"panic"})
    /\ ~regime.cancelStuck
    => \A o \in BotPositions \cap open :
          \/ o \in tracked \cup owned
          \/ o \in PlacedOrders(results)
          \/ CloseUnderway(o)

\* Every BUY the cycle placed and the broker filled is adopted, or still can be
\* (monitor.py: "adopt newly-opened positions whose orderID matches one we
\* placed this session").
FilledBuysAreKnown ==
    BotPositions \subseteq
        tracked \cup PlacedOrders(results) \cup perfOpen \cup perfClosed

\* A position opened by a BUY the monitor tracks is adopted, or closed,
\* although any one reading of the portfolio may fail and cycles may raise.
FilledBuyIsAdopted ==
    \A o \in OrderIds :
        o \in tracked /\ IsBuy(o) /\ o \in open ~> o \in owned \/ o \notin open
=============================================================================
