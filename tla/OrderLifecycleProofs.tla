------------------------ MODULE OrderLifecycleProofs ------------------------
(***************************************************************************)
(* Theorems about OrderLifecycle, for any number of order ids, any user    *)
(* positions, any bounds and any regime of faults.                         *)
(***************************************************************************)
EXTENDS OrderLifecycle, SequenceTheorems, TLAPS

(* The book of orders keeps its type under the two ways of changing it. *)

LEMMA SetStatusTyped ==
    ASSUME TypeOK, NEW o \in OrderIds,
           NEW s \in {"executed", "cancelled", "rejected"}, SetStatus(o, s)
    PROVE  order' \in [OrderIds -> Orders]
BY DEF TypeOK, SetStatus, Orders

LEMMA PlaceTyped ==
    ASSUME TypeOK, NEW o \in OrderIds, NEW kind \in {"BUY"} \cup CloseKinds,
           NEW p \in Positions, NEW by \in {"cycle", "panic"}, Place(o, kind, p, by)
    PROVE  order' \in [OrderIds -> Orders]
<1>1. [kind |-> kind, pos |-> p, by |-> by, status |-> "pending"] \in Orders
  BY DEF Orders
<1>2. QED
  BY <1>1 DEF TypeOK, Place

LEMMA SnapshotTyped ==
    ASSUME TypeOK, NEW s \in FetchPortfolio
    PROVE  s \in Snapshots
BY DEF TypeOK, FetchPortfolio, Snapshots, EmptySnapshot, Pending

LEMMA QueueTyped ==
    ASSUME NEW q \in RequestLists
    PROVE  q \in Seq(Requests)
<1>1. PICK n \in 0..MaxRequests : q \in [1..n -> Requests]
  BY DEF RequestLists
<1>2. n \in Nat
  BY <1>1, BoundsAssumption
<1>3. QED
  BY <1>1, <1>2

\* The next request and the queue behind it keep their types.
LEMMA HeadAndTailTyped ==
    ASSUME TypeOK, queue # <<>>
    PROVE  /\ Head(queue) \in Requests
           /\ Tail(queue) \in Seq(Requests)
BY DEF TypeOK

-----------------------------------------------------------------------------
(* Type correctness. *)

\* A crash between the writes of record_close loses no trade: each stays in one
\* of the two tables.
LEMMA TornRecordCloseMoves ==
    ASSUME NEW ps, TornRecordClose(ps)
    PROVE  /\ (perfOpen \cup perfClosed)' = perfOpen \cup perfClosed
           /\ perfOpen' \subseteq perfOpen
           /\ perfClosed' \subseteq perfOpen \cup perfClosed
<1>1. PICK booked \in SUBSET (ps \cap perfOpen) : \E cleared \in SUBSET booked :
          /\ perfClosed' = perfClosed \cup booked
          /\ perfOpen' = perfOpen \ cleared
  BY DEF TornRecordClose
<1>2. QED
  BY <1>1

\* What record_open is about to enter are orders of the bot.
LEMMA OpensDueTyped == TypeOK => OpensDue \subseteq OrderIds
BY DEF OpensDue, Adopted, TypeOK

LEMMA TypeInit == Init => TypeOK
<1>1. [o \in OrderIds |-> Unplaced] \in [OrderIds -> Orders]
  BY DEF Unplaced, Orders
<1>2. EmptySnapshot \in Snapshots
  BY DEF EmptySnapshot, Snapshots
<1>3. <<>> \in Seq(Requests)
  OBVIOUS
<1>4. QED
  BY <1>1, <1>2, <1>3 DEF Init, TypeOK, Positions

LEMMA TypeStep == TypeOK /\ [Next]_vars => TypeOK'
<1> SUFFICES ASSUME TypeOK, [Next]_vars PROVE TypeOK'
  OBVIOUS
<1>0. EmptySnapshot \in Snapshots /\ <<>> \in Seq(Requests)
  BY DEF EmptySnapshot, Snapshots
<1> USE DEF broker, cycle, perf, panic
<1>1. ASSUME NEW o \in OrderIds, FillBuy(o), UNCHANGED regime PROVE TypeOK'
  <2>1. order' \in [OrderIds -> Orders]
    BY <1>1, SetStatusTyped DEF FillBuy
  <2>2. QED
    BY <1>1, <2>1 DEF FillBuy, TypeOK, Positions
<1>2. ASSUME NEW o \in OrderIds, FillClose(o), UNCHANGED regime PROVE TypeOK'
  <2>1. order' \in [OrderIds -> Orders]
    BY <1>2, SetStatusTyped DEF FillClose
  <2>2. QED
    BY <1>2, <2>1 DEF FillClose, TypeOK
<1>3. ASSUME NEW o \in OrderIds, RejectOrder(o), UNCHANGED regime PROVE TypeOK'
  <2>1. order' \in [OrderIds -> Orders]
    BY <1>3, SetStatusTyped DEF RejectOrder
  <2>2. QED
    BY <1>3, <2>1 DEF RejectOrder, TypeOK
<1>4. ASSUME NEW p \in Positions, ExternalClose(p), UNCHANGED regime PROVE TypeOK'
  BY <1>4 DEF ExternalClose, TypeOK
<1>5. ASSUME BeginCycle, UNCHANGED regime PROVE TypeOK'
  <2>1. snap' \in Snapshots
    BY <1>5, SnapshotTyped DEF BeginCycle
  <2>2. Adopted(snap') \subseteq OrderIds
    BY DEF Adopted, TypeOK
  <2>3. todo' \subseteq OrderIds
    BY <1>5 DEF BeginCycle, FindStuck, TypeOK
  <2>4. QED
    BY <1>5, <2>1, <2>2, <2>3 DEF BeginCycle, RecordOpen, TypeOK, Positions
<1>6. ASSUME NEW o \in OrderIds, CancelAccepted(o), UNCHANGED regime PROVE TypeOK'
  <2>1. order' \in [OrderIds -> Orders]
    BY <1>6, SetStatusTyped DEF CancelAccepted
  <2>2. QED
    BY <1>6, <2>1 DEF CancelAccepted, TypeOK
<1>7. ASSUME NEW o \in OrderIds, CancelFailed(o), UNCHANGED regime PROVE TypeOK'
  <2>1. order' \in [OrderIds -> Orders]
    BY <1>7, SetStatusTyped DEF CancelFailed, TypeOK
  <2>2. tracked' \subseteq OrderIds
    BY <1>7 DEF CancelFailed, TypeOK
  <2>3. QED
    BY <1>7, <2>1, <2>2 DEF CancelFailed, TypeOK
<1>8. ASSUME BookVanished, UNCHANGED regime PROVE TypeOK'
  BY <1>8 DEF BookVanished, Vanished, RecordClose, TypeOK
<1>9. ASSUME Decide, UNCHANGED regime PROVE TypeOK'
  <2>1. queue' \in Seq(Requests)
    BY <1>9, QueueTyped DEF Decide
  <2>2. QED
    BY <1>9, <2>1 DEF Decide, TypeOK
<1>10. ASSUME ExecBuy, UNCHANGED regime PROVE TypeOK'
  <2>1. Tail(queue) \in Seq(Requests)
    BY <1>10, HeadAndTailTyped DEF ExecBuy
  <2>2. order' \in [OrderIds -> Orders]
    BY <1>10, PlaceTyped DEF ExecBuy, Fresh, Positions, TypeOK
  <2>3. results' \subseteq Results
    BY <1>10 DEF ExecBuy, Fresh, ReportedIds, Results, TypeOK
  <2>4. QED
    BY <1>10, <2>1, <2>2, <2>3 DEF ExecBuy, TypeOK
<1>11. ASSUME ExecClose, UNCHANGED regime PROVE TypeOK'
  <2>1. Head(queue) \in Requests /\ Tail(queue) \in Seq(Requests)
    BY <1>11, HeadAndTailTyped DEF ExecClose
  <2>2. Head(queue).act \in CloseKinds /\ Head(queue).pos \in Positions
    BY <1>11, <2>1 DEF ExecClose, Requests, BuyRequest, CloseKinds
  <2>3. order' \in [OrderIds -> Orders]
    BY <1>11, <2>2, PlaceTyped DEF ExecClose, Fresh, TypeOK
  <2>4. results' \subseteq Results
    BY <1>11, <2>2 DEF ExecClose, Fresh, ReportedIds, Results, TypeOK
  <2>5. owned' \subseteq Positions
    BY <1>11 DEF ExecClose, TypeOK
  <2>6. QED
    BY <1>11, <2>1, <2>3, <2>4, <2>5 DEF ExecClose, TypeOK
<1>12. ASSUME FinishCycle, UNCHANGED regime PROVE TypeOK'
  <2>1. PlacedOrders(results) \subseteq OrderIds
    BY DEF PlacedOrders, Results, TypeOK
  <2>2. QED
    BY <1>0, <1>12, <2>1 DEF FinishCycle, RecordClose, TypeOK
<1>13. ASSUME CycleRaises, UNCHANGED regime PROVE TypeOK'
  BY <1>0, <1>13 DEF CycleRaises, TypeOK
<1>14. ASSUME Save, UNCHANGED regime PROVE TypeOK'
  BY <1>14 DEF Save, TypeOK
<1>15. ASSUME PanicBegin, UNCHANGED regime PROVE TypeOK'
  BY <1>15 DEF PanicBegin, TypeOK
<1>16. ASSUME NEW p \in Positions, PanicClose(p), UNCHANGED regime PROVE TypeOK'
  <2>1. order' \in [OrderIds -> Orders]
    BY <1>16, PlaceTyped DEF PanicClose, Fresh, CloseKinds, TypeOK
  <2>2. QED
    BY <1>16, <2>1 DEF PanicClose, TypeOK
<1>17. ASSUME PanicEnd, UNCHANGED regime PROVE TypeOK'
  BY <1>17 DEF PanicEnd, TypeOK
<1>18. ASSUME Crash, UNCHANGED regime PROVE TypeOK'
  <2>1. perfOpen' \subseteq Positions /\ perfClosed' \subseteq Positions
    BY <1>0, <1>18, TornRecordCloseMoves DEF Crash, TypeOK
  <2>2. QED
    BY <1>0, <1>18, <2>1 DEF Crash, Restart, TypeOK
<1>19. ASSUME StopAndStart, UNCHANGED regime PROVE TypeOK'
  BY <1>0, <1>19 DEF StopAndStart, Restart, TypeOK
<1>20. ASSUME CrashInRewrite, UNCHANGED regime PROVE TypeOK'
  <2>1. perfOpen' \subseteq Positions /\ perfClosed' \subseteq Positions
    BY <1>20, OpensDueTyped DEF CrashInRewrite, TypeOK, Positions
  <2>2. QED
    BY <1>0, <1>20, <2>1 DEF CrashInRewrite, Restart, TypeOK
<1>21. CASE UNCHANGED vars
  BY <1>21 DEF vars, TypeOK
<1>22. QED
  BY <1>1, <1>2, <1>3, <1>4, <1>5, <1>6, <1>7, <1>8, <1>9, <1>10, <1>11, <1>12,
     <1>13, <1>14, <1>15, <1>16, <1>17, <1>18, <1>19, <1>20, <1>21
     DEF Next, Broker, Cycle, Panic

\* Every variable keeps its type (the invariant TypeOK of the runs).
THEOREM TypeCorrect == Spec => []TypeOK
BY TypeInit, TypeStep, PTL DEF Spec

-----------------------------------------------------------------------------
(* Ownership. A position the bot owns got into owned through the snapshot  *)
(* and a tracked BUY, so the invariant follows the position from the       *)
(* broker's book to the snapshot, to owned, to disk, to the close requests *)
(* and to the close orders. It is kept because an executed BUY stays one.  *)

SnapshotOfBots == snap.pos \cap OrderIds \subseteq BotPositions
OpenOfBots == open \cap OrderIds \subseteq BotPositions
QueueOfBots ==
    \A i \in 1..Len(queue) : queue[i].act \in CloseKinds => queue[i].pos \in BotPositions

OwnershipInv ==
    /\ TypeOK
    /\ OpenOfBots /\ SnapshotOfBots
    /\ OnlyBotPositionsOwned
    /\ QueueOfBots /\ ClosesOnlyOwn

\* A decided order stays the order it was, and an executed buy is a position of the bot.
LEMMA SetStatusKeepsBots ==
    ASSUME TypeOK, NEW o \in Pending, NEW s \in {"executed", "cancelled", "rejected"},
           SetStatus(o, s)
    PROVE  /\ BotPositions \subseteq BotPositions'
           /\ IsBuy(o) /\ s = "executed" => o \in BotPositions'
           /\ \A q \in OrderIds : /\ order'[q].kind = order[q].kind
                                  /\ order'[q].pos = order[q].pos
                                  /\ order'[q].by = order[q].by
BY DEF TypeOK, SetStatus, Pending, BotPositions, IsBuy, Orders

\* A placed order only adds to the positions of the bot.
LEMMA PlaceKeepsBots ==
    ASSUME TypeOK, NEW o \in Fresh, NEW kind, NEW p, NEW by, Place(o, kind, p, by)
    PROVE  /\ BotPositions \subseteq BotPositions'
           /\ order'[o] = [kind |-> kind, pos |-> p, by |-> by, status |-> "pending"]
           /\ \A q \in OrderIds \ {o} : order'[q] = order[q]
BY DEF TypeOK, Place, Fresh, BotPositions, IsBuy, Orders

\* A new order keeps ClosesOnlyOwn, provided a close of the cycle targets a bot
\* position.
LEMMA PlaceClosesOnlyOwn ==
    ASSUME TypeOK, ClosesOnlyOwn, NEW o \in Fresh, NEW kind, NEW p, NEW by,
           Place(o, kind, p, by),
           kind \in CloseKinds /\ by = "cycle" => p \in BotPositions
    PROVE  BotPositions \subseteq BotPositions' /\ ClosesOnlyOwn'
<1>1. BotPositions \subseteq BotPositions'
  BY PlaceKeepsBots
<1>2. /\ order'[o] = [kind |-> kind, pos |-> p, by |-> by, status |-> "pending"]
      /\ \A q \in OrderIds \ {o} : order'[q] = order[q]
  BY PlaceKeepsBots
<1>3. ASSUME NEW q \in OrderIds, order'[q].kind \in CloseKinds, order'[q].by = "cycle"
      PROVE  order'[q].pos \in BotPositions'
  <2>1. CASE q = o
    BY <1>1, <1>2, <1>3, <2>1
  <2>2. CASE q # o
    BY <1>1, <1>2, <1>3, <2>2 DEF ClosesOnlyOwn, IsClose
  <2>3. QED
    BY <2>1, <2>2
<1>4. QED
  BY <1>1, <1>3 DEF ClosesOnlyOwn, IsClose

\* Without a change of the orders the bot's positions are the same.
LEMMA BotsSame == UNCHANGED order => BotPositions' = BotPositions
BY DEF BotPositions, IsBuy

\* What is adopted from a portfolio answer was opened by an order of the bot.
LEMMA AdoptedAreBots ==
    ASSUME TypeOK, OpenOfBots, NEW s \in FetchPortfolio
    PROVE  /\ Adopted(s) \subseteq BotPositions
           /\ s.pos \cap OrderIds \subseteq BotPositions
BY DEF FetchPortfolio, EmptySnapshot, Adopted, OpenOfBots, TypeOK

\* Before any order there is nothing to own.
LEMMA OwnershipInit == Init => OwnershipInv
<1> SUFFICES ASSUME Init PROVE OwnershipInv
  OBVIOUS
<1>1. \A o \in OrderIds : order[o].kind = "none"
  BY DEF Init, Unplaced
<1>2. Len(queue) = 0
  BY DEF Init
<1>3. OpenOfBots /\ SnapshotOfBots
  BY OrderIdsAssumption DEF Init, OpenOfBots, SnapshotOfBots, EmptySnapshot
<1>4. QED
  BY <1>1, <1>2, <1>3, TypeInit
     DEF Init, OwnershipInv, OnlyBotPositionsOwned, QueueOfBots, ClosesOnlyOwn,
         IsClose, CloseKinds

\* Every step keeps ownership, snapshot, queue and closes among the positions of the
\* bot.
LEMMA OwnershipStep == OwnershipInv /\ [Next]_vars => OwnershipInv'
<1> SUFFICES ASSUME OwnershipInv, [Next]_vars PROVE OwnershipInv'
  OBVIOUS
<1> USE DEF broker, cycle, perf, panic
<1>0. TypeOK /\ TypeOK'
  BY TypeStep DEF OwnershipInv
<1>a. ASSUME BotPositions \subseteq BotPositions', UNCHANGED queue
      PROVE  QueueOfBots'
  BY <1>a DEF OwnershipInv, QueueOfBots
<1>b. ASSUME BotPositions \subseteq BotPositions',
             \A q \in OrderIds : /\ order'[q].kind = order[q].kind
                                 /\ order'[q].pos = order[q].pos
                                 /\ order'[q].by = order[q].by
      PROVE  ClosesOnlyOwn'
  BY <1>b DEF OwnershipInv, ClosesOnlyOwn, IsClose
<1>c. ASSUME queue' = <<>> PROVE QueueOfBots'
  BY <1>c DEF QueueOfBots
<1>d. ASSUME snap' = EmptySnapshot PROVE SnapshotOfBots'
  BY <1>d DEF SnapshotOfBots, EmptySnapshot
<1>1. ASSUME NEW o \in OrderIds, FillBuy(o) PROVE OwnershipInv'
  <2>1. /\ BotPositions \subseteq BotPositions' /\ o \in BotPositions'
        /\ \A q \in OrderIds : /\ order'[q].kind = order[q].kind
                               /\ order'[q].pos = order[q].pos
                               /\ order'[q].by = order[q].by
    BY <1>0, <1>1, SetStatusKeepsBots DEF FillBuy
  <2>2. QED
    BY <1>0, <1>1, <1>a, <1>b, <2>1
       DEF FillBuy, OwnershipInv, OpenOfBots, SnapshotOfBots, OnlyBotPositionsOwned
<1>2. ASSUME NEW o \in OrderIds, FillClose(o) \/ RejectOrder(o) PROVE OwnershipInv'
  <2>1. /\ BotPositions \subseteq BotPositions'
        /\ \A q \in OrderIds : /\ order'[q].kind = order[q].kind
                               /\ order'[q].pos = order[q].pos
                               /\ order'[q].by = order[q].by
    BY <1>0, <1>2, SetStatusKeepsBots DEF FillClose, RejectOrder
  <2>2. open' \subseteq open
    BY <1>2 DEF FillClose, RejectOrder
  <2>3. QED
    BY <1>0, <1>2, <1>a, <1>b, <2>1, <2>2
       DEF FillClose, RejectOrder, OwnershipInv, OpenOfBots, SnapshotOfBots,
           OnlyBotPositionsOwned
<1>3. ASSUME NEW p \in Positions, ExternalClose(p) PROVE OwnershipInv'
  BY <1>0, <1>3, <1>a, <1>b, BotsSame
     DEF ExternalClose, OwnershipInv, OpenOfBots, SnapshotOfBots, OnlyBotPositionsOwned
<1>4. ASSUME BeginCycle PROVE OwnershipInv'
  <2>1. /\ Adopted(snap') \subseteq BotPositions
        /\ snap'.pos \cap OrderIds \subseteq BotPositions
    BY <1>0, <1>4, AdoptedAreBots DEF BeginCycle, OwnershipInv
  <2>2. QED
    BY <1>0, <1>4, <1>a, <1>b, <2>1, BotsSame
       DEF BeginCycle, OwnershipInv, OpenOfBots, SnapshotOfBots, OnlyBotPositionsOwned
<1>5. ASSUME NEW o \in OrderIds, CancelAccepted(o) \/ CancelFailed(o) PROVE OwnershipInv'
  <2>1. /\ BotPositions \subseteq BotPositions'
        /\ \A q \in OrderIds : /\ order'[q].kind = order[q].kind
                               /\ order'[q].pos = order[q].pos
                               /\ order'[q].by = order[q].by
    <3>1. CASE UNCHANGED order
      BY <3>1, BotsSame
    <3>2. CASE o \in Pending /\ SetStatus(o, "cancelled")
      BY <1>0, <3>2, SetStatusKeepsBots
    <3>3. QED
      BY <1>5, <3>1, <3>2 DEF CancelAccepted, CancelFailed
  <2>2. UNCHANGED <<open, snap, owned, disk, queue>>
    BY <1>5 DEF CancelAccepted, CancelFailed
  <2>3. QED
    BY <1>0, <1>a, <1>b, <2>1, <2>2
       DEF OwnershipInv, OpenOfBots, SnapshotOfBots, OnlyBotPositionsOwned
<1>6. ASSUME BookVanished PROVE OwnershipInv'
  BY <1>0, <1>6, <1>a, <1>b, BotsSame
     DEF BookVanished, OwnershipInv, OpenOfBots, SnapshotOfBots, OnlyBotPositionsOwned
<1>7. ASSUME Decide PROVE OwnershipInv'
  <2>1. QueueOfBots'
    BY <1>7, BotsSame DEF Decide, Approved, OwnershipInv, OnlyBotPositionsOwned, QueueOfBots
  <2>2. QED
    BY <1>0, <1>7, <1>b, <2>1, BotsSame
       DEF Decide, OwnershipInv, OpenOfBots, SnapshotOfBots, OnlyBotPositionsOwned
<1>8. ASSUME queue # <<>>, queue' = Tail(queue), BotPositions \subseteq BotPositions'
      PROVE  QueueOfBots'
  <2>1. /\ Len(queue') = Len(queue) - 1 /\ Len(queue) \in Nat
        /\ \A i \in 1..Len(queue') : queue'[i] = queue[i + 1]
    BY <1>0, <1>8, HeadTailProperties DEF TypeOK
  <2>2. \A i \in 1..Len(queue') : i + 1 \in 1..Len(queue)
    BY <2>1
  <2>3. QED
    BY <1>8, <2>1, <2>2 DEF OwnershipInv, QueueOfBots
<1>9. ASSUME ExecBuy PROVE OwnershipInv'
  <2>1. /\ BotPositions \subseteq BotPositions'
        /\ ClosesOnlyOwn'
    <3>1. ASSUME NEW o \in Fresh, Place(o, "BUY", o, "cycle")
          PROVE  BotPositions \subseteq BotPositions' /\ ClosesOnlyOwn'
      BY <1>0, <3>1, PlaceClosesOnlyOwn DEF OwnershipInv, CloseKinds
    <3>2. CASE UNCHANGED order
      BY <1>b, <3>2, BotsSame
    <3>3. QED
      BY <1>9, <3>1, <3>2 DEF ExecBuy
  <2>2. QED
    BY <1>0, <1>8, <1>9, <2>1
       DEF ExecBuy, OwnershipInv, OpenOfBots, SnapshotOfBots, OnlyBotPositionsOwned
<1>10. ASSUME ExecClose PROVE OwnershipInv'
  <2>1. Head(queue).act \in CloseKinds /\ Head(queue).pos \in BotPositions
    BY <1>0, <1>10, HeadTailProperties, LenProperties
       DEF ExecClose, OwnershipInv, QueueOfBots, TypeOK
  <2>2. /\ BotPositions \subseteq BotPositions'
        /\ ClosesOnlyOwn'
    <3>1. ASSUME NEW o \in Fresh,
                 Place(o, Head(queue).act, Head(queue).pos, "cycle")
          PROVE  BotPositions \subseteq BotPositions' /\ ClosesOnlyOwn'
      BY <1>0, <2>1, <3>1, PlaceClosesOnlyOwn DEF OwnershipInv
    <3>2. CASE UNCHANGED order
      BY <1>b, <3>2, BotsSame
    <3>3. QED
      BY <1>10, <3>1, <3>2 DEF ExecClose
  <2>3. owned' \subseteq owned
    BY <1>10 DEF ExecClose
  <2>4. QED
    BY <1>0, <1>8, <1>10, <2>2, <2>3
       DEF ExecClose, OwnershipInv, OpenOfBots, SnapshotOfBots, OnlyBotPositionsOwned
<1>11. ASSUME FinishCycle \/ CycleRaises PROVE OwnershipInv'
  BY <1>0, <1>11, <1>a, <1>b, <1>c, <1>d, BotsSame
     DEF FinishCycle, CycleRaises, OwnershipInv, OpenOfBots, OnlyBotPositionsOwned
<1>12. ASSUME Save \/ PanicBegin \/ PanicEnd PROVE OwnershipInv'
  BY <1>0, <1>12, <1>a, <1>b, BotsSame
     DEF Save, PanicBegin, PanicEnd, OwnershipInv, OpenOfBots, SnapshotOfBots,
         OnlyBotPositionsOwned
<1>13. ASSUME NEW p \in Positions, PanicClose(p) PROVE OwnershipInv'
  <2>1. /\ BotPositions \subseteq BotPositions'
        /\ ClosesOnlyOwn'
    <3>1. ASSUME NEW o \in Fresh, Place(o, "CLOSE", p, "panic")
          PROVE  BotPositions \subseteq BotPositions' /\ ClosesOnlyOwn'
      BY <1>0, <3>1, PlaceClosesOnlyOwn DEF OwnershipInv
    <3>2. CASE UNCHANGED order
      BY <1>b, <3>2, BotsSame
    <3>3. QED
      BY <1>13, <3>1, <3>2 DEF PanicClose
  <2>2. QED
    BY <1>0, <1>13, <1>a, <2>1
       DEF PanicClose, OwnershipInv, OpenOfBots, SnapshotOfBots, OnlyBotPositionsOwned
<1>14. ASSUME Crash \/ CrashInRewrite \/ StopAndStart PROVE OwnershipInv'
  BY <1>0, <1>14, <1>b, <1>c, <1>d, BotsSame
     DEF Crash, CrashInRewrite, StopAndStart, Restart, OwnershipInv, OpenOfBots, OnlyBotPositionsOwned
<1>15. CASE UNCHANGED vars
  BY <1>0, <1>15, <1>a, <1>b, BotsSame
     DEF vars, OwnershipInv, OpenOfBots, SnapshotOfBots, OnlyBotPositionsOwned
<1>16. QED
  BY <1>1, <1>2, <1>3, <1>4, <1>5, <1>6, <1>7, <1>9, <1>10, <1>11, <1>12, <1>13,
     <1>14, <1>15 DEF Next, Broker, Cycle, Panic

LEMMA Ownership == Spec => []OwnershipInv
BY OwnershipInit, OwnershipStep, PTL DEF Spec

\* The bot owns, in memory and on disk, only positions its own BUY orders opened, and
\* no cycle ever sends a close order for another: placements that time out, crashes and
\* /panic included.
THEOREM UserPositionsStaySafe == Spec => []UserPositionsAreSafe
<1>1. OwnershipInv => UserPositionsAreSafe
  BY DEF OwnershipInv, UserPositionsAreSafe
<1>2. QED
  BY <1>1, Ownership, PTL

-----------------------------------------------------------------------------
(* The ledger. A position is booked when it is adopted and adopted at most *)
(* once, because adoption takes the order out of tracked and an order id   *)
(* is never handed out twice: what may still be adopted is not booked yet. *)

NotYetBooked ==
    \A o \in tracked \cup PlacedOrders(results) :
        IsBuy(o) => o \notin perfOpen \cup perfClosed

LedgerInv ==
    /\ OwnershipInv
    /\ perfOpen \cup perfClosed \subseteq BotPositions
    /\ LedgerDisjoint /\ OwnedIsBooked
    /\ NotYetBooked
    /\ pc # "execute" => results = {}

LEMMA LedgerInit == Init => LedgerInv
BY OwnershipInit
   DEF Init, LedgerInv, LedgerDisjoint, Without, OwnedIsBooked, NotYetBooked, PlacedOrders

\* Recording a close moves a trade between the books and never copies it.
LEMMA RecordCloseKeepsLedger ==
    ASSUME NEW ps, RecordClose(ps), LedgerDisjoint, UNCHANGED regime
    PROVE  /\ LedgerDisjoint'
           /\ (perfOpen \cup perfClosed)' = perfOpen \cup perfClosed
BY DEF RecordClose, LedgerDisjoint, Without

\* Every step keeps what the bot owns booked, once.
LEMMA LedgerStep == LedgerInv /\ [Next]_vars => LedgerInv'
<1> SUFFICES ASSUME LedgerInv, [Next]_vars PROVE LedgerInv'
  OBVIOUS
<1> USE DEF broker, cycle, perf, panic
<1>0. TypeOK /\ OwnershipInv /\ OwnershipInv' /\ UNCHANGED regime
  BY OwnershipStep DEF LedgerInv, OwnershipInv, Next, vars
<1>a. ASSUME UNCHANGED <<perf, owned, disk, results, tracked, pc>>,
             BotPositions \subseteq BotPositions',
             \A q \in OrderIds : order'[q].kind = order[q].kind
      PROVE  LedgerInv'
  <2>1. tracked \cup PlacedOrders(results) \subseteq OrderIds
    BY <1>0 DEF TypeOK, PlacedOrders, Results
  <2>2. NotYetBooked'
    BY <1>a, <2>1 DEF LedgerInv, NotYetBooked, PlacedOrders, IsBuy
  <2>3. (pc # "execute" => results = {})'
    BY <1>a, <1>0 DEF LedgerInv
  <2>4. QED
    BY <1>0, <1>a, <2>2, <2>3 DEF LedgerInv, LedgerDisjoint, Without, OwnedIsBooked
<1>b. ASSUME NEW o \in OrderIds, NEW st \in {"executed", "cancelled", "rejected"},
             o \in Pending, SetStatus(o, st)
      PROVE  /\ BotPositions \subseteq BotPositions'
             /\ \A q \in OrderIds : order'[q].kind = order[q].kind
  BY <1>0, <1>b, SetStatusKeepsBots
<1>1. ASSUME NEW o \in OrderIds, FillBuy(o) \/ FillClose(o) \/ RejectOrder(o)
      PROVE  LedgerInv'
  BY <1>1, <1>a, <1>b DEF FillBuy, FillClose, RejectOrder, LedgerInv
<1>2. ASSUME NEW p \in Positions, ExternalClose(p) PROVE LedgerInv'
  BY <1>2, <1>a, BotsSame DEF ExternalClose, LedgerInv
<1>3. ASSUME BeginCycle PROVE LedgerInv'
  <2>1. Adopted(snap') \subseteq BotPositions
    BY <1>0, <1>3, AdoptedAreBots DEF BeginCycle, OwnershipInv
  <2>2. \A o \in Adopted(snap') : o \in tracked /\ IsBuy(o)
    BY DEF Adopted
  <2>3. results = {} /\ results' = {} /\ PlacedOrders(results) = {} /\ PlacedOrders(results)' = {}
    BY <1>3 DEF BeginCycle, LedgerInv, PlacedOrders
  <2>4. LedgerDisjoint'
    BY <1>0, <1>3, <2>2
       DEF BeginCycle, RecordOpen, LedgerInv, LedgerDisjoint, Without, NotYetBooked
  <2>5. NotYetBooked'
    BY <1>3, <2>3 DEF BeginCycle, RecordOpen, LedgerInv, NotYetBooked, IsBuy
  <2>6. QED
    BY <1>0, <1>3, <2>1, <2>3, <2>4, <2>5, BotsSame
       DEF BeginCycle, RecordOpen, LedgerInv, Without, OwnedIsBooked
<1>4. ASSUME NEW o \in OrderIds, CancelAccepted(o) \/ CancelFailed(o) PROVE LedgerInv'
  <2>1. /\ BotPositions \subseteq BotPositions'
        /\ \A q \in OrderIds : order'[q].kind = order[q].kind
    BY <1>4, <1>b, BotsSame DEF CancelAccepted, CancelFailed
  <2>2. /\ UNCHANGED <<perf, owned, disk, results, pc>>
        /\ tracked' \subseteq tracked
    BY <1>4 DEF CancelAccepted, CancelFailed
  <2>3. tracked \cup PlacedOrders(results) \subseteq OrderIds
    BY <1>0 DEF TypeOK, PlacedOrders, Results
  <2>4. NotYetBooked'
    BY <2>1, <2>2, <2>3 DEF LedgerInv, NotYetBooked, PlacedOrders, IsBuy
  <2>5. QED
    BY <1>0, <2>1, <2>2, <2>4 DEF LedgerInv, LedgerDisjoint, Without, OwnedIsBooked
<1>5. ASSUME BookVanished PROVE LedgerInv'
  <2>1. LedgerDisjoint' /\ (perfOpen \cup perfClosed)' = perfOpen \cup perfClosed
    BY <1>0, <1>5, RecordCloseKeepsLedger DEF BookVanished, LedgerInv
  <2>2. QED
    BY <1>0, <1>5, <2>1, BotsSame
       DEF BookVanished, LedgerInv, Without, OwnedIsBooked, NotYetBooked, PlacedOrders, IsBuy
<1>6. ASSUME Decide PROVE LedgerInv'
  BY <1>0, <1>6, BotsSame
     DEF Decide, LedgerInv, LedgerDisjoint, Without, OwnedIsBooked, NotYetBooked, PlacedOrders, IsBuy
<1>7. ASSUME NEW o \in Fresh, NEW kind, NEW p, NEW by, Place(o, kind, p, by),
             UNCHANGED <<perf, disk, tracked>>, owned' \subseteq owned,
             PlacedOrders(results)' \subseteq PlacedOrders(results) \cup {o},
             pc' # "execute" => results' = {}
      PROVE  LedgerInv'
  <2>1. o \notin BotPositions
    BY DEF Fresh, BotPositions
  <2>2. /\ BotPositions \subseteq BotPositions'
        /\ \A q \in OrderIds \ {o} : order'[q] = order[q]
    BY <1>0, <1>7, PlaceKeepsBots
  <2>3. tracked \cup PlacedOrders(results) \subseteq OrderIds
    BY <1>0 DEF TypeOK, PlacedOrders, Results
  <2>4. NotYetBooked'
    BY <1>7, <2>1, <2>2, <2>3 DEF LedgerInv, NotYetBooked, IsBuy
  <2>5. QED
    BY <1>0, <1>7, <2>2, <2>4 DEF LedgerInv, LedgerDisjoint, Without, OwnedIsBooked
<1>8. ASSUME UNCHANGED <<perf, disk, tracked, order>>, owned' \subseteq owned,
             PlacedOrders(results)' \subseteq PlacedOrders(results),
             pc' # "execute" => results' = {}
      PROVE  LedgerInv'
  BY <1>0, <1>8, BotsSame DEF LedgerInv, LedgerDisjoint, Without, OwnedIsBooked, NotYetBooked, IsBuy
<1>9. ASSUME ExecBuy PROVE LedgerInv'
  <2>1. UNCHANGED <<perf, disk, tracked, owned>> /\ pc' = "execute"
    BY <1>9 DEF ExecBuy
  <2>2. ASSUME NEW o \in Fresh, Place(o, "BUY", o, "cycle"),
               PlacedOrders(results)' \subseteq PlacedOrders(results) \cup {o}
        PROVE  LedgerInv'
    BY <1>7, <2>1, <2>2
  <2>3. CASE UNCHANGED <<order, results>>
    BY <1>8, <2>1, <2>3 DEF PlacedOrders
  <2>4. QED
    BY <1>9, <2>2, <2>3 DEF ExecBuy, PlacedOrders, ReportedIds
<1>10. ASSUME ExecClose PROVE LedgerInv'
  <2>1. UNCHANGED <<perf, disk, tracked>> /\ pc' = "execute" /\ owned' \subseteq owned
    BY <1>10 DEF ExecClose
  <2>2. ASSUME NEW o \in Fresh, Place(o, Head(queue).act, Head(queue).pos, "cycle"),
               PlacedOrders(results)' \subseteq PlacedOrders(results) \cup {o}
        PROVE  LedgerInv'
    BY <1>7, <2>1, <2>2
  <2>3. CASE UNCHANGED <<order, results>>
    BY <1>8, <2>1, <2>3 DEF PlacedOrders
  <2>4. QED
    BY <1>10, <2>2, <2>3 DEF ExecClose, PlacedOrders, ReportedIds
<1>11. ASSUME FinishCycle PROVE LedgerInv'
  <2>1. LedgerDisjoint' /\ (perfOpen \cup perfClosed)' = perfOpen \cup perfClosed
    BY <1>0, <1>11, RecordCloseKeepsLedger DEF FinishCycle, LedgerInv
  <2>2. QED
    BY <1>0, <1>11, <2>1, BotsSame
       DEF FinishCycle, LedgerInv, Without, OwnedIsBooked, NotYetBooked, PlacedOrders, IsBuy
<1>12. ASSUME CycleRaises PROVE LedgerInv'
  BY <1>8, <1>12 DEF CycleRaises, PlacedOrders
<1>13. ASSUME Save \/ PanicEnd PROVE LedgerInv'
  BY <1>0, <1>13, BotsSame
     DEF Save, PanicEnd, LedgerInv, LedgerDisjoint, Without, OwnedIsBooked, NotYetBooked, IsBuy,
         PlacedOrders
<1>14. ASSUME PanicBegin PROVE LedgerInv'
  BY <1>14, <1>8 DEF PanicBegin, LedgerInv, PlacedOrders
<1>15. ASSUME NEW p \in Positions, PanicClose(p) PROVE LedgerInv'
  <2>1. /\ UNCHANGED <<perf, disk, tracked, results, pc>> /\ owned' \subseteq owned
        /\ UNCHANGED PlacedOrders(results)
    BY <1>15 DEF PanicClose, PlacedOrders
  <2>2. QED
    BY <1>15, <1>7, <1>8, <2>1 DEF PanicClose, LedgerInv
<1>16. ASSUME Crash PROVE LedgerInv'
  <2>1. (perfOpen \cup perfClosed)' = perfOpen \cup perfClosed
    BY <1>16, TornRecordCloseMoves DEF Crash
  <2>2. LedgerDisjoint'
    BY <1>0, <1>16 DEF Crash, May, LedgerDisjoint, Without
  <2>3. PlacedOrders(results)' = {} /\ tracked' = {} /\ results' = {}
    BY <1>16 DEF Crash, Restart, PlacedOrders
  <2>4. QED
    BY <1>0, <1>16, <2>1, <2>2, <2>3, BotsSame
       DEF Crash, Restart, LedgerInv, Without, OwnedIsBooked, NotYetBooked
<1>r. ASSUME CrashInRewrite PROVE LedgerInv'
  <2>1. PICK booked \in SUBSET (ClosesDue \cap perfOpen), entered \in SUBSET OpensDue :
            /\ perfClosed' = perfClosed \cup booked
            /\ perfOpen' \in SUBSET ((perfOpen \cup entered) \ booked)
    BY <1>r DEF CrashInRewrite
  <2>2. OpensDue \subseteq open \cap OrderIds
    BY OpensDueTyped, <1>0 DEF OpensDue, Adopted
  <2>3. (perfOpen \cup perfClosed)' \subseteq BotPositions
    BY <1>0, <2>1, <2>2 DEF LedgerInv, OwnershipInv, OpenOfBots
  <2>4. /\ PlacedOrders(results)' = {} /\ tracked' = {} /\ results' = {}
        /\ UNCHANGED <<order, regime>> /\ ~Without({"crash"})' /\ ~Without({"tornTable"})'
    BY <1>0, <1>r DEF CrashInRewrite, Restart, PlacedOrders, May, Without
  <2>5. QED
    BY <1>0, <2>3, <2>4, BotsSame DEF LedgerInv, LedgerDisjoint, Without, OwnedIsBooked, NotYetBooked
<1>17. ASSUME StopAndStart PROVE LedgerInv'
  BY <1>0, <1>17, BotsSame
     DEF StopAndStart, Restart, LedgerInv, LedgerDisjoint, Without, OwnedIsBooked,
         NotYetBooked, PlacedOrders
<1>18. CASE UNCHANGED vars
  BY <1>18, <1>a, BotsSame DEF vars
<1>19. QED
  BY <1>1, <1>2, <1>3, <1>4, <1>5, <1>6, <1>9, <1>10, <1>11, <1>12, <1>13, <1>14,
     <1>15, <1>16, <1>r, <1>17, <1>18 DEF Next, Broker, Cycle, Panic

LEMMA Ledger == Spec => []LedgerInv
BY LedgerInit, LedgerStep, PTL DEF Spec

\* No trade is in both ledgers, in whatever order adoption, the two booking
\* hooks, /panic and orderly restarts come; whatever the bot owns was entered and is
\* still there, unless the process died while open_positions was being replaced.
THEOREM LedgerIsSound == Spec => []LedgerSound
<1>1. LedgerInv => LedgerSound
  BY DEF LedgerInv, LedgerSound
<1>2. QED
  BY <1>1, Ledger, PTL

-----------------------------------------------------------------------------
(* Without the faults a property names. The first invariant follows the    *)
(* ledger through the one phase in which it lags behind the ownership: the *)
(* executor disowns a position, and the booking hook closes it only when   *)
(* all orders are out. The second says the snapshot of a cycle lists every *)
(* owned position still open when the vanished ones are booked.            *)

Orderly == Without({"exception", "crash", "panic"})
LedgerLag ==
    Orderly =>
        /\ panicPc = "idle"
        /\ pc # "execute" => perfOpen = owned
        /\ pc = "execute" => /\ owned \subseteq perfOpen
                             /\ perfOpen \subseteq owned \cup FullyClosed(results)

LEMMA LedgerLagInit == Init => LedgerLag
BY DEF Init, LedgerLag

\* Every step of an orderly run keeps the open ledger ahead of the owned set by this
\* cycle's closes at most.
LEMMA LedgerLagStep == LedgerLag /\ [Next]_vars => LedgerLag'
<1> SUFFICES ASSUME LedgerLag, [Next]_vars, Orderly' PROVE LedgerLag'
  BY DEF LedgerLag
<1> USE DEF broker, cycle, perf, panic
<1>0. /\ UNCHANGED regime /\ Orderly
      /\ ~May("exception") /\ ~May("crash") /\ ~May("panic")
  BY DEF Next, vars, Orderly, Without, May
<1>1. ASSUME UNCHANGED <<perfOpen, owned, results, pc, panicPc>> PROVE LedgerLag'
  BY <1>0, <1>1 DEF LedgerLag, FullyClosed
<1>2. ASSUME Broker \/ UNCHANGED vars PROVE LedgerLag'
  BY <1>1, <1>2 DEF Broker, FillBuy, FillClose, RejectOrder, ExternalClose, vars
<1>3. ASSUME BeginCycle \/ BookVanished PROVE LedgerLag'
  BY <1>0, <1>3 DEF BeginCycle, BookVanished, RecordOpen, RecordClose, LedgerLag
<1>4. ASSUME NEW o \in OrderIds, CancelAccepted(o) \/ CancelFailed(o) PROVE LedgerLag'
  BY <1>1, <1>4 DEF CancelAccepted, CancelFailed
<1>5. ASSUME Decide PROVE LedgerLag'
  BY <1>0, <1>5 DEF Decide, LedgerLag
<1>6. ASSUME ExecBuy PROVE LedgerLag'
  <2>1. FullyClosed(results) \subseteq FullyClosed(results)'
    BY <1>6 DEF ExecBuy, FullyClosed
  <2>2. QED
    BY <1>0, <1>6, <2>1 DEF ExecBuy, LedgerLag
<1>7. ASSUME ExecClose PROVE LedgerLag'
  <2> DEFINE p == Head(queue).pos
  <2>1. CASE UNCHANGED <<owned, results>>
    BY <1>1, <1>7, <2>1 DEF ExecClose
  <2>2. ASSUME NEW id, results' = results \cup {[act |-> "CLOSE", order |-> id, pos |-> p]},
               owned' = owned \/ owned' = owned \ {p}
        PROVE  LedgerLag'
    <3>1. FullyClosed(results) \subseteq FullyClosed(results)'
      BY <2>2 DEF FullyClosed
    <3> DEFINE r == [act |-> "CLOSE", order |-> id, pos |-> p]
    <3>a. r \in results' /\ r.act = "CLOSE" /\ r.pos = p
      BY <2>2
    <3>2. p \in FullyClosed(results)' \cup owned'
      BY <3>a DEF FullyClosed
    <3>3. QED
      BY <1>0, <1>7, <2>2, <3>1, <3>2 DEF ExecClose, LedgerLag
  <2>3. QED
    BY <1>7, <2>1, <2>2 DEF ExecClose
<1>8. ASSUME FinishCycle PROVE LedgerLag'
  <2>1. FullyClosed(results) \cap owned = {}
    BY DEF FullyClosed
  <2>2. QED
    BY <1>0, <1>8, <2>1 DEF FinishCycle, RecordClose, LedgerLag
<1>9. ASSUME Save \/ StopAndStart PROVE LedgerLag'
  BY <1>0, <1>9 DEF Save, StopAndStart, Restart, LedgerLag
<1>10. ASSUME CycleRaises \/ Crash \/ CrashInRewrite \/ Panic PROVE LedgerLag'
  BY <1>0, <1>10
     DEF CycleRaises, Crash, CrashInRewrite, Panic, PanicBegin, PanicClose, PanicEnd, LedgerLag
<1>11. QED
  BY <1>2, <1>3, <1>4, <1>5, <1>6, <1>7, <1>8, <1>9, <1>10 DEF Next, Cycle

\* Between two cycles the open ledger is the set of owned positions, as long as
\* no cycle raises, the process is not killed and the operator does not panic.
THEOREM LedgerIsOwnership == Spec => []LedgerMatchesOwnership
<1>1. LedgerLag => LedgerMatchesOwnership
  BY DEF LedgerLag, LedgerMatchesOwnership, Orderly
<1>2. QED
  BY <1>1, LedgerLagInit, LedgerLagStep, PTL DEF Spec

-----------------------------------------------------------------------------
Readable == Without({"fetch"})
SnapshotCoversOwned == Readable /\ pc = "stuck" => owned \cap open \subseteq snap.pos

LEMMA SnapshotCoversInit == Init => SnapshotCoversOwned
BY DEF Init, SnapshotCoversOwned

\* When the cycle looks for stuck orders, its snapshot still covers what is owned and
\* open.
LEMMA SnapshotCoversStep ==
    OwnershipInv /\ SnapshotCoversOwned /\ [Next]_vars => SnapshotCoversOwned'
<1> SUFFICES ASSUME OwnershipInv, SnapshotCoversOwned, [Next]_vars,
                    Readable', pc' = "stuck"
             PROVE  (owned \cap open)' \subseteq snap'.pos
  BY DEF SnapshotCoversOwned
<1> USE DEF broker, cycle, perf, panic
<1>0. UNCHANGED regime /\ Readable /\ ~May("fetch")
  BY DEF Next, vars, Readable, Without, May
<1>1. ASSUME pc = "stuck", UNCHANGED snap, owned' \subseteq owned, open' \subseteq open
      PROVE  (owned \cap open)' \subseteq snap'.pos
  BY <1>0, <1>1 DEF SnapshotCoversOwned
<1>2. ASSUME NEW o \in OrderIds, FillBuy(o) PROVE (owned \cap open)' \subseteq snap'.pos
  <2>1. o \notin owned
    BY <1>2 DEF FillBuy, Pending, OwnershipInv, OnlyBotPositionsOwned, BotPositions
  <2>2. QED
    BY <1>0, <1>2, <2>1 DEF FillBuy, SnapshotCoversOwned
<1>3. ASSUME NEW o \in OrderIds, FillClose(o) \/ RejectOrder(o)
      PROVE  (owned \cap open)' \subseteq snap'.pos
  BY <1>1, <1>3 DEF FillClose, RejectOrder
<1>4. ASSUME BeginCycle PROVE (owned \cap open)' \subseteq snap'.pos
  BY <1>0, <1>4 DEF BeginCycle, FetchPortfolio
<1>5. ASSUME NEW o \in OrderIds, CancelAccepted(o) \/ CancelFailed(o)
      PROVE  (owned \cap open)' \subseteq snap'.pos
  BY <1>1, <1>5 DEF CancelAccepted, CancelFailed
<1>6. ASSUME Panic PROVE (owned \cap open)' \subseteq snap'.pos
  BY <1>1, <1>6 DEF Panic, PanicBegin, PanicClose, PanicEnd
<1>7. ASSUME NEW p \in Positions, ExternalClose(p)
      PROVE  (owned \cap open)' \subseteq snap'.pos
  BY <1>1, <1>7 DEF ExternalClose
<1>8. ~(BookVanished \/ Decide \/ ExecBuy \/ ExecClose \/ FinishCycle \/ CycleRaises
          \/ Save \/ Crash \/ CrashInRewrite \/ StopAndStart)
  BY DEF BookVanished, Decide, ExecBuy, ExecClose, FinishCycle, CycleRaises, Save,
         Crash, CrashInRewrite, StopAndStart, Restart
<1>9. CASE UNCHANGED vars
  BY <1>1, <1>9 DEF vars
<1>10. QED
  BY <1>2, <1>3, <1>4, <1>5, <1>6, <1>7, <1>8, <1>9 DEF Next, Broker, Cycle

LEMMA SnapshotCovers == Spec => []SnapshotCoversOwned
BY SnapshotCoversInit, SnapshotCoversStep, Ownership, PTL DEF Spec

\* A position is booked as closed from outside only if it is, as long as the
\* portfolio can be read.
THEOREM VanishedPositionsAreGone == Spec => VanishedIsGone
<1>1. SnapshotCoversOwned /\ [Next]_vars =>
          [Without({"fetch"}) => JustVanished \cap open = {}]_vars
  <2> SUFFICES ASSUME SnapshotCoversOwned, Next, Without({"fetch"})
               PROVE  JustVanished \cap open = {}
    OBVIOUS
  <2> USE DEF broker, cycle, perf, panic
  <2>1. CASE ~(pc = "stuck" /\ pc' = "decide")
    BY <2>1 DEF JustVanished
  <2>2. CASE pc = "stuck" /\ pc' = "decide"
    <3>1. BookVanished
      BY <2>2
         DEF Next, Broker, FillBuy, FillClose, RejectOrder, ExternalClose, Cycle, BeginCycle,
             CancelAccepted, CancelFailed, Decide, ExecBuy, ExecClose, FinishCycle,
             CycleRaises, Save, Panic, PanicBegin, PanicClose, PanicEnd, Crash,
             CrashInRewrite, StopAndStart, Restart
    <3>2. owned \ owned' \subseteq owned \ snap.pos
      BY <3>1 DEF BookVanished, Vanished
    <3>3. QED
      BY <2>2, <3>2 DEF JustVanished, SnapshotCoversOwned, Readable
  <2>3. QED
    BY <2>1, <2>2
<1>2. QED
  BY <1>1, SnapshotCovers, PTL DEF Spec, VanishedIsGone

-----------------------------------------------------------------------------
\* A tracked order is dropped only when it was executed or cancelled, or when
\* the position it was to close is gone, as long as the portfolio can be read
\* and the process lives.
THEOREM EvictedOrdersAreSettled == Spec => EvictionIsSettled
<1> DEFINE Evictable(o) == \/ order'[o].status \in {"executed", "cancelled"}
                           \/ IsClose(o) /\ order[o].pos \notin open'
<1>1. OwnershipInv /\ [Next]_vars =>
          [Without({"fetch", "crash", "stop"}) =>
              \A o \in tracked \ tracked' : Evictable(o)]_vars
  <2> SUFFICES ASSUME OwnershipInv, Next, Without({"fetch", "crash", "stop"}),
                      NEW o \in tracked, o \notin tracked'
               PROVE  Evictable(o)
    OBVIOUS
  <2> USE DEF broker, cycle, perf, panic
  <2>0. /\ ~May("fetch") /\ ~May("crash") /\ ~May("stop")
        /\ TypeOK /\ o \in OrderIds
    BY DEF Without, May, OwnershipInv, TypeOK
  <2>1. CASE BeginCycle
    <3>1. snap'.pos = open /\ UNCHANGED <<order, open>>
      BY <2>0, <2>1 DEF BeginCycle, FetchPortfolio
    <3>2. o \in Adopted(snap') \cup SettledCloses(snap')
      BY <2>1 DEF BeginCycle
    <3>3. CASE o \in Adopted(snap')
      BY <3>1, <3>3 DEF Adopted, OwnershipInv, OpenOfBots, BotPositions, TypeOK
    <3>4. CASE o \in SettledCloses(snap')
      BY <3>1, <3>4 DEF SettledCloses
    <3>5. QED
      BY <3>2, <3>3, <3>4
  <2>2. ASSUME NEW q \in OrderIds, CancelAccepted(q) PROVE Evictable(o)
    BY <2>0, <2>2 DEF CancelAccepted, SetStatus, TypeOK, Orders
  <2>3. ASSUME NEW q \in OrderIds, CancelFailed(q) PROVE Evictable(o)
    <3>1. PICK answer \in Recheck(order'[q].status) :
              Settled(answer) /\ tracked' = tracked \ {q}
      BY <2>3 DEF CancelFailed
    <3>2. answer = order'[q].status \/ answer = None
      BY <3>1 DEF Recheck
    <3>3. QED
      BY <3>1, <3>2, NoneAssumption DEF Settled
  <2>4. QED
    BY <2>0, <2>1, <2>2, <2>3
       DEF Next, Broker, FillBuy, FillClose, RejectOrder, ExternalClose, Cycle,
           BookVanished, Decide, ExecBuy, ExecClose, FinishCycle, CycleRaises, Save,
           Panic, PanicBegin, PanicClose, PanicEnd, Crash, CrashInRewrite, StopAndStart
<1>2. QED
  BY <1>1, Ownership, PTL DEF Spec, EvictionIsSettled

-----------------------------------------------------------------------------
(* No position falls out of sight. *)

\* What NoOrphans is stated for: the only thing that may happen is /panic.
Calm == Without(FaultKinds \ {"panic"}) /\ ~regime.cancelStuck

\* The monitor knows the order, or will when the cycle ends.
Expected(o) == o \in tracked \cup PlacedOrders(results)

\* A pending BUY is expected, so that it still is when it fills. What is open and no
\* longer expected was adopted, and disowned only with a close on its way.
OrphanInv ==
    Calm =>
        /\ todo = {}
        /\ pc # "execute" => results = {}
        /\ \A o \in OrderIds : IsBuy(o) =>
              /\ order[o].status = "pending" => Expected(o)
              /\ o \in open => Expected(o) \/ o \in owned \/ CloseUnderway(o)

LEMMA OrphanInit == Init => OrphanInv
BY OrderIdsAssumption DEF Init, OrphanInv, Unplaced, IsBuy

\* A close stays under way when another order changes.
LEMMA CloseStays ==
    ASSUME NEW q, CloseUnderway(q), NEW o,
           \A x \in OrderIds \ {o} : order'[x] = order[x],
           o \notin Pending \/ order[o].kind # "CLOSE" \/ order[o].pos # q
    PROVE  CloseUnderway(q)'
<1>1. PICK x \in Pending : order[x].kind = "CLOSE" /\ order[x].pos = q
  BY DEF CloseUnderway
<1>2. x \in OrderIds /\ x # o
  BY <1>1 DEF Pending
<1>3. order'[x] = order[x]
  BY <1>2
<1>4. QED
  BY <1>1, <1>2, <1>3 DEF CloseUnderway, Pending

\* A step that leaves the orders alone and opens nothing orphans nothing.
LEMMA OrphanSame ==
    ASSUME OrphanInv, UNCHANGED <<order, results, regime, tracked>>,
           open' \subseteq open, todo' \subseteq todo,
           \A q \in open' : q \in owned => q \in owned',
           pc' # "execute" => pc # "execute" \/ results = {}
    PROVE  OrphanInv'
BY DEF OrphanInv, Calm, Without, Expected, CloseUnderway, Pending, IsBuy

\* In calm weather every open position of the bot is expected, owned or being closed.
LEMMA OrphanStep ==
    OwnershipInv /\ SnapshotCoversOwned /\ OrphanInv /\ [Next]_vars => OrphanInv'
<1> SUFFICES ASSUME OwnershipInv, SnapshotCoversOwned, OrphanInv, [Next]_vars, Calm'
             PROVE  OrphanInv'
  BY DEF OrphanInv
<1> USE DEF broker, cycle, perf, panic
<1>0. UNCHANGED regime /\ Calm /\ TypeOK
      /\ \A f \in FaultKinds \ {"panic"} : ~May(f)
  BY DEF Next, vars, Calm, Without, May, OwnershipInv
<1> USE <1>0
<1>1. ASSUME NEW o \in OrderIds, FillBuy(o) PROVE OrphanInv'
  <2>1. \A x \in OrderIds \ {o} : order'[x] = order[x]
    BY <1>1 DEF FillBuy, SetStatus, TypeOK
  <2>2. IsBuy(o) /\ order[o].status = "pending" /\ order'[o].status = "executed"
    BY <1>1 DEF FillBuy, SetStatus, TypeOK, Orders, Pending
  <2>3. \A q : CloseUnderway(q) => CloseUnderway(q)'
    BY <2>1, <2>2, CloseStays DEF IsBuy
  <2>4. UNCHANGED <<todo, pc, results, tracked, owned>> /\ open' = open \cup {o}
    BY <1>1 DEF FillBuy
  <2>5. QED
    BY <2>1, <2>2, <2>3, <2>4 DEF OrphanInv, Expected, IsBuy
<1>2. ASSUME NEW o \in OrderIds, FillClose(o) \/ RejectOrder(o) PROVE OrphanInv'
  <2>1. \A x \in OrderIds \ {o} : order'[x] = order[x]
    BY <1>2 DEF FillClose, RejectOrder, SetStatus, TypeOK
  <2>2. IsClose(o) /\ order'[o].kind = order[o].kind
    BY <1>2 DEF FillClose, RejectOrder, SetStatus, TypeOK, Orders, FaultKinds
  <2>3. UNCHANGED <<todo, pc, results, tracked, owned>> /\ open' \subseteq open
    BY <1>2 DEF FillClose, RejectOrder
  <2>4. order[o].kind = "CLOSE" => order[o].pos \notin open'
    BY <1>2 DEF FillClose, RejectOrder, FaultKinds
  <2>5. \A q \in open' : CloseUnderway(q) => CloseUnderway(q)'
    BY <2>1, <2>4, CloseStays
  <2>6. ~IsBuy(o)'
    BY <2>2 DEF IsClose, IsBuy, CloseKinds
  <2>7. QED
    BY <2>1, <2>3, <2>5, <2>6 DEF OrphanInv, Expected, IsBuy
<1>3. ASSUME NEW p \in Positions, ExternalClose(p) PROVE OrphanInv'
  BY <1>3, OrphanSame DEF ExternalClose
<1>4. CASE BeginCycle
  <2>1. snap'.pos = open /\ UNCHANGED <<order, open, results>> /\ todo' = {}
    BY <1>4 DEF BeginCycle, FetchPortfolio, FaultKinds, Calm
  <2>2. owned' = owned \cup Adopted(snap') /\ pc' # "execute" /\ results = {}
    BY <1>4 DEF BeginCycle, OrphanInv
  <2>3. tracked' = tracked \ (Adopted(snap') \cup SettledCloses(snap'))
    BY <1>4 DEF BeginCycle
  <2>4. \A o \in tracked \ tracked' : IsBuy(o) => o \in open /\ o \in owned'
    BY <2>1, <2>2, <2>3 DEF Adopted, SettledCloses, IsBuy, IsClose, CloseKinds
  <2>5. \A o \in OrderIds : IsBuy(o) /\ order[o].status = "pending" => o \notin open
    BY DEF OwnershipInv, OpenOfBots, BotPositions
  <2>6. \A q : CloseUnderway(q)' = CloseUnderway(q)
    BY <2>1 DEF CloseUnderway, Pending
  <2>7. QED
    BY <2>1, <2>2, <2>4, <2>5, <2>6 DEF OrphanInv, Expected, IsBuy
<1>5. ASSUME NEW o \in OrderIds, CancelAccepted(o) \/ CancelFailed(o) PROVE OrphanInv'
  BY <1>5 DEF CancelAccepted, CancelFailed, OrphanInv
<1>6. CASE BookVanished
  <2>1. \A q \in owned \ owned' : q \notin open
    BY <1>6 DEF BookVanished, Vanished, SnapshotCoversOwned, Readable, Without, May, FaultKinds
  <2>2. QED
    BY <1>6, <2>1, OrphanSame DEF BookVanished
<1>7. CASE Decide
  <2>1. results = {} /\ results' = {}
    BY <1>7 DEF Decide, OrphanInv
  <2>2. QED
    BY <1>7, <2>1, OrphanSame DEF Decide
<1>8. CASE ExecBuy
  <2>1. CASE UNCHANGED <<order, results>>
    BY <1>8, <2>1, OrphanSame DEF ExecBuy
  <2>2. ASSUME NEW o \in Fresh, Place(o, "BUY", o, "cycle"),
               results' = results \cup {[act |-> "BUY", order |-> o, pos |-> None]}
        PROVE  OrphanInv'
    <3>1. o \in OrderIds /\ o \notin Pending /\ o \notin open /\ o # None
      BY OrderIdsAssumption DEF Fresh, Pending, OwnershipInv, OpenOfBots, BotPositions
    <3>2. \A x \in OrderIds \ {o} : order'[x] = order[x]
      BY <2>2, <3>1 DEF Place, TypeOK
    <3>3. PlacedOrders(results) \cup {o} \subseteq PlacedOrders(results')
      <4> DEFINE r == [act |-> "BUY", order |-> o, pos |-> None]
      <4>1. r \in {q \in results' : q.order # None} /\ r.order = o
        BY <2>2, <3>1
      <4>2. o \in PlacedOrders(results')
        BY <4>1 DEF PlacedOrders
      <4>3. QED
        BY <2>2, <4>2 DEF PlacedOrders
    <3>4. \A q : CloseUnderway(q) => CloseUnderway(q)'
      BY <3>1, <3>2, CloseStays
    <3>5. UNCHANGED <<todo, pc, tracked, owned, open>> /\ pc = "execute"
      BY <1>8 DEF ExecBuy
    <3>6. QED
      BY <3>1, <3>2, <3>3, <3>4, <3>5 DEF OrphanInv, Expected, IsBuy
  <2>3. QED
    BY <1>8, <2>1, <2>2 DEF ExecBuy, ReportedIds, FaultKinds
<1>9. CASE ExecClose
  <2>1. CASE UNCHANGED <<order, owned, results>>
    BY <1>9, <2>1, OrphanSame DEF ExecClose
  <2>2. ASSUME NEW o \in Fresh, NEW kind \in CloseKinds, NEW p \in open,
               Place(o, kind, p, "cycle"),
               results' = results \cup {[act |-> "CLOSE", order |-> o, pos |-> p]},
               owned' = IF kind = "CLOSE" THEN owned \ {p} ELSE owned
        PROVE  OrphanInv'
    <3>1. o \in OrderIds /\ o \notin Pending
      BY DEF Fresh, Pending
    <3>2. \A x \in OrderIds \ {o} : order'[x] = order[x]
      BY <2>2, <3>1 DEF Place, TypeOK
    <3>3. order'[o].kind = kind /\ order'[o].pos = p /\ order'[o].status = "pending"
      BY <2>2, <3>1 DEF Place, TypeOK
    <3>4. PlacedOrders(results) \subseteq PlacedOrders(results')
      BY <2>2 DEF PlacedOrders
    <3>5. \A q : CloseUnderway(q) => CloseUnderway(q)'
      BY <3>1, <3>2, CloseStays
    <3>6. kind = "CLOSE" => CloseUnderway(p)'
      BY <3>1, <3>3 DEF CloseUnderway, Pending
    <3>7. UNCHANGED <<todo, pc, tracked, open>> /\ pc = "execute"
      BY <1>9 DEF ExecClose
    <3>8. ~IsBuy(o)'
      BY <3>3 DEF IsBuy, CloseKinds
    <3>9. QED
      BY <2>2, <3>2, <3>4, <3>5, <3>6, <3>7, <3>8 DEF OrphanInv, Expected, IsBuy
  <2>3. QED
    BY <1>9, <2>1, <2>2 DEF ExecClose, ReportedIds, FaultKinds
<1>10. CASE FinishCycle
  <2>1. UNCHANGED <<order, open, owned, todo>> /\ results' = {}
        /\ tracked' = tracked \cup PlacedOrders(results)
    BY <1>10 DEF FinishCycle
  <2>2. \A q : CloseUnderway(q)' = CloseUnderway(q)
    BY <2>1 DEF CloseUnderway, Pending
  <2>3. QED
    BY <2>1, <2>2 DEF OrphanInv, Expected, IsBuy
<1>11. CASE Save
  BY <1>11, OrphanSame DEF Save
<1>12. CASE PanicBegin \/ PanicEnd
  BY <1>12, OrphanSame DEF PanicBegin, PanicEnd
<1>13. ASSUME NEW p \in Positions, PanicClose(p) PROVE OrphanInv'
  <2>1. CASE p \notin open /\ UNCHANGED order
    BY <1>13, <2>1, OrphanSame DEF PanicClose
  <2>2. ASSUME NEW o \in Fresh, Place(o, "CLOSE", p, "panic") PROVE OrphanInv'
    <3>1. o \in OrderIds /\ o \notin Pending
      BY DEF Fresh, Pending
    <3>2. \A x \in OrderIds \ {o} : order'[x] = order[x]
      BY <2>2, <3>1 DEF Place, TypeOK
    <3>3. order'[o].kind = "CLOSE" /\ order'[o].pos = p /\ order'[o].status = "pending"
      BY <2>2, <3>1 DEF Place, TypeOK
    <3>4. \A q : CloseUnderway(q) => CloseUnderway(q)'
      BY <3>1, <3>2, CloseStays
    <3>5. CloseUnderway(p)'
      BY <3>1, <3>3 DEF CloseUnderway, Pending
    <3>6. UNCHANGED <<todo, pc, results, tracked, open>> /\ owned' = owned \ {p}
      BY <1>13 DEF PanicClose
    <3>7. ~IsBuy(o)'
      BY <3>3 DEF IsBuy
    <3>8. QED
      BY <3>2, <3>4, <3>5, <3>6, <3>7 DEF OrphanInv, Expected, IsBuy
  <2>3. QED
    BY <1>13, <2>1, <2>2 DEF PanicClose, FaultKinds
<1>14. ~(CycleRaises \/ Crash \/ CrashInRewrite \/ StopAndStart)
  BY DEF CycleRaises, Crash, CrashInRewrite, StopAndStart, FaultKinds
<1>15. CASE UNCHANGED vars
  BY <1>15, OrphanSame DEF vars
<1>16. QED
  BY <1>1, <1>2, <1>3, <1>4, <1>5, <1>6, <1>7, <1>8, <1>9, <1>10, <1>11, <1>12, <1>13,
     <1>14, <1>15
     DEF Next, Broker, Cycle, Panic

\* A position the bot opened is tracked, owned or being closed as long as it is open,
\* also through /panic, when the broker acknowledges orders with their id and no order
\* is cancelled as stuck (monitor.reconcile, executor._close, panic_close_all).
THEOREM PositionsStayInSight == Spec => []NoOrphans
<1>1. OrphanInv => NoOrphans
  BY DEF OrphanInv, NoOrphans, Calm, Expected, BotPositions
<1>2. QED
  BY <1>1, OrphanInit, OrphanStep, Ownership, SnapshotCovers, PTL DEF Spec
=============================================================================
