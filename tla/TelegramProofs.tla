--------------------------- MODULE TelegramProofs ---------------------------
(***************************************************************************)
(* Both directions of the Telegram service: the alerts it delivers and the *)
(* updates it confirms, for any number of either; then what the bot makes  *)
(* of an operator's commands, for any number of them, of saves that fail   *)
(* and of restarts.                                                        *)
(***************************************************************************)
EXTENDS TelegramService, OperatorCommands, FiniteSetTheorems, WellFoundedInduction,
        SequenceTheorems, TLAPS

-----------------------------------------------------------------------------
(* Queues. *)

\* A nonempty set of numbers has an oldest member.
LEMMA OldestExists ==
    ASSUME NEW S \in SUBSET Nat, S # {}
    PROVE  \E a \in S : IsOldest(a, S)
<1> DEFINE R == OpToRel(<, Nat)
<1>1. PICK a \in S : \A b \in S : <<b, a>> \notin R
    <2>1. IsWellFoundedOn(R, Nat)
        BY NatLessThanWellFounded, Zenon
    <2> HIDE DEF R
    <2> QED
        BY <2>1, WFMin
<1>2. \A b \in S : ~(b < a)
    BY <1>1, Zenon DEF OpToRel
<1> QED
    BY <1>2 DEF IsOldest

\* A push keeps a queue within its length (deque with maxlen in alerts.py).
LEMMA PushedIs ==
    ASSUME NEW q, IsFiniteSet(q), q \subseteq Nat, Cardinality(q) <= QueueLen, NEW a \in Nat
    PROVE  /\ Pushed(q, a) \subseteq q \cup {a}
           /\ Cardinality(Pushed(q, a)) <= QueueLen
<1> DEFINE kept == {b \in q : Cardinality(q) >= QueueLen => ~IsOldest(b, q)}
<1>1. Cardinality(q) \in Nat /\ QueueLen \in Nat \ {0}
    BY FS_CardinalityType, TelegramAssumption
<1>2. kept \in SUBSET q
    OBVIOUS
<1>3. IsFiniteSet(kept) /\ Cardinality(kept) \in Nat /\ Cardinality(kept) <= Cardinality(q)
      /\ (Cardinality(q) = Cardinality(kept) => q = kept)
    BY <1>2, FS_Subset, FS_CardinalityType
<1>4. Cardinality(kept) < QueueLen
    <2>1. CASE Cardinality(q) < QueueLen
        BY <1>1, <1>3, <2>1
    <2>2. CASE Cardinality(q) >= QueueLen
        <3>1. q # {}
            BY <1>1, <2>2, FS_EmptySet
        <3>2. PICK b \in q : IsOldest(b, q)
            BY <3>1, OldestExists
        <3>3. b \notin kept
            BY <2>2, <3>2
        <3> QED
            BY <1>1, <1>3, <3>2, <3>3
    <2> HIDE DEF kept
    <2> QED
        BY <1>1, <2>1, <2>2
<1>5. Cardinality(kept \cup {a}) <= Cardinality(kept) + 1 /\ Cardinality(kept \cup {a}) \in Nat
    <2> HIDE DEF kept
    <2>1. Cardinality(kept \cup {a}) = IF a \in kept THEN Cardinality(kept) ELSE Cardinality(kept) + 1
        BY <1>3, FS_AddElement
    <2> QED
        BY <1>3, <2>1
<1>7. Cardinality(kept \cup {a}) <= QueueLen
    <2> HIDE DEF kept
    <2> QED BY <1>1, <1>3, <1>4, <1>5
<1>8. Pushed(q, a) = kept \cup {a}
    BY DEF Pushed
<1> QED
    BY <1>7, <1>8

-----------------------------------------------------------------------------
(* What the refinement needs of the service. *)

Queued ==
    /\ emitted \in Nat
    /\ queue \in [Chats -> SUBSET (1..emitted)]
    /\ seen \in [Chats -> Seq(1..emitted)]

Drains ==
    /\ NumChats \in Nat /\ turn \in 0..NumChats
    /\ phase \in {"poll", "dispatch", "drain"}
    /\ phase = "drain" <=> turn # 0
    /\ turn = 0 => flight = {}
    /\ flight \subseteq 1..emitted
    \* what was drained is older than what is left
    /\ turn # 0 => \A a \in flight, b \in queue[turn] : a < b

AlertInv == Queued /\ Drains

LEMMA AlertInit == TelegramInit => AlertInv
<1> QED
    BY TelegramAssumption, EmptySeq DEF TelegramInit, AlertInv, Queued, Drains, Chats

\* Every step keeps the queues and the drain in order: what was drained is older than
\* what waits.
LEMMA AlertNext == AlertInv /\ [TelegramNext]_telegramVars => AlertInv'
<1> SUFFICES ASSUME AlertInv, [TelegramNext]_telegramVars PROVE AlertInv'
    OBVIOUS
<1> USE DEF AlertInv, Queued, Drains
<1>t. turn # 0 => turn \in Chats
    BY DEF Chats
<1>1. ASSUME NEW type \in AlertTypes, EmitAlert(type) PROVE AlertInv'
    <2>1. emitted' = emitted + 1 /\ UNCHANGED <<seen, phase, turn, flight>>
        BY <1>1 DEF EmitAlert
    <2>2. \A c \in Chats : queue'[c] \subseteq queue[c] \cup {emitted + 1}
        BY <1>1 DEF EmitAlert, Pushed
    <2>3. queue' \in [Chats -> SUBSET (1..emitted')]
        BY <1>1, <2>1, <2>2 DEF EmitAlert
    <2>4. seen' \in [Chats -> Seq(1..emitted')]
        <3>1. 1..emitted \subseteq 1..emitted'
            BY <2>1
        <3>2. \A c \in Chats : seen[c] \in Seq(1..emitted')
            BY <3>1, SeqMonotonic
        <3> QED
            BY <2>1, <3>2
    <2>5. turn' # 0 => \A a \in flight', b \in queue'[turn'] : a < b
        <3>1. ASSUME turn # 0, NEW a \in flight, NEW b \in queue'[turn] PROVE a < b
            <4>1. b \in queue[turn] \/ b = emitted + 1
                BY <1>t, <2>2, <3>1
            <4>2. a \in 1..emitted /\ emitted \in Nat
                OBVIOUS
            <4>3. b \in queue[turn] => a < b
                BY <3>1
            <4> QED
                BY <4>1, <4>2, <4>3
        <3> QED
            BY <2>1, <3>1
    <2>6. flight' \subseteq 1..emitted'
        BY <2>1
    <2> QED
        BY <2>1, <2>3, <2>4, <2>5, <2>6
<1>2. CASE BotRestart
    BY <1>2, <1>t DEF BotRestart
<1>3. ASSUME NEW m \in Messages, Post(m) PROVE AlertInv'
    BY <1>3 DEF Post, hubVars
<1>4. CASE PollSucceeds
    BY <1>4 DEF PollSucceeds, hubVars
<1>5. CASE PollFails
    BY <1>5 DEF PollFails, hubVars
<1>6. CASE DispatchUpdate
    BY <1>6 DEF DispatchUpdate
<1>7. CASE DrainChat
    <2>1. /\ turn \in 0..NumChats - 1 /\ turn + 1 \in Chats
          /\ phase' = "drain" /\ turn' = turn + 1 /\ UNCHANGED <<emitted, seen>>
        BY <1>7, TelegramAssumption DEF DrainChat, Chats
    <2>2. /\ queue' \in [Chats -> SUBSET (1..emitted)]
          /\ flight' \subseteq 1..emitted
          /\ \A a \in flight', b \in queue'[turn + 1] : a < b
        <3>1. ASSUME NEW taken \in SUBSET queue[turn + 1],
                     Drained(taken, queue[turn + 1]),
                     queue' = [queue EXCEPT ![turn + 1] = @ \ taken],
                     flight' \in {taken, {}}
              PROVE  /\ queue' \in [Chats -> SUBSET (1..emitted)]
                     /\ flight' \subseteq 1..emitted
                     /\ \A a \in flight', b \in queue'[turn + 1] : a < b
            BY <2>1, <3>1 DEF Drained
        <3>2. CASE flight' = {} /\ UNCHANGED queue
            BY <3>2
        <3> QED
            BY <1>7, <3>1, <3>2 DEF DrainChat
    <2> QED
        BY <2>1, <2>2
<1>8. CASE SendAlert
    <2>1. PICK a \in flight :
              /\ flight' = flight \ {a}
              /\ seen' \in {seen, [seen EXCEPT ![turn] = Append(@, a)]}
        BY <1>8 DEF SendAlert
    <2>2. turn \in Chats /\ UNCHANGED <<emitted, queue, phase, turn>>
        BY <1>8, <1>t DEF SendAlert, hubVars
    <2>3. Append(seen[turn], a) \in Seq(1..emitted)
        BY <2>1, <2>2, AppendProperties
    <2>4. seen' \in [Chats -> Seq(1..emitted)]
        BY <2>1, <2>2, <2>3
    <2> QED
        BY <2>1, <2>2, <2>4
<1>9. CASE DrainEnds
    BY <1>9 DEF DrainEnds, hubVars
<1>10. CASE ServiceRestart
    BY <1>10 DEF ServiceRestart, hubVars
<1>11. CASE UNCHANGED telegramVars
    BY <1>11 DEF telegramVars, hubVars
<1> QED
    BY <1>1, <1>2, <1>3, <1>4, <1>5, <1>6, <1>7, <1>8, <1>9, <1>10, <1>11 DEF TelegramNext

-----------------------------------------------------------------------------
(* Step by step. *)

\* What is pending for a chat is among the alerts emitted.
LEMMA PendingIs ==
    ASSUME AlertInv
    PROVE  /\ Pending \in [Chats -> SUBSET (1..emitted)]
           /\ \A c \in Chats : c # turn => Pending[c] = queue[c]
           /\ turn \in Chats => Pending[turn] = queue[turn] \cup flight
<1> QED
    BY DEF AlertInv, Queued, Drains, Pending

\* The service starts as an empty lossy channel.
LEMMA ChannelStart == TelegramInit => Channel!ChannelInit
<1> QED
    BY TelegramAssumption DEF TelegramInit, Channel!ChannelInit, Pending, Chats

\* Losing is any step after which less is on its way.
LEMMA LossIs ==
    ASSUME AlertInv, UNCHANGED <<emitted, seen>>, NEW P,
           P = Pending', \A c \in Chats : P[c] \subseteq Pending[c]
    PROVE  Channel!Lose
<1>1. P \in [Chats -> SUBSET (1..emitted)]
    <2>1. P = [c \in Chats |-> P[c]]
        BY DEF Pending
    <2> QED
        BY <2>1, PendingIs
<1> QED
    BY <1>1 DEF Channel!Lose

\* Every step of the service is a step of the lossy channel or a stutter.
LEMMA ChannelStep ==
    AlertInv /\ AlertInv' /\ [TelegramNext]_telegramVars
        => [Channel!ChannelNext]_(Channel!channelVars)
<1> SUFFICES ASSUME AlertInv, AlertInv', [TelegramNext]_telegramVars
             PROVE  Channel!ChannelNext \/ UNCHANGED Channel!channelVars
    OBVIOUS
<1>t. turn # 0 => turn \in Chats
    BY DEF AlertInv, Drains, Chats
<1>l. ASSUME UNCHANGED <<emitted, seen>>, \A c \in Chats : Pending'[c] \subseteq Pending[c]
      PROVE  Channel!ChannelNext
    BY <1>l, LossIs DEF Channel!ChannelNext
<1>s. ASSUME UNCHANGED <<emitted, seen, queue, turn, flight>>
      PROVE  UNCHANGED Channel!channelVars
    BY <1>s DEF Channel!channelVars, Pending
<1>1. ASSUME NEW type \in AlertTypes, EmitAlert(type) PROVE Channel!Emit
    <2>1. emitted' = emitted + 1 /\ UNCHANGED <<seen, turn, flight>>
        BY <1>1 DEF EmitAlert
    <2>2. \A c \in Chats : queue'[c] \subseteq queue[c] \cup {emitted + 1}
        BY <1>1 DEF EmitAlert, Pushed
    <2>3. \A c \in Chats : Pending'[c] \subseteq Pending[c] \cup {emitted + 1}
        BY <2>1, <2>2 DEF Pending
    <2>4. Pending' \in [Chats -> SUBSET (1..emitted + 1)]
        <3>1. \A c \in Chats : Pending'[c] \subseteq 1..emitted + 1
            BY <2>3, PendingIs DEF AlertInv, Queued
        <3>2. Pending' = [c \in Chats |-> Pending'[c]]
            BY DEF Pending
        <3> QED
            BY <3>1, <3>2
    <2> QED
        BY <2>1, <2>3, <2>4 DEF Channel!Emit
<1>2. CASE BotRestart
    <2>1. \A c \in Chats : Pending'[c] \subseteq Pending[c]
        BY <1>2 DEF BotRestart, Pending
    <2> QED
        BY <1>2, <1>l, <2>1 DEF BotRestart
<1>3. ASSUME NEW m \in Messages, Post(m) PROVE UNCHANGED Channel!channelVars
    BY <1>3, <1>s DEF Post, hubVars
<1>4. CASE PollSucceeds \/ PollFails \/ DispatchUpdate
    BY <1>4, <1>s DEF PollSucceeds, PollFails, DispatchUpdate, hubVars
<1>5. CASE DrainChat
    <2>1. turn + 1 \in Chats /\ turn' = turn + 1 /\ UNCHANGED <<emitted, seen>> /\ flight = {}
        BY <1>5, TelegramAssumption DEF DrainChat, Chats, AlertInv, Drains
    <2>2. /\ \A c \in Chats : queue'[c] \subseteq queue[c]
          /\ flight' \subseteq queue[turn + 1]
        BY <1>5, <2>1 DEF DrainChat, AlertInv, Queued
    <2>3. \A c \in Chats : Pending'[c] \subseteq Pending[c]
        BY <2>1, <2>2 DEF Pending
    <2> QED
        BY <1>l, <2>1, <2>3
<1>6. CASE SendAlert
    <2>1. PICK a \in flight :
              /\ IsOldest(a, flight)
              /\ flight' = flight \ {a}
              /\ seen' \in {seen, [seen EXCEPT ![turn] = Append(@, a)]}
        BY <1>6 DEF SendAlert
    <2>2. turn \in Chats /\ UNCHANGED <<emitted, queue, turn>>
        BY <1>6, <1>t DEF SendAlert, hubVars, AlertInv, Drains
    <2>3. CASE seen' = seen
        <3>1. \A c \in Chats : Pending'[c] \subseteq Pending[c]
            BY <2>1, <2>2 DEF Pending
        <3> QED
            BY <1>l, <2>2, <2>3, <3>1
    <2>4. CASE seen' = [seen EXCEPT ![turn] = Append(@, a)]
        <3>1. a \in Pending[turn] /\ a \in 1..emitted
            BY <2>1, <2>2, PendingIs DEF AlertInv, Drains
        <3>2. \A b \in Pending[turn] : a <= b
            <4>1. \A b \in flight : a <= b
                BY <2>1 DEF IsOldest
            <4>2. \A b \in queue[turn] : a < b /\ b \in 1..emitted
                BY <2>1, <2>2 DEF AlertInv, Queued, Drains, Chats
            <4> QED
                BY <2>2, <3>1, <4>1, <4>2, PendingIs
        <3>3. a \notin queue[turn]
            BY <2>1, <2>2, <3>1 DEF AlertInv, Drains, Chats
        <3>4. Pending' = [Pending EXCEPT ![turn] = @ \ {a}]
            BY <2>1, <2>2, <3>3 DEF Pending
        <3>5. Channel!IsOldest(a, Pending[turn])
            BY <3>1, <3>2 DEF Channel!IsOldest
        <3>6. Channel!Deliver(turn)
            BY <2>2, <2>4, <3>1, <3>4, <3>5 DEF Channel!Deliver
        <3> QED
            BY <2>2, <3>6 DEF Channel!ChannelNext
    <2> QED
        BY <2>1, <2>3, <2>4
<1>7. CASE DrainEnds
    <2>1. flight = {} /\ UNCHANGED <<emitted, seen, queue, flight>>
        BY <1>7 DEF DrainEnds, hubVars
    <2>2. Pending' = Pending
        BY <2>1 DEF Pending
    <2> QED
        BY <2>1, <2>2 DEF Channel!channelVars
<1>8. CASE ServiceRestart
    <2>1. flight' = {} /\ UNCHANGED <<emitted, seen, queue>>
        BY <1>8 DEF ServiceRestart, hubVars
    <2>2. \A c \in Chats : Pending'[c] \subseteq Pending[c]
        BY <2>1 DEF Pending
    <2> QED
        BY <1>l, <2>1, <2>2
<1>9. CASE UNCHANGED telegramVars
    BY <1>9, <1>s DEF telegramVars, hubVars
<1> QED
    BY <1>1, <1>2, <1>3, <1>4, <1>5, <1>6, <1>7, <1>8, <1>9
    DEF TelegramNext, Channel!ChannelNext

\* The hub's queues, the HTTP drain and the service's loop implement the channel: what a
\* chat sees is in the order it was emitted, and nothing twice, whatever overflows, fails
\* or restarts (alerts.py, telegram_service/bot.py).
THEOREM AlertsAreLossyFifo == TelegramSpec => DeliveryIsLossyFifo
<1> QED
    BY AlertInit, AlertNext, ChannelStart, ChannelStep, PTL
    DEF TelegramSpec, DeliveryIsLossyFifo, Channel!ChannelSpec

-----------------------------------------------------------------------------
(* Updates. *)

UpdateInv ==
    /\ posted \in Seq(Messages) /\ Len(posted) <= MaxUpdates
    /\ confirmed \in 0..Len(posted) /\ last \in 0..Len(posted)
    /\ inbox \subseteq 1..last
    /\ handled \in [1..MaxUpdates -> Nat]
    /\ crashes \in 0..MaxServiceCrashes
    /\ phase # "dispatch" => inbox = {}
    \* what this process has fetched is still to be dispatched or was
    /\ \A u \in 1..Len(posted) :
          (u <= confirmed \/ (u <= last /\ u \notin inbox)) /\ Parsed(u) => handled[u] >= 1
    \* each process dispatches an update once
    /\ \A u \in 1..MaxUpdates :
          /\ handled[u] <= 1 + crashes
          /\ u \in inbox \/ u > last => handled[u] <= crashes

LEMMA UpdateInit == TelegramInit => UpdateInv
<1> QED
    BY TelegramAssumption, EmptySeq DEF TelegramInit, UpdateInv

LEMMA UpdateNext == UpdateInv /\ [TelegramNext]_telegramVars => UpdateInv'
<1> SUFFICES ASSUME UpdateInv, [TelegramNext]_telegramVars PROVE UpdateInv'
    OBVIOUS
<1>n. /\ Len(posted) \in Nat /\ MaxUpdates \in Nat /\ MaxServiceCrashes \in Nat
      /\ crashes \in Nat /\ \A u \in 1..MaxUpdates : handled[u] \in Nat
    BY TelegramAssumption, LenProperties DEF UpdateInv
<1>s. ASSUME UNCHANGED updateVars, UNCHANGED phase \/ inbox = {} PROVE UpdateInv'
    BY <1>s DEF updateVars, UpdateInv, Parsed
<1>1. ASSUME NEW type \in AlertTypes, EmitAlert(type) PROVE UpdateInv'
    BY <1>1, <1>s DEF EmitAlert
<1>2. CASE BotRestart
    BY <1>2, <1>s DEF BotRestart
<1>3. ASSUME NEW m \in Messages, Post(m) PROVE UpdateInv'
    <2>1. /\ posted' = Append(posted, m) /\ Len(posted) < MaxUpdates
          /\ UNCHANGED <<confirmed, last, inbox, handled, crashes, phase>>
        BY <1>3 DEF Post
    <2>2. /\ posted' \in Seq(Messages) /\ Len(posted') = Len(posted) + 1
          /\ \A u \in 1..Len(posted) : posted'[u] = posted[u]
        BY <2>1, AppendProperties DEF UpdateInv
    <2>3. ASSUME NEW u \in 1..Len(posted'), Parsed(u)',
                 u <= confirmed \/ (u <= last /\ u \notin inbox)
          PROVE  handled[u] >= 1
        <3>1. u \in 1..Len(posted)
            BY <1>n, <2>2, <2>3 DEF UpdateInv
        <3> QED
            BY <2>2, <2>3, <3>1 DEF UpdateInv, Parsed
    <2>4. confirmed \in 0..Len(posted') /\ last \in 0..Len(posted') /\ Len(posted') <= MaxUpdates
        BY <1>n, <2>1, <2>2 DEF UpdateInv
    <2> QED
        BY <2>1, <2>2, <2>3, <2>4 DEF UpdateInv
<1>o. /\ Offset \in 0..Len(posted) /\ confirmed <= Offset /\ last <= Offset
      /\ Offset \in {confirmed, last}
    BY <1>n DEF Offset, UpdateInv
<1>4. CASE PollSucceeds
    <2> DEFINE fetched == Offset + 1..Len(posted)
    <2>1. /\ inbox = {} /\ confirmed' = Offset /\ UNCHANGED <<posted, handled, crashes>>
          /\ last' = (IF fetched = {} THEN last ELSE Len(posted))
          /\ inbox' = {u \in fetched : Parsed(u)} /\ phase' = "dispatch"
        BY <1>4 DEF PollSucceeds, UpdateInv
    <2>2. last' \in 0..Len(posted) /\ inbox' \subseteq 1..last' /\ last <= last'
        BY <1>n, <1>o, <2>1 DEF UpdateInv
    <2>3. ASSUME NEW u \in 1..Len(posted), Parsed(u),
                 u <= Offset \/ (u <= last' /\ u \notin inbox')
          PROVE  handled[u] >= 1
        <3>1. u <= Offset
            BY <1>n, <1>o, <2>1, <2>3
        <3>2. u <= confirmed \/ u <= last
            BY <1>o, <3>1
        <3> QED
            BY <2>1, <2>3, <3>2 DEF UpdateInv
    <2>4. ASSUME NEW u \in 1..MaxUpdates, u \in inbox' \/ u > last'
          PROVE  handled[u] <= crashes
        <3>1. u > last
            BY <1>n, <1>o, <2>1, <2>2, <2>4 DEF UpdateInv
        <3> QED
            BY <3>1 DEF UpdateInv
    <2> HIDE DEF fetched
    <2>5. \A u \in 1..Len(posted) : Parsed(u)' <=> Parsed(u)
        BY <2>1 DEF Parsed
    <2> QED
        BY <1>o, <2>1, <2>2, <2>3, <2>4, <2>5 DEF UpdateInv
<1>5. CASE PollFails
    <2>1. /\ confirmed' \in {confirmed, Offset} /\ inbox = {}
          /\ UNCHANGED <<posted, last, inbox, handled, crashes, phase>>
        BY <1>5 DEF PollFails, UpdateInv
    <2>2. ASSUME NEW u \in 1..Len(posted), Parsed(u), u <= confirmed'
          PROVE  handled[u] >= 1
        <3>1. u <= confirmed \/ u <= last
            BY <1>o, <2>1, <2>2
        <3> QED
            BY <2>1, <2>2, <3>1 DEF UpdateInv
    <2>3. \A u \in 1..Len(posted) : Parsed(u)' <=> Parsed(u)
        BY <2>1 DEF Parsed
    <2>4. confirmed' \in 0..Len(posted)
        BY <1>o, <2>1 DEF UpdateInv
    <2> QED
        BY <2>1, <2>2, <2>3, <2>4 DEF UpdateInv
<1>6. CASE DispatchUpdate
    <2>1. PICK u \in inbox : /\ inbox' = inbox \ {u}
                             /\ handled' = [handled EXCEPT ![u] = @ + 1]
        BY <1>6 DEF DispatchUpdate
    <2>2. /\ phase = "dispatch" /\ UNCHANGED <<posted, confirmed, last, crashes, phase>>
          /\ u \in 1..MaxUpdates /\ u <= last
        BY <1>6, <1>n DEF DispatchUpdate, UpdateInv
    <2>3. /\ handled' \in [1..MaxUpdates -> Nat]
          /\ handled'[u] = handled[u] + 1
          /\ \A v \in 1..MaxUpdates : v # u => handled'[v] = handled[v]
        BY <2>1, <2>2, <1>n DEF UpdateInv
    <2>4. ASSUME NEW v \in 1..Len(posted), Parsed(v),
                 v <= confirmed \/ (v <= last /\ v \notin inbox')
          PROVE  handled'[v] >= 1
        <3>1. CASE v = u
            BY <1>n, <2>2, <2>3, <3>1
        <3>2. CASE v # u
            <4>1. v \in 1..MaxUpdates
                BY <1>n DEF UpdateInv
            <4> QED
                BY <2>1, <2>3, <2>4, <3>2, <4>1 DEF UpdateInv
        <3> QED
            BY <3>1, <3>2
    <2>5. ASSUME NEW v \in 1..MaxUpdates
          PROVE  /\ handled'[v] <= 1 + crashes
                 /\ v \in inbox' \/ v > last => handled'[v] <= crashes
        <3>1. CASE v = u
            <4>1. handled[u] <= crashes /\ u \notin inbox' /\ ~(u > last)
                BY <1>n, <2>1, <2>2 DEF UpdateInv
            <4> QED
                BY <1>n, <2>2, <2>3, <3>1, <4>1
        <3>2. CASE v # u
            BY <2>1, <2>3, <3>2 DEF UpdateInv
        <3> QED
            BY <3>1, <3>2
    <2>6. \A v \in 1..Len(posted) : Parsed(v)' <=> Parsed(v)
        BY <2>2 DEF Parsed
    <2> QED
        BY <2>1, <2>2, <2>3, <2>4, <2>5, <2>6 DEF UpdateInv
<1>7. CASE DrainChat
    <2>1. inbox = {}
        BY <1>7 DEF DrainChat, UpdateInv
    <2> QED
        BY <1>7, <1>s, <2>1 DEF DrainChat
<1>8. CASE SendAlert
    BY <1>8, <1>s DEF SendAlert
<1>9. CASE DrainEnds
    BY <1>9, <1>s DEF DrainEnds, UpdateInv
<1>10. CASE ServiceRestart
    <2>1. /\ crashes' = crashes + 1 /\ crashes' \in 0..MaxServiceCrashes
          /\ phase' = "poll" /\ inbox' = {} /\ last' = 0
          /\ UNCHANGED <<posted, confirmed, handled>>
        BY <1>10, <1>n DEF ServiceRestart
    <2>2. \A u \in 1..MaxUpdates : handled[u] <= crashes'
        BY <1>n, <2>1 DEF UpdateInv
    <2>3. \A u \in 1..MaxUpdates : handled[u] <= 1 + crashes'
        BY <1>n, <2>1, <2>2
    <2>4. \A u \in 1..Len(posted) : Parsed(u)' <=> Parsed(u)
        BY <2>1 DEF Parsed
    <2> QED
        BY <1>n, <2>1, <2>2, <2>3, <2>4 DEF UpdateInv
<1>11. CASE UNCHANGED telegramVars
    BY <1>11, <1>s DEF telegramVars
<1> QED
    BY <1>1, <1>2, <1>3, <1>4, <1>5, <1>6, <1>7, <1>8, <1>9, <1>10, <1>11 DEF TelegramNext

\* An update that Telegram will not deliver again was dispatched, and at most once by
\* each process of the service (the offset in telegram_service/bot.py).
THEOREM UpdatesAreNotLost == TelegramSpec => []NoCommandLost
<1>1. UpdateInv => NoCommandLost
    <2> SUFFICES ASSUME UpdateInv PROVE NoCommandLost
        OBVIOUS
    <2>1. \A u \in 1..Len(posted) : u \in 1..MaxUpdates
        BY TelegramAssumption, LenProperties DEF UpdateInv
    <2> QED
        BY <2>1 DEF UpdateInv, NoCommandLost
<1> QED
    BY <1>1, UpdateInit, UpdateNext, PTL DEF TelegramSpec

-----------------------------------------------------------------------------
(* The type invariant. *)

HubTyped ==
    /\ emitted \in 0..MaxAlerts
    /\ \A c \in Chats : Cardinality(queue[c]) <= QueueLen
    /\ subs \in [Chats -> (SUBSET AlertTypes) \cup {NoSubs}]
    /\ subsFile \in [Chats -> (SUBSET AlertTypes) \cup {NoSubs}]

LEMMA HubTypedInit == TelegramInit => HubTyped
<1>1. Cardinality({}) = 0
    BY FS_EmptySet
<1> QED
    BY <1>1, TelegramAssumption DEF TelegramInit, HubTyped

LEMMA HubTypedNext ==
    HubTyped /\ AlertInv /\ UpdateInv /\ [TelegramNext]_telegramVars => HubTyped'
<1> SUFFICES ASSUME HubTyped, AlertInv, UpdateInv, [TelegramNext]_telegramVars PROVE HubTyped'
    OBVIOUS
<1>q. ASSUME NEW c \in Chats
      PROVE  IsFiniteSet(queue[c]) /\ queue[c] \subseteq Nat /\ queue[c] \in SUBSET (1..emitted)
    <2>1. queue[c] \in SUBSET (1..emitted) /\ emitted \in Nat
        BY DEF AlertInv, Queued
    <2>2. IsFiniteSet(1..emitted)
        BY <2>1, FS_Interval
    <2> QED
        BY <2>1, <2>2, FS_Subset
<1>m. \A c \in Chats : Met(c) \in SUBSET AlertTypes
    BY TelegramAssumption DEF HubTyped, Met
<1>s. ASSUME UNCHANGED hubVars PROVE HubTyped'
    BY <1>s DEF hubVars, HubTyped
<1>1. ASSUME NEW type \in AlertTypes, EmitAlert(type) PROVE HubTyped'
    <2>1. emitted' \in 0..MaxAlerts
        BY <1>1, TelegramAssumption DEF EmitAlert, HubTyped
    <2>2. ASSUME NEW c \in Chats PROVE Cardinality(queue'[c]) <= QueueLen
        <3>1. Cardinality(queue[c]) <= QueueLen /\ emitted + 1 \in Nat
            BY DEF HubTyped, AlertInv, Queued
        <3>2. Cardinality(Pushed(queue[c], emitted + 1)) <= QueueLen
            BY <1>q, <3>1, PushedIs
        <3> QED
            BY <1>1, <3>1, <3>2 DEF EmitAlert
    <2>3. subs' \in [Chats -> (SUBSET AlertTypes) \cup {NoSubs}]
        BY <1>1, <1>m DEF EmitAlert
    <2>4. subsFile' \in [Chats -> (SUBSET AlertTypes) \cup {NoSubs}]
        BY <1>1, <1>m DEF EmitAlert, HubTyped
    <2> QED
        BY <2>1, <2>2, <2>3, <2>4 DEF HubTyped
<1>2. CASE BotRestart
    BY <1>2, FS_EmptySet, TelegramAssumption DEF BotRestart, HubTyped
<1>3. ASSUME NEW m \in Messages, Post(m) PROVE HubTyped'
    BY <1>3, <1>s DEF Post
<1>4. CASE PollSucceeds \/ PollFails \/ SendAlert \/ DrainEnds \/ ServiceRestart
    BY <1>4, <1>s DEF PollSucceeds, PollFails, SendAlert, DrainEnds, ServiceRestart
<1>5. CASE DispatchUpdate
    <2>1. UNCHANGED <<emitted, queue>>
        BY <1>5 DEF DispatchUpdate
    <2>2. ASSUME NEW c \in Chats, NEW type \in AlertTypes, Toggle(c, type)
          PROVE  /\ subs' \in [Chats -> (SUBSET AlertTypes) \cup {NoSubs}]
                 /\ subsFile' \in [Chats -> (SUBSET AlertTypes) \cup {NoSubs}]
        BY <1>m, <2>2 DEF Toggle, HubTyped
    <2>3. PICK u \in inbox :
              \/ UNCHANGED <<subs, subsFile>>
              \/ /\ posted[u].kind = "toggle" /\ posted[u].chat \in Chats
                 /\ Toggle(posted[u].chat, posted[u].type)
        BY <1>5 DEF DispatchUpdate
    <2>4. posted[u] \in Messages
        BY LenProperties, ElementOfSeq DEF UpdateInv
    <2>5. posted[u].kind = "toggle" => posted[u].type \in AlertTypes
        BY <2>4, TelegramAssumption
    <2> QED
        BY <2>1, <2>2, <2>3, <2>5 DEF HubTyped
<1>6. CASE DrainChat
    <2>1. turn + 1 \in Chats /\ UNCHANGED <<emitted, subs, subsFile>>
        BY <1>6, TelegramAssumption DEF DrainChat, Chats, AlertInv, Drains
    <2>2. \A c \in Chats : queue'[c] \in SUBSET queue[c]
        BY <1>6, <2>1 DEF DrainChat, AlertInv, Queued
    <2>3. ASSUME NEW c \in Chats PROVE Cardinality(queue'[c]) <= QueueLen
        <3>1. /\ Cardinality(queue'[c]) <= Cardinality(queue[c])
              /\ Cardinality(queue'[c]) \in Nat /\ Cardinality(queue[c]) \in Nat
            BY <1>q, <2>2, FS_Subset, FS_CardinalityType
        <3> QED
            BY <3>1, TelegramAssumption DEF HubTyped
    <2> QED
        BY <2>1, <2>3 DEF HubTyped
<1>7. CASE UNCHANGED telegramVars
    BY <1>7, <1>s DEF telegramVars
<1> QED
    BY <1>1, <1>2, <1>3, <1>4, <1>5, <1>6, <1>7 DEF TelegramNext

\* The hub and the service stay within their types; no queue outgrows its length
\* (AlertQueue in alerts.py, TelegramService in telegram_service/bot.py).
THEOREM TelegramTypeCorrect == TelegramSpec => []TelegramTypeOK
<1>1. HubTyped /\ AlertInv /\ UpdateInv => TelegramTypeOK
    BY DEF HubTyped, AlertInv, Queued, Drains, UpdateInv, TelegramTypeOK
<1> QED
    BY <1>1, HubTypedInit, HubTypedNext, AlertInit, AlertNext, UpdateInit, UpdateNext, PTL
    DEF TelegramSpec

-----------------------------------------------------------------------------
(* What the operator was told. *)

Request == [cmd : Commands, at : Stages]

\* A request that moves on stays what was asked (the handlers of control/handlers.py).
LEMMA Moved ==
    ASSUME asked \in Seq(Request), NEW n \in Numbers, NEW at \in Stages
    PROVE  /\ [asked EXCEPT ![n].at = at] \in Seq(Request)
           /\ Len([asked EXCEPT ![n].at = at]) = Len(asked)
           /\ \A m \in Numbers :
                 /\ [asked EXCEPT ![n].at = at][m].cmd = asked[m].cmd
                 /\ [asked EXCEPT ![n].at = at][m].at = IF m = n THEN at ELSE asked[m].at
<1> DEFINE r == [asked[n] EXCEPT !.at = at]
<1>1. asked[n] \in Request
    BY ElementOfSeq DEF Numbers
<1>2. r \in Request /\ r.cmd = asked[n].cmd /\ r.at = at
    BY <1>1 DEF Request
<1>3. [asked EXCEPT ![n].at = at] = [asked EXCEPT ![n] = r]
    OBVIOUS
<1> HIDE DEF r
<1>4. /\ [asked EXCEPT ![n] = r] \in Seq(Request)
      /\ Len([asked EXCEPT ![n] = r]) = Len(asked)
      /\ \A m \in 1..Len(asked) : [asked EXCEPT ![n] = r][m] = IF m = n THEN r ELSE asked[m]
    BY <1>2, ExceptSeq DEF Numbers
<1> QED
    BY <1>2, <1>3, <1>4 DEF Numbers

\* Every numbered request is a request of the operator.
LEMMA AskedType ==
    CommandsTypeOK => /\ asked \in Seq(Request) /\ Len(asked) \in Nat
                      /\ \A n \in Numbers : asked[n] \in Request
                                            /\ asked[n].cmd.setting \in OperatorSettings
                                            /\ asked[n].cmd.choice \in SettingValues
<1> SUFFICES ASSUME CommandsTypeOK PROVE /\ asked \in Seq(Request) /\ Len(asked) \in Nat
                      /\ \A n \in Numbers : asked[n] \in Request
                                            /\ asked[n].cmd.setting \in OperatorSettings
                                            /\ asked[n].cmd.choice \in SettingValues
    OBVIOUS
<1>1. asked \in Seq(Request) /\ Len(asked) \in Nat
    BY LenProperties DEF CommandsTypeOK, Request
<1>2. ASSUME NEW n \in Numbers PROVE asked[n] \in Request
    BY <1>1, ElementOfSeq DEF Numbers
<1> QED
    BY <1>1, <1>2, CommandsAssumption DEF Request

-----------------------------------------------------------------------------
(* The type invariant. *)

LEMMA CommandsTypeInit == CommandsInit => CommandsTypeOK
<1> SUFFICES ASSUME CommandsInit PROVE CommandsTypeOK
    OBVIOUS
<1>1. asked \in Seq([cmd : Commands, at : Stages]) /\ Len(asked) = 0
      /\ 0 <= MaxCommands /\ 0 \in 0..MaxBadSaves
    BY EmptySeq, CommandsAssumption DEF CommandsInit
<1>2. live \in [OperatorSettings -> Made] /\ \A s \in OperatorSettings : live[s].by = 0
    BY CommandsAssumption DEF CommandsInit, Made
<1>3. stored \in [OperatorSettings -> Made] /\ \A s \in OperatorSettings : stored[s].by = 0
    BY <1>2 DEF CommandsInit
<1>4. answered \in [OperatorSettings -> {0} \cup Numbers]
    BY DEF CommandsInit
<1>5. DraftTypeOK
    <2>1. draft = <<>> /\ DOMAIN draft = {} /\ draft \in [{} -> Made]
        BY DEF CommandsInit
    <2> QED
        BY <2>1 DEF CommandsInit, DraftTypeOK
<1> QED
    BY <1>1, <1>2, <1>3, <1>4, <1>5 DEF CommandsInit, CommandsTypeOK

\* What a handler changes is made by its own request.
LEMMA ChangeType ==
    ASSUME CommandsTypeOK, NEW n \in Numbers, Change(n)
    PROVE  /\ live' \in [OperatorSettings -> Made]
           /\ live' = [live EXCEPT ![asked[n].cmd.setting] = live'[asked[n].cmd.setting]]
           /\ live'[asked[n].cmd.setting].by = n
           /\ \A s \in OperatorSettings : s # asked[n].cmd.setting => live'[s] = live[s]
<1>1. n \in 0..MaxCommands
    BY AskedType, CommandsAssumption DEF CommandsTypeOK, Numbers
<1>2. [choice |-> asked[n].cmd.choice, by |-> n] \in Made
    BY <1>1, AskedType DEF Made
<1> QED
    BY <1>2, AskedType DEF Change, CommandsTypeOK

\* A save that succeeds brings settings of the memory to the disk, the changed one among
\* them; one that fails is the request's own (persist_state, _persist_config_field).
LEMMA StoreWrites ==
    ASSUME CommandsTypeOK, NEW n \in Numbers, Store(n)
    PROVE  /\ stored' \in [OperatorSettings -> Made]
           /\ \A s \in OperatorSettings : stored'[s] \in {live[s], stored[s]}
           /\ \/ /\ stored'[asked[n].cmd.setting] = live[asked[n].cmd.setting]
                 /\ unstored' = unstored
              \/ unstored' = unstored \cup {n}
<1>1. /\ StateSaved \in [OperatorSettings -> Made]
      /\ \A s \in OperatorSettings : StateSaved[s] \in {live[s], stored[s]}
      /\ \A s \in InStateFile : StateSaved[s] = live[s]
    BY DEF CommandsTypeOK, StateSaved, InStateFile, OperatorSettings
<1> DEFINE row == [stored EXCEPT !["guardrail"] = live["guardrail"]]
<1>2. /\ row \in [OperatorSettings -> Made]
      /\ \A s \in OperatorSettings : row[s] \in {live[s], stored[s]}
      /\ row["guardrail"] = live["guardrail"]
    BY DEF CommandsTypeOK, OperatorSettings
<1>3. asked[n].cmd.setting \in InStateFile \/ asked[n].cmd.setting = "guardrail"
    BY AskedType DEF OperatorSettings, InStateFile
<1> HIDE DEF row
<1>4. CASE stored' = (IF asked[n].cmd.setting \in InStateFile THEN StateSaved ELSE row)
           /\ UNCHANGED unstored
    BY <1>1, <1>2, <1>3, <1>4
<1>5. CASE unstored' = unstored \cup {n} /\ UNCHANGED stored
    BY <1>5 DEF CommandsTypeOK
<1> QED
    BY <1>4, <1>5 DEF Store, row

\* Requests are numbered for good.
LEMMA NumbersStay == CommandsTypeOK /\ [CommandsNext]_commandVars => Numbers \subseteq Numbers'
<1> SUFFICES ASSUME CommandsTypeOK, [CommandsNext]_commandVars PROVE Numbers \subseteq Numbers'
    OBVIOUS
<1>t. Len(asked) \in Nat /\ asked \in Seq(Request)
    BY AskedType
<1>1. ASSUME NEW n \in Numbers, NEW at \in Stages, asked' = [asked EXCEPT ![n].at = at]
      PROVE  Len(asked') = Len(asked)
    BY <1>t, <1>1, Moved
<1>a. {"holding", "checked", "applied", "done"} \subseteq Stages
    BY DEF Stages
<1>2. ASSUME NEW cmd \in Commands, Dispatch(cmd) PROVE Len(asked') = Len(asked) + 1
    <2>1. [cmd |-> cmd, at |-> "sent"] \in Request
        BY DEF Request, Stages
    <2> QED
        BY <1>2, <1>t, <2>1, AppendProperties DEF Dispatch
<1>3. ASSUME NEW n \in Numbers,
             \/ Refuse(n) \/ TakeLock(n) \/ Release(n) \/ PanicFails(n)
             \/ CheckDirective(n) \/ ChangeDirective(n) \/ SaveDirective(n)
      PROVE  Len(asked') = Len(asked)
    <2>1. PICK at \in Stages : asked' = [asked EXCEPT ![n].at = at]
        BY <1>3, <1>a DEF Refuse, TakeLock, Release, PanicFails, CheckDirective,
           ChangeDirective, SaveDirective, Succeeds, Fails
    <2> QED
        BY <1>1, <2>1
<1>4. CASE BotDies
    <2>1. asked' \in [1..Len(asked) -> Request]
        BY <1>4, AskedType DEF BotDies, Numbers, Request, Stages
    <2>2. Len(asked') = Len(asked)
        BY <1>t, <2>1, SeqDef
    <2> QED
        BY <2>2 DEF Numbers
<1>5. CASE \/ GiveUp \/ StartCycle \/ EndCycle \/ (\E s \in InStateFile : Draft(s)) \/ WriteDraft
           \/ UNCHANGED commandVars
    BY <1>5 DEF GiveUp, StartCycle, EndCycle, Draft, WriteDraft, commandVars, Numbers
<1> QED
    BY <1>t, <1>2, <1>3, <1>4, <1>5 DEF CommandsNext, Numbers

\* What the running save has read are settings of the memory.
LEMMA DraftTypeNext == CommandsTypeOK /\ [CommandsNext]_commandVars => DraftTypeOK'
<1> SUFFICES ASSUME CommandsTypeOK, [CommandsNext]_commandVars PROVE DraftTypeOK'
    OBVIOUS
<1>n. Numbers \subseteq Numbers'
    BY NumbersStay
<1>d. DraftTypeOK
    BY DEF CommandsTypeOK
<1>q. ASSUME UNCHANGED saveVars, cycling' = cycling \/ ~saving
      PROVE  DraftTypeOK'
    BY <1>n, <1>d, <1>q DEF saveVars, DraftTypeOK
<1>c. ASSUME NEW n \in Numbers, Change(n), UNCHANGED cycling PROVE DraftTypeOK'
    BY <1>n, <1>d, <1>c DEF Change, DraftTypeOK
<1>1. CASE \E cmd \in Commands : Dispatch(cmd)
    BY <1>1, <1>q DEF Dispatch
<1>2. CASE GiveUp \/ StartCycle
    BY <1>2, <1>q DEF GiveUp, StartCycle
<1>3. ASSUME NEW n \in Numbers, Refuse(n) \/ Release(n) \/ PanicFails(n) \/ CheckDirective(n)
                                \/ SaveDirective(n)
      PROVE  DraftTypeOK'
    BY <1>3, <1>q DEF Refuse, Release, PanicFails, CheckDirective, SaveDirective
<1>4. ASSUME NEW n \in Numbers, TakeLock(n) \/ ChangeDirective(n) PROVE DraftTypeOK'
    BY <1>4, <1>c DEF TakeLock, ChangeDirective
<1>5. CASE EndCycle
    BY <1>5, <1>n, <1>d DEF EndCycle, DraftTypeOK, CommandsTypeOK
<1>6. ASSUME NEW s \in InStateFile, Draft(s) PROVE DraftTypeOK'
    <2>1. s \in OperatorSettings
        BY DEF InStateFile, OperatorSettings
    <2>2. live[s] \in Made /\ live[s].by \in {0} \cup Numbers
        BY <2>1 DEF CommandsTypeOK
    <2>3. /\ DOMAIN draft' = DOMAIN draft \cup {s}
          /\ \A t \in DOMAIN draft' : draft'[t] = IF t = s THEN live[s] ELSE draft[t]
          /\ draft' = [t \in DOMAIN draft' |-> IF t = s THEN live[s] ELSE draft[t]]
        BY <1>6 DEF Draft
    <2>4. draft' \in [DOMAIN draft' -> Made]
        BY <1>d, <2>2, <2>3 DEF DraftTypeOK
    <2>5. \A t \in DOMAIN draft' : draft'[t].by \in {0} \cup Numbers'
        BY <1>d, <1>n, <2>2, <2>3 DEF DraftTypeOK
    <2> QED
        BY <1>6, <1>d, <1>n, <2>3, <2>4, <2>5 DEF Draft, DraftTypeOK
<1>7. CASE WriteDraft \/ BotDies
    <2>1. /\ saving' = FALSE /\ draft' = <<>> /\ overtaken' = {}
        BY <1>7 DEF WriteDraft, BotDies
    <2>2. DOMAIN draft' = {} /\ draft' \in [{} -> Made]
        BY <2>1
    <2> QED
        BY <2>1, <2>2 DEF DraftTypeOK
<1>8. CASE UNCHANGED commandVars
    BY <1>8, <1>q DEF commandVars
<1> QED
    BY <1>1, <1>2, <1>3, <1>4, <1>5, <1>6, <1>7, <1>8 DEF CommandsNext

LEMMA CommandsTypeNext == CommandsTypeOK /\ [CommandsNext]_commandVars => CommandsTypeOK'
<1> SUFFICES ASSUME CommandsTypeOK, [CommandsNext]_commandVars PROVE CommandsTypeOK'
    OBVIOUS
<1>t. /\ MaxCommands \in Nat /\ MaxBadSaves \in Nat /\ Len(asked) \in Nat
      /\ asked \in Seq(Request) /\ Len(asked) <= MaxCommands
      /\ \A n \in Numbers : asked[n].cmd.setting \in OperatorSettings
    BY AskedType, CommandsAssumption DEF CommandsTypeOK
<1>d. DraftTypeOK'
    BY DraftTypeNext
<1>s. ASSUME NEW n \in Numbers, Store(n)
      PROVE  /\ badSaves' \in 0..MaxBadSaves /\ unstored' \subseteq Numbers
             /\ stored' \in [OperatorSettings -> Made]
             /\ \A s \in OperatorSettings : stored'[s] \in {live[s], stored[s]}
    BY <1>s, <1>t, StoreWrites DEF Store, CommandsTypeOK
<1>m. ASSUME NEW n \in Numbers, NEW at \in Stages, asked' = [asked EXCEPT ![n].at = at],
             asked[n].at = "holding" => holder' = 0,
             holder' \in {0, holder} \/ (holder' = n /\ at = "holding")
      PROVE  /\ asked' \in Seq([cmd : Commands, at : Stages]) /\ Len(asked') <= MaxCommands
             /\ Numbers' = Numbers
             /\ holder' \in {0} \cup {m \in Numbers' : asked'[m].at = "holding"}
    BY <1>t, <1>m, Moved DEF Request, Numbers, CommandsTypeOK
<1>a. {"holding", "checked", "applied", "done"} \subseteq Stages
    BY DEF Stages
<1>1. ASSUME NEW cmd \in Commands, Dispatch(cmd) PROVE CommandsTypeOK'
    <2>1. [cmd |-> cmd, at |-> "sent"] \in Request
        BY DEF Request, Stages
    <2>2. asked' \in Seq(Request) /\ Len(asked') = Len(asked) + 1
          /\ \A m \in Numbers : asked'[m] = asked[m]
        BY <1>1, <1>t, <2>1, AppendProperties DEF Dispatch, Numbers
    <2> QED
        BY <1>d, <1>1, <1>t, <2>2 DEF Dispatch, CommandsTypeOK, Numbers, Request
<1>2. CASE GiveUp
    BY <1>d, <1>2 DEF GiveUp, CommandsTypeOK, Numbers
<1>3. ASSUME NEW n \in Numbers, Refuse(n) PROVE CommandsTypeOK'
    <2>1. asked' = [asked EXCEPT ![n].at = "done"] /\ holder' = holder
          /\ asked[n].at # "holding"
        BY <1>3 DEF Refuse, Fails
    <2> QED
        BY <1>d, <1>3, <1>m, <1>a, <2>1 DEF Refuse, Fails, CommandsTypeOK, Numbers
<1>4. ASSUME NEW n \in Numbers, TakeLock(n) PROVE CommandsTypeOK'
    <2>1. asked' = [asked EXCEPT ![n].at = "holding"] /\ holder' = n
          /\ asked[n].at # "holding" /\ Change(n) /\ ~cycling'
        BY <1>4 DEF TakeLock, Free
    <2>2. \A s \in OperatorSettings : live'[s].by \in {0} \cup Numbers
        BY <1>t, <2>1, ChangeType DEF CommandsTypeOK
    <2>3. live' \in [OperatorSettings -> Made]
        BY <2>1, ChangeType
    <2> QED
        BY <1>d, <1>4, <1>m, <1>a, <2>1, <2>2, <2>3 DEF TakeLock, CommandsTypeOK, Numbers
<1>5. ASSUME NEW n \in Numbers, Release(n) PROVE CommandsTypeOK'
    <2>1. asked' = [asked EXCEPT ![n].at = "done"] /\ holder' = 0
        BY <1>5 DEF Release, Succeeds
    <2>2. awaited' \in {0, awaited} /\ answered' \in [OperatorSettings -> {0} \cup Numbers]
        BY <1>5, <1>t DEF Release, Succeeds, CommandsTypeOK
    <2> QED
        BY <1>d, <1>5, <1>m, <1>a, <1>s, <2>1, <2>2 DEF Release, CommandsTypeOK, Numbers
<1>6. ASSUME NEW n \in Numbers, PanicFails(n) PROVE CommandsTypeOK'
    <2>1. asked' = [asked EXCEPT ![n].at = "done"] /\ holder' = 0
        BY <1>6 DEF PanicFails, Fails
    <2> QED
        BY <1>d, <1>6, <1>m, <1>a, <2>1 DEF PanicFails, Fails, CommandsTypeOK, Numbers
<1>7. ASSUME NEW n \in Numbers, CheckDirective(n) PROVE CommandsTypeOK'
    <2>1. asked' = [asked EXCEPT ![n].at = "checked"] /\ holder' = holder
          /\ asked[n].at # "holding"
        BY <1>7 DEF CheckDirective
    <2> QED
        BY <1>d, <1>7, <1>m, <1>a, <2>1 DEF CheckDirective, CommandsTypeOK, Numbers
<1>8. ASSUME NEW n \in Numbers, ChangeDirective(n) PROVE CommandsTypeOK'
    <2>1. asked' = [asked EXCEPT ![n].at = "applied"] /\ holder' = holder
          /\ asked[n].at # "holding" /\ Change(n)
        BY <1>8 DEF ChangeDirective
    <2>2. \A s \in OperatorSettings : live'[s].by \in {0} \cup Numbers
        BY <1>t, <2>1, ChangeType DEF CommandsTypeOK
    <2>3. live' \in [OperatorSettings -> Made]
        BY <2>1, ChangeType
    <2> QED
        BY <1>d, <1>8, <1>m, <1>a, <2>1, <2>2, <2>3 DEF ChangeDirective, CommandsTypeOK, Numbers
<1>9. ASSUME NEW n \in Numbers, SaveDirective(n) PROVE CommandsTypeOK'
    <2>1. asked' = [asked EXCEPT ![n].at = "done"] /\ holder' = holder
          /\ asked[n].at # "holding"
        BY <1>9 DEF SaveDirective, Succeeds
    <2>2. awaited' \in {0, awaited} /\ answered' \in [OperatorSettings -> {0} \cup Numbers]
        BY <1>9, <1>t DEF SaveDirective, Succeeds, CommandsTypeOK
    <2> QED
        BY <1>d, <1>9, <1>m, <1>a, <1>s, <2>1, <2>2 DEF SaveDirective, CommandsTypeOK, Numbers
<1>10. CASE StartCycle
    BY <1>d, <1>10 DEF StartCycle, Free, CommandsTypeOK, Numbers
<1>11. CASE EndCycle
    BY <1>d, <1>11 DEF EndCycle, CommandsTypeOK, Numbers
<1>14. ASSUME NEW s \in InStateFile, Draft(s) PROVE CommandsTypeOK'
    BY <1>d, <1>14 DEF Draft, CommandsTypeOK, Numbers
<1>15. CASE WriteDraft
    <2>1. \A s \in InStateFile : draft[s] \in Made /\ draft[s].by \in {0} \cup Numbers
        BY <1>15 DEF WriteDraft, DraftTypeOK, CommandsTypeOK
    <2>2. /\ stored' \in [OperatorSettings -> Made]
          /\ \A s \in OperatorSettings : stored'[s].by \in {0} \cup Numbers
        BY <1>15, <2>1 DEF WriteDraft, CommandsTypeOK
    <2>3. unstored' \subseteq Numbers
        BY <1>15 DEF WriteDraft, CommandsTypeOK, DraftTypeOK
    <2> QED
        BY <1>d, <1>15, <2>2, <2>3 DEF WriteDraft, CommandsTypeOK, Numbers
<1>12. CASE BotDies
    <2>1. asked' \in [1..Len(asked) -> Request] /\ "done" \in Stages
        BY <1>12, AskedType DEF BotDies, Numbers, Request, Stages
    <2>2. asked' \in Seq(Request) /\ Len(asked') = Len(asked)
        BY <1>t, <2>1, SeqDef
    <2> QED
        BY <1>d, <1>12, <1>t, <2>2 DEF BotDies, CommandsTypeOK, Numbers, Request
<1>13. CASE UNCHANGED commandVars
    BY <1>d, <1>13 DEF commandVars, CommandsTypeOK, Numbers
<1> QED
    BY <1>1, <1>2, <1>3, <1>4, <1>5, <1>6, <1>7, <1>8, <1>9, <1>10, <1>11, <1>12, <1>13,
       <1>14, <1>15 DEF CommandsNext

\* The variables of the command path, hub to controller to state, keep their types.
THEOREM CommandsTypeCorrect == CommandsSpec => []CommandsTypeOK
<1> QED
    BY CommandsTypeInit, CommandsTypeNext, PTL DEF CommandsSpec

-----------------------------------------------------------------------------
(* What was answered stands. The service asks for one thing at a time, so a   *)
(* request that is not over is the newest one, or one the operator was told   *)
(* nothing good of: only those can still change a setting. What an answer     *)
(* promises was on disk before it was given.                                  *)

Stands(setting, s) ==
    \/ setting[s].by >= answered[s]
    \/ setting[s].by \in doubtful
    \/ answered[s] \in unstored

\* What is under way is awaited, and the newest, or doubtful.
OpenKnown ==
    /\ \A n \in Numbers : asked[n].at # "done" => n = awaited \/ n \in doubtful
    /\ awaited # 0 => awaited = Len(asked)

\* The change of the request that waits for its save is in memory, or a doubtful one
\* came over it.
OwnStands(n) ==
    LET s == asked[n].cmd.setting IN live[s].by = n \/ live[s].by \in doubtful

StandInv ==
    /\ OpenKnown
    /\ holder # 0 => asked[holder].cmd.setting # "directive" /\ OwnStands(holder)
    /\ \A n \in Numbers : asked[n].at \in {"checked", "applied"} =>
          asked[n].cmd.setting = "directive"
    /\ awaited # 0 /\ asked[awaited].at = "applied" => OwnStands(awaited)
    /\ \A s \in OperatorSettings : Stands(live, s) /\ Stands(stored, s)

\* The running save has read no change that is behind what was answered, but for those
\* made after it had read the setting.
DraftStands(s) == Stands(draft, s) \/ answered[s] \in overtaken

\* The same of the change that waits for its own save.
DraftOwn(n) ==
    LET s == asked[n].cmd.setting
    IN  s \in DOMAIN draft => \/ draft[s].by = n \/ draft[s].by \in doubtful
                              \/ n \in overtaken

DraftInv ==
    /\ holder # 0 => DraftOwn(holder)
    /\ awaited # 0 /\ asked[awaited].at = "applied" => DraftOwn(awaited)
    /\ \A s \in DOMAIN draft : DraftStands(s)
    /\ \A s \in OperatorSettings : answered[s] # 0 => asked[answered[s]].at = "done"

LEMMA StandInit == CommandsInit => StandInv
<1> SUFFICES ASSUME CommandsInit PROVE StandInv
    OBVIOUS
<1>1. Len(asked) = 0
    BY EmptySeq DEF CommandsInit
<1> QED
    BY <1>1 DEF CommandsInit, StandInv, OpenKnown, Stands, Numbers

\* A request that is under way is not older than what was answered for its setting,
\* unless it is doubtful.
LEMMA OpenIsNewest ==
    ASSUME CommandsTypeOK, StandInv, NEW n \in Numbers, asked[n].at # "done"
    PROVE  \/ n \in doubtful
           \/ n = Len(asked) /\ \A s \in OperatorSettings : n >= answered[s]
<1>1. \A s \in OperatorSettings : answered[s] \in 0..Len(asked)
    BY AskedType DEF CommandsTypeOK, Numbers
<1> QED
    BY <1>1, AskedType DEF StandInv, OpenKnown, Numbers

\* The answer to the request everybody waits for: the change is on disk, or its save is
\* known to have failed.
LEMMA AnswerStands ==
    ASSUME CommandsTypeOK, StandInv, NEW n \in Numbers, Store(n), Succeeds(n),
           n = awaited => OwnStands(n), asked[n].at # "done",
           UNCHANGED <<live, doubtful>>
    PROVE  \A s \in OperatorSettings : Stands(live, s)' /\ Stands(stored, s)'
<1>1. PICK own \in OperatorSettings : own = asked[n].cmd.setting
    BY AskedType
<1>2. /\ \A s \in OperatorSettings : stored'[s] \in {live[s], stored[s]}
      /\ (stored'[own] = live[own] /\ unstored' = unstored) \/ unstored' = unstored \cup {n}
    BY <1>1, StoreWrites
<1>3. \A s \in OperatorSettings : live[s].by \in Nat /\ stored[s].by \in Nat
    BY AskedType DEF CommandsTypeOK, Numbers
<1>4. ASSUME NEW s \in OperatorSettings, answered'[s] = answered[s]
      PROVE  Stands(live, s)' /\ Stands(stored, s)'
    BY <1>2, <1>4 DEF StandInv, Stands
<1>5. CASE n # awaited
    BY <1>4, <1>5 DEF Succeeds
<1>6. CASE n = awaited
    <2>1. /\ answered'[own] = n
          /\ \A s \in OperatorSettings : s # own => answered'[s] = answered[s]
        BY <1>1, <1>6 DEF Succeeds, CommandsTypeOK
    <2>2. Stands(live, own)' /\ Stands(stored, own)'
        <3>1. live'[own] = live[own] /\ (live[own].by = n \/ live[own].by \in doubtful')
            BY <1>1, <1>6 DEF OwnStands
        <3>2. n >= n
            BY AskedType DEF Numbers
        <3>3. stored'[own] = live[own] \/ n \in unstored'
            BY <1>2
        <3> QED
            BY <2>1, <3>1, <3>2, <3>3 DEF Stands
    <2> QED
        <3> SUFFICES ASSUME NEW s \in OperatorSettings
                     PROVE  Stands(live, s)' /\ Stands(stored, s)'
            OBVIOUS
        <3>1. CASE s = own
            BY <2>2, <3>1
        <3>2. CASE s # own
            BY <1>4, <2>1, <3>2
        <3> QED
            BY <3>1, <3>2
<1> QED
    BY <1>5, <1>6

\* A request that was checked, or is over, changes no setting (the rest of a handler).
LEMMA QuietStep ==
    ASSUME CommandsTypeOK, StandInv, NEW n \in Numbers, NEW at \in {"checked", "done"},
           asked' = [asked EXCEPT ![n].at = at],
           at = "checked" => asked[n].cmd.setting = "directive", asked[n].at # "done",
           UNCHANGED live, doubtful \subseteq doubtful', holder' \in {0, holder},
           awaited' = awaited \/ (awaited' = 0 /\ n = awaited /\ at = "done"),
           \A s \in OperatorSettings : Stands(live, s)' /\ Stands(stored, s)'
    PROVE  StandInv'
<1>1. /\ Numbers' = Numbers /\ Len(asked') = Len(asked)
      /\ \A m \in Numbers :
            /\ asked'[m].cmd = asked[m].cmd
            /\ asked'[m].at = IF m = n THEN at ELSE asked[m].at
    BY AskedType, Moved DEF Numbers, Stages
<1>2. OpenKnown'
    BY <1>1 DEF StandInv, OpenKnown
<1>3. \A m \in Numbers : OwnStands(m) => OwnStands(m)'
    BY <1>1 DEF OwnStands
<1>4. holder' # 0 => asked'[holder'].cmd.setting # "directive" /\ OwnStands(holder)'
    <2> SUFFICES ASSUME holder' # 0, holder' = holder
                 PROVE  asked'[holder].cmd.setting # "directive" /\ OwnStands(holder)'
        OBVIOUS
    <2>1. holder \in Numbers
        BY DEF CommandsTypeOK
    <2>2. OwnStands(holder) /\ asked[holder].cmd.setting # "directive"
        BY DEF StandInv
    <2> QED
        BY <1>1, <2>1, <2>2 DEF OwnStands
<1>5. awaited' # 0 /\ asked'[awaited'].at = "applied" => OwnStands(awaited)'
    <2> SUFFICES ASSUME awaited' # 0, awaited' = awaited, asked'[awaited].at = "applied"
                 PROVE  OwnStands(awaited)'
        OBVIOUS
    <2>1. awaited \in Numbers
        BY DEF CommandsTypeOK
    <2>2. asked[awaited].at = "applied"
        BY <1>1, <2>1
    <2>3. OwnStands(awaited)
        BY <2>2 DEF StandInv
    <2> QED
        BY <1>1, <2>1, <2>3 DEF OwnStands
<1>6. \A m \in Numbers' : asked'[m].at \in {"checked", "applied"} =>
          asked'[m].cmd.setting = "directive"
    BY <1>1 DEF StandInv
<1> QED
    BY <1>2, <1>4, <1>5, <1>6 DEF StandInv

\* Every step keeps the settings in memory and in the store no older than the newest
\* answered command, but for commands whose fate the operator was not told.
LEMMA StandNext ==
    CommandsTypeOK /\ StandInv /\ DraftInv /\ [CommandsNext]_commandVars => StandInv'
<1> SUFFICES ASSUME CommandsTypeOK, StandInv, DraftInv, [CommandsNext]_commandVars PROVE StandInv'
    OBVIOUS
<1>t. /\ Len(asked) \in Nat /\ asked \in Seq(Request)
      /\ \A n \in Numbers : asked[n].cmd.setting \in OperatorSettings
    BY AskedType
<1>h. holder # 0 => holder \in Numbers /\ asked[holder].at = "holding"
    BY DEF CommandsTypeOK
<1>m. ASSUME NEW n \in Numbers, NEW at \in Stages, asked' = [asked EXCEPT ![n].at = at]
      PROVE  /\ Numbers' = Numbers /\ Len(asked') = Len(asked)
             /\ \A m \in Numbers :
                   /\ asked'[m].cmd = asked[m].cmd
                   /\ asked'[m].at = IF m = n THEN at ELSE asked[m].at
    BY <1>t, <1>m, Moved DEF Numbers
<1>k. ASSUME UNCHANGED answered, doubtful \subseteq doubtful', unstored \subseteq unstored',
             \A s \in OperatorSettings : live'[s] \in {live[s], stored[s]},
             \A s \in OperatorSettings : stored'[s] \in {live[s], stored[s]}
      PROVE  \A s \in OperatorSettings : Stands(live, s)' /\ Stands(stored, s)'
    BY <1>k DEF StandInv, Stands
<1>a. {"holding", "checked", "applied", "done"} \subseteq Stages
    BY DEF Stages
<1>1. ASSUME NEW cmd \in Commands, Dispatch(cmd) PROVE StandInv'
    <2>1. [cmd |-> cmd, at |-> "sent"] \in Request
        BY DEF Request, Stages
    <2>2. /\ Len(asked') = Len(asked) + 1 /\ asked'[Len(asked) + 1].at = "sent"
          /\ \A m \in Numbers : asked'[m] = asked[m]
        BY <1>1, <1>t, <2>1, AppendProperties DEF Dispatch, Numbers
    <2>3. \A s \in OperatorSettings : Stands(live, s)' /\ Stands(stored, s)'
        BY <1>1, <1>k DEF Dispatch
    <2>4. OpenKnown'
        BY <1>1, <1>t, <2>2 DEF Dispatch, StandInv, OpenKnown, Numbers
    <2>5. holder' # 0 => asked'[holder'].cmd.setting # "directive" /\ OwnStands(holder)'
        BY <1>1, <1>h, <2>2 DEF Dispatch, StandInv, OwnStands
    <2>6. /\ asked'[awaited'].at = "sent"
          /\ \A m \in Numbers' : m \in Numbers \/ m = Len(asked) + 1
        BY <1>1, <1>t, <2>2 DEF Dispatch, Numbers
    <2>7. \A m \in Numbers' : asked'[m].at \in {"checked", "applied"} =>
              asked'[m].cmd.setting = "directive"
        BY <2>2, <2>6 DEF StandInv
    <2> QED
        BY <2>3, <2>4, <2>5, <2>6, <2>7 DEF StandInv
<1>2. CASE GiveUp
    <2>1. \A s \in OperatorSettings : Stands(live, s)' /\ Stands(stored, s)'
        BY <1>2, <1>k DEF GiveUp
    <2> QED
        BY <1>2, <2>1 DEF GiveUp, StandInv, OpenKnown, OwnStands, Numbers
<1>3. ASSUME NEW n \in Numbers, Refuse(n) PROVE StandInv'
    <2>1. asked' = [asked EXCEPT ![n].at = "done"]
        BY <1>3 DEF Refuse, Fails
    <2>2. \A s \in OperatorSettings : Stands(live, s)' /\ Stands(stored, s)'
        BY <1>3, <1>k DEF Refuse, Fails
    <2> QED
        BY <1>3, <2>1, <2>2, QuietStep DEF Refuse, Fails
<1>4. ASSUME NEW n \in Numbers, TakeLock(n) PROVE StandInv'
    <2>1. asked' = [asked EXCEPT ![n].at = "holding"] /\ Change(n) /\ asked[n].at = "sent"
        BY <1>4 DEF TakeLock
    <2>2. /\ live'[asked[n].cmd.setting].by = n
          /\ \A s \in OperatorSettings : s # asked[n].cmd.setting => live'[s] = live[s]
        BY <2>1, ChangeType
    <2>3. n \in doubtful \/ (n = Len(asked) /\ \A s \in OperatorSettings : n >= answered[s])
        BY <2>1, OpenIsNewest
    <2>4. \A s \in OperatorSettings : Stands(live, s)' /\ Stands(stored, s)'
        BY <1>4, <2>2, <2>3 DEF TakeLock, StandInv, Stands
    <2>5. awaited # 0 /\ asked'[awaited].at = "applied" => OwnStands(awaited)'
        BY <1>4, <1>t, <1>m, <1>a, <2>1, <2>2
           DEF TakeLock, StandInv, OpenKnown, OwnStands, CommandsTypeOK
    <2>6. asked[n].cmd.setting # "directive"
        BY <1>4 DEF TakeLock
    <2>7. /\ Numbers' = Numbers /\ Len(asked') = Len(asked)
          /\ \A m \in Numbers :
                /\ asked'[m].cmd = asked[m].cmd
                /\ asked'[m].at = IF m = n THEN "holding" ELSE asked[m].at
        BY <1>m, <1>a, <2>1
    <2>8. OpenKnown'
        BY <1>4, <2>1, <2>7 DEF TakeLock, StandInv, OpenKnown
    <2>9. \A m \in Numbers' : asked'[m].at \in {"checked", "applied"} =>
              asked'[m].cmd.setting = "directive"
        BY <2>7 DEF StandInv
    <2>10. holder' = n /\ asked'[n].cmd = asked[n].cmd /\ awaited' = awaited
        BY <1>4, <2>7 DEF TakeLock
    <2>11. OwnStands(holder)'
        BY <2>2, <2>10 DEF OwnStands
    <2> QED
        BY <2>4, <2>5, <2>6, <2>8, <2>9, <2>10, <2>11 DEF StandInv
<1>5. ASSUME NEW n \in Numbers, Release(n) PROVE StandInv'
    <2>1. asked' = [asked EXCEPT ![n].at = "done"] /\ n # 0
        BY <1>5, <1>t DEF Release, Succeeds, Numbers
    <2>2. \A s \in OperatorSettings : Stands(live, s)' /\ Stands(stored, s)'
        BY <1>5, <1>h, <2>1, AnswerStands DEF Release, StandInv
    <2> QED
        BY <1>5, <1>h, <2>1, <2>2, QuietStep DEF Release, Succeeds
<1>6. ASSUME NEW n \in Numbers, PanicFails(n) PROVE StandInv'
    <2>1. asked' = [asked EXCEPT ![n].at = "done"]
        BY <1>6 DEF PanicFails, Fails
    <2>2. \A s \in OperatorSettings : Stands(live, s)' /\ Stands(stored, s)'
        BY <1>6, <1>k DEF PanicFails, Fails
    <2> QED
        <3>1. n \in Numbers /\ n # 0 /\ asked[n].at # "done"
            BY <1>6, <1>h, <1>t DEF PanicFails, Numbers
        <3>2. UNCHANGED live /\ holder' = 0 /\ doubtful \subseteq doubtful'
              /\ (awaited' = awaited \/ (awaited' = 0 /\ n = awaited))
            BY <1>6 DEF PanicFails, Fails
        <3> QED
            BY <2>1, <2>2, <3>1, <3>2, QuietStep
<1>7. ASSUME NEW n \in Numbers, CheckDirective(n) PROVE StandInv'
    <2>1. asked' = [asked EXCEPT ![n].at = "checked"] /\ asked[n].at = "sent"
        BY <1>7 DEF CheckDirective
    <2>2. \A s \in OperatorSettings : Stands(live, s)' /\ Stands(stored, s)'
        BY <1>7, <1>k DEF CheckDirective
    <2> QED
        BY <1>7, <2>1, <2>2, QuietStep DEF CheckDirective
<1>8. ASSUME NEW n \in Numbers, ChangeDirective(n) PROVE StandInv'
    <2>1. /\ asked' = [asked EXCEPT ![n].at = "applied"] /\ Change(n)
          /\ asked[n].at = "checked" /\ asked[n].cmd.setting = "directive"
        BY <1>8 DEF ChangeDirective, StandInv
    <2>2. /\ live'["directive"].by = n
          /\ \A s \in OperatorSettings : s # "directive" => live'[s] = live[s]
        BY <2>1, ChangeType
    <2>3. n \in doubtful \/ (n = Len(asked) /\ \A s \in OperatorSettings : n >= answered[s])
        BY <2>1, OpenIsNewest
    <2>4. \A s \in OperatorSettings : Stands(live, s)' /\ Stands(stored, s)'
        BY <1>8, <2>2, <2>3 DEF ChangeDirective, StandInv, Stands
    <2>5. n = awaited \/ n \in doubtful
        BY <2>1 DEF StandInv, OpenKnown
    <2>6. awaited # 0 /\ asked'[awaited].at = "applied" => OwnStands(awaited)'
        BY <1>8, <1>m, <1>a, <2>1, <2>2, <2>5
           DEF ChangeDirective, StandInv, OwnStands, CommandsTypeOK
    <2>7. holder # 0 => asked'[holder].cmd.setting # "directive" /\ OwnStands(holder)'
        BY <1>8, <1>t, <1>m, <1>a, <1>h, <2>1, <2>2 DEF ChangeDirective, StandInv, OwnStands
    <2> QED
        <3>1. /\ Numbers' = Numbers /\ Len(asked') = Len(asked)
              /\ \A m \in Numbers :
                    /\ asked'[m].cmd = asked[m].cmd
                    /\ asked'[m].at = IF m = n THEN "applied" ELSE asked[m].at
            BY <1>m, <1>a, <2>1
        <3>2. OpenKnown'
            BY <1>8, <2>1, <3>1 DEF ChangeDirective, StandInv, OpenKnown
        <3>3. \A m \in Numbers' : asked'[m].at \in {"checked", "applied"} =>
                  asked'[m].cmd.setting = "directive"
            BY <2>1, <3>1 DEF StandInv
        <3>4. awaited' = awaited /\ holder' = holder
            BY <1>8 DEF ChangeDirective
        <3> QED
            BY <2>4, <2>6, <2>7, <3>2, <3>3, <3>4 DEF StandInv
<1>9. ASSUME NEW n \in Numbers, SaveDirective(n) PROVE StandInv'
    <2>1. asked' = [asked EXCEPT ![n].at = "done"] /\ asked[n].at = "applied" /\ n # 0
        BY <1>9, <1>t DEF SaveDirective, Succeeds, Numbers
    <2>2. \A s \in OperatorSettings : Stands(live, s)' /\ Stands(stored, s)'
        BY <1>9, <2>1, AnswerStands DEF SaveDirective, StandInv
    <2> QED
        BY <1>9, <2>1, <2>2, QuietStep DEF SaveDirective, Succeeds
<1>10. CASE StartCycle
    BY <1>10 DEF StartCycle, Free, StandInv, OpenKnown, OwnStands, Stands, Numbers
<1>11. CASE EndCycle
    BY <1>11 DEF EndCycle, StandInv, OpenKnown, OwnStands, Stands, Numbers
<1>14. ASSUME NEW s \in InStateFile, Draft(s) PROVE StandInv'
    BY <1>14 DEF Draft, StandInv, OpenKnown, OwnStands, Stands, Numbers
<1>15. CASE WriteDraft
    <2>1. \A s \in OperatorSettings : Stands(live, s)'
        BY <1>15 DEF WriteDraft, StandInv, Stands
    <2>2. ASSUME NEW s \in OperatorSettings PROVE Stands(stored, s)'
        <3>1. CASE stored' = stored
            BY <1>15, <3>1 DEF WriteDraft, StandInv, Stands
        <3>2. CASE s \notin InStateFile
            BY <1>15, <3>2 DEF WriteDraft, StandInv, Stands
        <3>3. CASE /\ s \in InStateFile /\ stored' # stored
            <4>1. /\ stored'[s] = draft[s] /\ DraftStands(s)
                  /\ unstored' = unstored \cup {n \in overtaken : asked[n].at = "done"}
                  /\ UNCHANGED <<answered, doubtful>>
                BY <1>15, <3>3 DEF WriteDraft, DraftInv
            <4>2. CASE answered[s] \in overtaken
                <5>1. answered[s] # 0
                    BY <1>t, <4>2 DEF CommandsTypeOK, DraftTypeOK, Numbers
                <5>2. answered[s] \in unstored'
                    BY <4>1, <4>2, <5>1 DEF DraftInv
                <5> QED
                    BY <4>1, <5>2 DEF Stands
            <4> QED
                BY <4>1, <4>2 DEF DraftStands, Stands
        <3> QED
            BY <3>1, <3>2, <3>3
    <2> QED
        BY <1>15, <2>1, <2>2 DEF WriteDraft, StandInv, OpenKnown, OwnStands, Numbers
<1>12. CASE BotDies
    <2>0. asked' \in [1..Len(asked) -> Request] /\ "done" \in Stages
        BY <1>12, AskedType DEF BotDies, Numbers, Request, Stages
    <2>1. Len(asked') = Len(asked) /\ \A n \in Numbers : asked'[n].at = "done"
        <3>1. asked' \in Seq(Request) /\ Len(asked') = Len(asked)
            BY <1>t, <2>0, SeqDef
        <3>2. \A n \in Numbers : asked[n] \in Request
            BY AskedType
        <3>3. \A n \in Numbers : [asked[n] EXCEPT !.at = "done"].at = "done"
            BY <3>2 DEF Request
        <3> QED
            BY <1>12, <3>1, <3>3 DEF BotDies
    <2>2. \A s \in OperatorSettings : Stands(live, s)' /\ Stands(stored, s)'
        BY <1>12, <1>k DEF BotDies
    <2> QED
        BY <1>12, <2>1, <2>2 DEF BotDies, StandInv, OpenKnown, Numbers
<1>13. CASE UNCHANGED commandVars
    BY <1>13 DEF commandVars, StandInv, OpenKnown, OwnStands, Stands, Numbers
<1> QED
    BY <1>1, <1>2, <1>3, <1>4, <1>5, <1>6, <1>7, <1>8, <1>9, <1>10, <1>11, <1>12, <1>13,
       <1>14, <1>15 DEF CommandsNext

\* What the running save has read changes by its reading alone, and a request that comes
\* after it is remembered.
LEMMA DraftNext ==
    CommandsTypeOK /\ StandInv /\ DraftInv /\ [CommandsNext]_commandVars => DraftInv'
<1> SUFFICES ASSUME CommandsTypeOK, StandInv, DraftInv, [CommandsNext]_commandVars
             PROVE  DraftInv'
    OBVIOUS
<1>t. /\ Len(asked) \in Nat /\ asked \in Seq(Request)
      /\ \A n \in Numbers : asked[n].cmd.setting \in OperatorSettings
    BY AskedType
<1>h. /\ holder # 0 => holder \in Numbers /\ asked[holder].at = "holding"
      /\ awaited # 0 => awaited \in Numbers
      /\ \A s \in OperatorSettings : answered[s] # 0 => answered[s] \in Numbers
    BY DEF CommandsTypeOK
<1>d. /\ DOMAIN draft \subseteq OperatorSettings
    BY DEF CommandsTypeOK, DraftTypeOK, InStateFile, OperatorSettings
<1>m. ASSUME NEW n \in Numbers, NEW at \in Stages, asked' = [asked EXCEPT ![n].at = at]
      PROVE  /\ Numbers' = Numbers
             /\ \A m \in Numbers :
                   /\ asked'[m].cmd = asked[m].cmd
                   /\ asked'[m].at = IF m = n THEN at ELSE asked[m].at
    BY <1>t, <1>m, Moved DEF Numbers
<1>a. {"holding", "checked", "applied", "done"} \subseteq Stages
    BY DEF Stages
\* A request moves on, and neither the save nor what was answered changes.
<1>q. ASSUME NEW n \in Numbers, NEW at \in Stages, asked' = [asked EXCEPT ![n].at = at],
             asked[n].at = "done" => at = "done", at # "applied",
             UNCHANGED <<draft, answered>>, overtaken \subseteq overtaken',
             doubtful \subseteq doubtful', unstored \subseteq unstored',
             awaited' \in {0, awaited}, holder' \in {0, holder}
      PROVE  DraftInv'
    <2>1. \A m \in Numbers : /\ asked'[m].cmd = asked[m].cmd
                             /\ asked'[m].at = IF m = n THEN at ELSE asked[m].at
        BY <1>q, <1>m
    <2>2. \A m \in Numbers : DraftOwn(m) => DraftOwn(m)'
        BY <1>q, <2>1 DEF DraftOwn
    <2>3. holder' # 0 => DraftOwn(holder)'
        BY <1>q, <1>h, <2>2 DEF DraftInv
    <2>4. awaited' # 0 /\ asked'[awaited'].at = "applied" => DraftOwn(awaited)'
        BY <1>q, <1>h, <2>1, <2>2 DEF DraftInv
    <2>5. \A s \in DOMAIN draft' : DraftStands(s)'
        BY <1>q DEF DraftInv, DraftStands, Stands
    <2>6. \A s \in OperatorSettings : answered'[s] # 0 => asked'[answered'[s]].at = "done"
        BY <1>q, <1>h, <2>1 DEF DraftInv
    <2> QED
        BY <2>3, <2>4, <2>5, <2>6 DEF DraftInv
\* A request is answered, after its change was made.
<1>s. ASSUME NEW n \in Numbers, Succeeds(n), n = awaited => DraftOwn(n),
             UNCHANGED <<draft, overtaken, doubtful>>, unstored \subseteq unstored',
             holder' \in {0, holder}
      PROVE  DraftInv'
    <2>1. \A m \in Numbers : /\ asked'[m].cmd = asked[m].cmd
                             /\ asked'[m].at = IF m = n THEN "done" ELSE asked[m].at
        BY <1>s, <1>m, <1>a DEF Succeeds
    <2>2. \A m \in Numbers : DraftOwn(m) => DraftOwn(m)'
        BY <1>s, <2>1 DEF DraftOwn
    <2>3. holder' # 0 => DraftOwn(holder)'
        BY <1>s, <1>h, <2>2 DEF DraftInv
    <2>4. awaited' # 0 /\ asked'[awaited'].at = "applied" => DraftOwn(awaited)'
        BY <1>s, <1>h, <2>1, <2>2 DEF DraftInv, Succeeds
    <2>5. CASE n # awaited
        <3>1. answered' = answered
            BY <1>s, <2>5 DEF Succeeds
        <3>2. \A s \in DOMAIN draft' : DraftStands(s)'
            BY <1>s, <3>1 DEF DraftInv, DraftStands, Stands
        <3>3. \A s \in OperatorSettings : answered'[s] # 0 => asked'[answered'[s]].at = "done"
            BY <1>h, <2>1, <3>1 DEF DraftInv
        <3> QED
            BY <2>3, <2>4, <3>2, <3>3 DEF DraftInv
    <2>6. CASE n = awaited
        <3>1. PICK own \in OperatorSettings : own = asked[n].cmd.setting
            BY <1>t
        <3>2. /\ answered'[own] = n
              /\ \A s \in OperatorSettings : s # own => answered'[s] = answered[s]
            BY <1>s, <2>6, <3>1 DEF Succeeds, CommandsTypeOK
        <3>3. n >= n
            BY <1>t DEF Numbers
        <3>4. own \in DOMAIN draft => DraftStands(own)'
            BY <1>s, <2>6, <3>1, <3>2, <3>3 DEF DraftOwn, DraftStands, Stands
        <3>5. \A s \in DOMAIN draft' : DraftStands(s)'
            <4> SUFFICES ASSUME NEW s \in DOMAIN draft PROVE DraftStands(s)'
                BY <1>s
            <4>1. CASE s # own
                BY <1>s, <1>d, <3>2, <4>1 DEF DraftInv, DraftStands, Stands
            <4> QED
                BY <3>4, <4>1
        <3>6. \A s \in OperatorSettings : answered'[s] # 0 => asked'[answered'[s]].at = "done"
            BY <1>h, <2>1, <3>2 DEF DraftInv
        <3> QED
            BY <2>3, <2>4, <3>5, <3>6 DEF DraftInv
    <2> QED
        BY <2>5, <2>6
<1>1. ASSUME NEW cmd \in Commands, Dispatch(cmd) PROVE DraftInv'
    <2>1. [cmd |-> cmd, at |-> "sent"] \in Request
        BY DEF Request, Stages
    <2>2. /\ asked'[Len(asked) + 1].at = "sent"
          /\ \A m \in Numbers : asked'[m] = asked[m]
        BY <1>1, <1>t, <2>1, AppendProperties DEF Dispatch, Numbers
    <2>3. /\ UNCHANGED <<draft, overtaken, answered, doubtful, unstored, holder>>
          /\ asked'[awaited'].at = "sent"
        BY <1>1, <2>2 DEF Dispatch, saveVars
    <2>4. holder' # 0 => DraftOwn(holder)'
        BY <1>h, <2>2, <2>3 DEF DraftInv, DraftOwn
    <2>5. \A s \in DOMAIN draft' : DraftStands(s)'
        BY <2>3 DEF DraftInv, DraftStands, Stands
    <2>6. \A s \in OperatorSettings : answered'[s] # 0 => asked'[answered'[s]].at = "done"
        BY <1>h, <2>2, <2>3 DEF DraftInv
    <2> QED
        BY <2>3, <2>4, <2>5, <2>6 DEF DraftInv
<1>2. CASE GiveUp
    BY <1>2 DEF GiveUp, saveVars, DraftInv, DraftOwn, DraftStands, Stands
<1>3. ASSUME NEW n \in Numbers, Refuse(n) PROVE DraftInv'
    BY <1>3, <1>q, <1>a DEF Refuse, Fails, saveVars
<1>c. ASSUME NEW n \in Numbers, Change(n), asked[n].at # "done",
             NEW at \in {"holding", "applied"}, asked' = [asked EXCEPT ![n].at = at],
             UNCHANGED <<answered, doubtful, unstored>>
      PROVE  /\ DraftOwn(n)'
             /\ \A m \in Numbers : DraftOwn(m) => DraftOwn(m)'
             /\ \A s \in DOMAIN draft' : DraftStands(s)'
             /\ \A s \in OperatorSettings : answered'[s] # 0 => asked'[answered'[s]].at = "done"
    <2>0. at \in Stages
        BY <1>c DEF Stages
    <2>1. \A m \in Numbers : /\ asked'[m].cmd = asked[m].cmd
                             /\ asked'[m].at = IF m = n THEN at ELSE asked[m].at
        BY <1>c, <1>m, <2>0
    <2>2. DraftOwn(n)'
        BY <1>c, <2>1 DEF Change, DraftOwn
    <2>3. \A m \in Numbers : DraftOwn(m) => DraftOwn(m)'
        BY <1>c, <2>1 DEF Change, DraftOwn
    <2>4. \A s \in DOMAIN draft' : DraftStands(s)'
        BY <1>c DEF Change, DraftInv, DraftStands, Stands
    <2>5. \A s \in OperatorSettings : answered'[s] # 0 => asked'[answered'[s]].at = "done"
        BY <1>c, <1>h, <2>1 DEF DraftInv
    <2> QED
        BY <2>2, <2>3, <2>4, <2>5
<1>4. ASSUME NEW n \in Numbers, TakeLock(n) PROVE DraftInv'
    <2>1. /\ Change(n) /\ asked[n].at # "done" /\ asked' = [asked EXCEPT ![n].at = "holding"]
          /\ UNCHANGED <<awaited, answered, doubtful, unstored>> /\ holder' = n
        BY <1>4 DEF TakeLock
    <2>2. \A m \in Numbers : asked'[m].at = IF m = n THEN "holding" ELSE asked[m].at
        BY <1>m, <1>a, <2>1
    <2>3. awaited # 0 /\ asked'[awaited].at = "applied" => DraftOwn(awaited)'
        BY <1>c, <1>h, <2>1, <2>2 DEF DraftInv
    <2> QED
        BY <1>c, <2>1, <2>3 DEF DraftInv
<1>5. ASSUME NEW n \in Numbers, Release(n) PROVE DraftInv'
    BY <1>5, <1>s, <1>t DEF Release, Store, saveVars, DraftInv, Numbers
<1>6. ASSUME NEW n \in Numbers, PanicFails(n) PROVE DraftInv'
    BY <1>6, <1>q, <1>a DEF PanicFails, Fails, saveVars
<1>7. ASSUME NEW n \in Numbers, CheckDirective(n) PROVE DraftInv'
    BY <1>7, <1>q, <1>a DEF CheckDirective, saveVars
<1>8. ASSUME NEW n \in Numbers, ChangeDirective(n) PROVE DraftInv'
    <2>1. /\ Change(n) /\ asked[n].at # "done" /\ asked' = [asked EXCEPT ![n].at = "applied"]
          /\ UNCHANGED <<awaited, answered, doubtful, unstored, holder>>
        BY <1>8 DEF ChangeDirective
    <2>2. \A m \in Numbers : asked'[m].at = IF m = n THEN "applied" ELSE asked[m].at
        BY <1>m, <1>a, <2>1
    <2>3. awaited # 0 /\ asked'[awaited].at = "applied" => DraftOwn(awaited)'
        BY <1>c, <1>h, <2>1, <2>2 DEF DraftInv
    <2>4. holder # 0 => DraftOwn(holder)'
        BY <1>c, <1>h, <2>1 DEF DraftInv
    <2> QED
        BY <1>c, <2>1, <2>3, <2>4 DEF DraftInv
<1>9. ASSUME NEW n \in Numbers, SaveDirective(n) PROVE DraftInv'
    BY <1>9, <1>s, <1>t DEF SaveDirective, Store, saveVars, DraftInv, Numbers
<1>10. CASE StartCycle \/ EndCycle
    BY <1>10 DEF StartCycle, EndCycle, saveVars, DraftInv, DraftOwn, DraftStands, Stands
<1>11. ASSUME NEW s \in InStateFile, Draft(s) PROVE DraftInv'
    <2>1. /\ s \in OperatorSettings
          /\ UNCHANGED <<overtaken, holder, asked, awaited, answered, doubtful, unstored>>
          /\ DOMAIN draft' = DOMAIN draft \cup {s}
          /\ \A t \in DOMAIN draft' : draft'[t] = IF t = s THEN live[s] ELSE draft[t]
        BY <1>11 DEF Draft, InStateFile, OperatorSettings
    <2>2. \A t \in DOMAIN draft' : DraftStands(t)'
        BY <2>1 DEF DraftInv, StandInv, DraftStands, Stands
    <2>3. \A n \in Numbers : DraftOwn(n) /\ OwnStands(n) => DraftOwn(n)'
        BY <2>1 DEF DraftOwn, OwnStands
    <2>4. holder' # 0 => DraftOwn(holder)'
        BY <1>h, <2>1, <2>3 DEF DraftInv, StandInv
    <2>5. awaited' # 0 /\ asked'[awaited'].at = "applied" => DraftOwn(awaited)'
        BY <1>h, <2>1, <2>3 DEF DraftInv, StandInv
    <2>6. \A t \in OperatorSettings : answered'[t] # 0 => asked'[answered'[t]].at = "done"
        BY <2>1 DEF DraftInv
    <2> QED
        BY <2>2, <2>4, <2>5, <2>6 DEF DraftInv
<1>12. CASE WriteDraft
    <2>1. DOMAIN draft' = {} /\ UNCHANGED <<holder, asked, awaited, answered>>
        BY <1>12 DEF WriteDraft
    <2> QED
        BY <2>1 DEF DraftInv, DraftOwn
<1>13. CASE BotDies
    <2>0. asked' \in [1..Len(asked) -> Request] /\ "done" \in Stages
        BY <1>13, AskedType DEF BotDies, Numbers, Request, Stages
    <2>1. \A n \in Numbers : asked'[n].at = "done"
        <3>1. \A n \in Numbers : asked[n] \in Request
            BY AskedType
        <3> QED
            BY <1>13, <3>1 DEF BotDies, Request
    <2>2. DOMAIN draft' = {} /\ holder' = 0 /\ awaited' = 0 /\ answered' = answered
        BY <1>13 DEF BotDies
    <2> QED
        BY <1>h, <2>1, <2>2 DEF DraftInv
<1>14. CASE UNCHANGED commandVars
    BY <1>14 DEF commandVars, saveVars, DraftInv, DraftOwn, DraftStands, Stands
<1> QED
    BY <1>1, <1>2, <1>3, <1>4, <1>5, <1>6, <1>7, <1>8, <1>9, <1>10, <1>11, <1>12, <1>13,
       <1>14 DEF CommandsNext

\* A command the operator saw succeed stands, in memory and through restarts, however
\* late the ones before it come, unless its own save failed or the save of a cycle that had
\* read the setting before wrote over it (BotController's operations behind dispatch).
THEOREM AnsweredCommandsStand == CommandsSpec => []ConfirmedStands
<1>1. StandInv => ConfirmedStands
    BY DEF StandInv, Stands, ConfirmedStands
<1>2. CommandsInit => DraftInv
    BY DEF CommandsInit, DraftInv
<1> QED
    BY <1>1, <1>2, CommandsTypeCorrect, StandInit, StandNext, DraftNext, PTL DEF CommandsSpec
=============================================================================
