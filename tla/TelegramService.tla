--------------------------- MODULE TelegramService ---------------------------
(* The Telegram service and the alert hub of the bot it talks to. The service *)
(* is one loop: poll Telegram, dispatch the updates one by one, then take each *)
(* chat's queued alerts over HTTP and send them on. Bot, service and Telegram *)
(* fail independently: a request may fail before or after the other side has  *)
(* acted on it, and either process may crash and start again.                 *)
EXTENDS Naturals, Sequences, FiniteSets

CONSTANTS
    NumChats,       \* TELEGRAM_ALLOWED_CHAT_IDS, numbered in their order
    AlertTypes,     \* the AlertType members
    SafeDefault,    \* the types a chat starts with
    NoSubs,         \* a chat the store has not met
    QueueLen,       \* max_per_chat of a queue (200)
    DrainLimit,     \* alerts per drain request (50)
    Messages,       \* what a user may post
    MaxAlerts, MaxUpdates, MaxServiceCrashes    \* bounds of the exploration

Chats == 1..NumChats

ASSUME TelegramAssumption ==
    /\ NumChats \in Nat \ {0} /\ QueueLen \in Nat \ {0} /\ DrainLimit \in Nat \ {0}
    /\ SafeDefault \subseteq AlertTypes
    /\ \A m \in Messages : m.kind = "toggle" => m.type \in AlertTypes    \* the menu's buttons
    /\ MaxAlerts \in Nat /\ MaxUpdates \in Nat /\ MaxServiceCrashes \in Nat

VARIABLES
    emitted,    \* alerts emitted, numbered in order
    queue,      \* queue[c]: the hub's deque, its members taken in number order
    seen,       \* seen[c]: the alert messages Telegram showed the chat
    subs,       \* subs[c]: the types the chat wants, or NoSubs
    subsFile,   \* the JSON file of the subscriptions
    phase,      \* where the loop is: "poll", "dispatch", "drain"
    turn,       \* the chat whose alerts are being drained, 0 outside "drain"
    flight,     \* its alerts, off the queue and not sent yet
    posted,     \* the updates users made, in update_id order
    confirmed,  \* Telegram: updates up to here are not delivered again
    last,       \* _last_update_id, 0 in a new process
    inbox,      \* the fetched updates still to dispatch
    handled,    \* handled[u]: how often the update was dispatched
    crashes     \* service restarts so far

hubVars == <<emitted, queue, subs, subsFile>>
updateVars == <<posted, confirmed, last, inbox, handled, crashes>>
telegramVars == <<hubVars, seen, phase, turn, flight, updateVars>>

TelegramTypeOK ==
    /\ emitted \in 0..MaxAlerts
    /\ queue \in [Chats -> SUBSET (1..emitted)]
    /\ \A c \in Chats : Cardinality(queue[c]) <= QueueLen
    /\ seen \in [Chats -> Seq(1..emitted)]
    /\ subs \in [Chats -> (SUBSET AlertTypes) \cup {NoSubs}]
    /\ subsFile \in [Chats -> (SUBSET AlertTypes) \cup {NoSubs}]
    /\ phase \in {"poll", "dispatch", "drain"}
    /\ turn \in 0..NumChats /\ (turn = 0 => flight = {})
    /\ flight \subseteq 1..emitted
    /\ posted \in Seq(Messages) /\ Len(posted) <= MaxUpdates
    /\ confirmed \in 0..Len(posted) /\ last \in 0..Len(posted)
    /\ inbox \subseteq 1..last
    /\ handled \in [1..MaxUpdates -> Nat]
    /\ crashes \in 0..MaxServiceCrashes

TelegramInit ==
    /\ emitted = 0
    /\ queue = [c \in Chats |-> {}]
    /\ seen = [c \in Chats |-> <<>>]
    /\ subs = [c \in Chats |-> NoSubs]
    /\ subsFile = subs
    /\ phase = "poll" /\ turn = 0 /\ flight = {}
    /\ posted = <<>> /\ confirmed = 0 /\ last = 0 /\ inbox = {}
    /\ handled = [u \in 1..MaxUpdates |-> 0]
    /\ crashes = 0

-----------------------------------------------------------------------------
(* The hub, in the bot.                                                       *)

\* enabled_for writes the default of a chat it has not met into the map.
Met(c) == IF subs[c] = NoSubs THEN SafeDefault ELSE subs[c]

IsOldest(a, S) == a \in S /\ \A b \in S : a <= b

\* A full deque drops its oldest member for the new one.
Pushed(q, a) ==
    {b \in q : Cardinality(q) >= QueueLen => ~IsOldest(b, q)} \cup {a}

\* emit, under the hub's lock, asks each chat's subscriptions in turn. Every chat
\* met for the first time saves the file; the last save that works stays.
EmitAlert(type) ==
    /\ emitted < MaxAlerts
    /\ emitted' = emitted + 1
    /\ subs' = [c \in Chats |-> Met(c)]
    /\ queue' = [c \in Chats |->
                    IF type \in Met(c) THEN Pushed(queue[c], emitted + 1) ELSE queue[c]]
    /\ \/ UNCHANGED subsFile
       \/ \E k \in {c \in Chats : subs[c] = NoSubs} :
            subsFile' = [c \in Chats |-> IF c <= k THEN Met(c) ELSE subs[c]]
    /\ UNCHANGED <<seen, phase, turn, flight, updateVars>>

\* toggle and set_enabled flip the set in memory; a failed save is only logged.
Toggle(c, type) ==
    LET now == Met(c)
        new == IF type \in now THEN now \ {type} ELSE now \cup {type}
    IN /\ subs' = [subs EXCEPT ![c] = new]
       /\ subsFile' \in {subsFile, subs'}

\* The queues are memory only; the subscriptions come back from the file.
BotRestart ==
    /\ queue' = [c \in Chats |-> {}]
    /\ subs' = subsFile
    /\ UNCHANGED <<emitted, subsFile, seen, phase, turn, flight, updateVars>>

-----------------------------------------------------------------------------
(* Updates: from Telegram into the loop.                                      *)

Post(m) ==
    /\ Len(posted) < MaxUpdates
    /\ posted' = Append(posted, m)
    /\ UNCHANGED <<hubVars, seen, phase, turn, flight, confirmed, last, inbox,
                   handled, crashes>>

\* Mutant: whatever was posted is confirmed.
OffsetOfPosted == Len(posted)

\* The offset confirms what it passes; a new process sends none.
Offset == IF last = 0 THEN confirmed ELSE IF last > confirmed THEN last ELSE confirmed

\* An update without text and without a button is skipped by the parsers.
Parsed(u) == posted[u].kind # "other"

PollSucceeds ==
    /\ phase = "poll"
    /\ confirmed' = Offset
    /\ LET fetched == Offset + 1..Len(posted) IN
        /\ last' = IF fetched = {} THEN last ELSE Len(posted)
        /\ inbox' = {u \in fetched : Parsed(u)}
    /\ phase' = "dispatch"
    /\ UNCHANGED <<hubVars, seen, turn, flight, posted, handled, crashes>>

\* Unreachable, or the answer was lost after Telegram read the offset. The loop
\* backs off and polls again without draining.
PollFails ==
    /\ phase = "poll"
    /\ confirmed' \in {confirmed, Offset}
    /\ UNCHANGED <<hubVars, seen, phase, turn, flight, posted, last, inbox, handled,
                   crashes>>

\* A toggle of the /alerts menu posts a request that flips: it works, or fails
\* with or without the bot having flipped. Every other command only reads here or
\* is a control operation of the bot. A chat that is not listed gets a refusal.
DispatchUpdate ==
    /\ phase = "dispatch"
    /\ \E u \in inbox :
        /\ IsOldest(u, inbox)
        /\ inbox' = inbox \ {u}
        /\ handled' = [handled EXCEPT ![u] = @ + 1]
        /\ \/ UNCHANGED <<subs, subsFile>>
           \/ /\ posted[u].kind = "toggle"
              /\ posted[u].chat \in Chats
              /\ Toggle(posted[u].chat, posted[u].type)
    /\ UNCHANGED <<emitted, queue, seen, phase, turn, flight, posted, confirmed, last,
                   crashes>>

-----------------------------------------------------------------------------
(* Alerts: out of the hub to the chats.                                       *)

\* Mutant: the newest first.
DrainedNewest(taken, q) ==
    /\ taken \subseteq q
    /\ \A a \in taken, b \in q \ taken : b < a
    /\ Cardinality(taken) =
            IF Cardinality(q) < DrainLimit THEN Cardinality(q) ELSE DrainLimit

\* drain pops up to DrainLimit alerts from the left, the oldest first.
Drained(taken, q) ==
    /\ taken \subseteq q
    /\ \A a \in taken, b \in q \ taken : a < b
    /\ Cardinality(taken) =
            IF Cardinality(q) < DrainLimit THEN Cardinality(q) ELSE DrainLimit

\* The pops happen before the answer: when it is lost, so are the alerts. A bot
\* that is down keeps them.
DrainChat ==
    /\ \/ phase = "dispatch" /\ inbox = {}
       \/ phase = "drain" /\ flight = {} /\ turn < NumChats
    /\ phase' = "drain" /\ turn' = turn + 1
    /\ \/ \E taken \in SUBSET queue[turn + 1] :
            /\ Drained(taken, queue[turn + 1])
            /\ queue' = [queue EXCEPT ![turn + 1] = @ \ taken]
            /\ flight' \in {taken, {}}
       \/ flight' = {} /\ UNCHANGED queue
    /\ UNCHANGED <<emitted, subs, subsFile, seen, updateVars>>

\* Each alert is sent once, whatever the answer: a failed send is logged, and may
\* still have reached the chat.
SendAlert ==
    /\ phase = "drain"
    /\ \E a \in flight :
        /\ IsOldest(a, flight)
        /\ flight' = flight \ {a}
        /\ seen' \in {seen, [seen EXCEPT ![turn] = Append(@, a)]}
    /\ UNCHANGED <<hubVars, phase, turn, updateVars>>

DrainEnds ==
    /\ phase = "drain" /\ turn = NumChats /\ flight = {}
    /\ phase' = "poll" /\ turn' = 0
    /\ UNCHANGED <<hubVars, seen, flight, updateVars>>

\* A new process knows no update id and holds no alert.
ServiceRestart ==
    /\ crashes < MaxServiceCrashes
    /\ crashes' = crashes + 1
    /\ phase' = "poll" /\ turn' = 0 /\ flight' = {} /\ inbox' = {} /\ last' = 0
    /\ UNCHANGED <<hubVars, seen, posted, confirmed, handled>>

TelegramNext ==
    \/ \E type \in AlertTypes : EmitAlert(type)
    \/ BotRestart
    \/ \E m \in Messages : Post(m)
    \/ PollSucceeds \/ PollFails \/ DispatchUpdate
    \/ DrainChat \/ SendAlert \/ DrainEnds
    \/ ServiceRestart

TelegramSpec == TelegramInit /\ [][TelegramNext]_telegramVars

-----------------------------------------------------------------------------
Pending == [c \in Chats |-> queue[c] \cup (IF c = turn THEN flight ELSE {})]

Channel == INSTANCE LossyChannel WITH n <- emitted, pending <- Pending

\* Through overflowing queues, lost answers, failed sends and restarts of either
\* process, a chat never sees an alert twice and never sees an older alert after a
\* newer one.
DeliveryIsLossyFifo == Channel!ChannelSpec

\* An update Telegram will not deliver again was dispatched, and none was dispatched
\* more often than the service started: a command is neither lost between the poll
\* and the handler nor repeated without a crash.
NoCommandLost ==
    \A u \in 1..Len(posted) :
        /\ u <= confirmed /\ Parsed(u) => handled[u] >= 1
        /\ handled[u] <= 1 + crashes
=============================================================================
