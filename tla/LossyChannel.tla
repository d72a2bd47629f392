---------------------------- MODULE LossyChannel ----------------------------
(* What the alert path promises a chat: of the alerts emitted, numbered in    *)
(* order, the chat sees some, none twice and none out of order. Any alert may *)
(* get lost before it is seen; an alert that overtook another, or came twice, *)
(* would tell the operator of a state the bot is no longer in.                *)
EXTENDS Naturals, Sequences

CONSTANT Chats

VARIABLES
    n,          \* alerts emitted so far
    pending,    \* pending[c]: the alerts on their way to the chat
    seen        \* seen[c]: the alerts the chat got, in the order it got them

channelVars == <<n, pending, seen>>

IsOldest(a, S) == a \in S /\ \A b \in S : a <= b

ChannelInit ==
    /\ n = 0
    /\ pending = [c \in Chats |-> {}]
    /\ seen = [c \in Chats |-> <<>>]

\* An emission reaches the chats that want it; it may push older alerts out.
Emit ==
    /\ n' = n + 1
    /\ pending' \in [Chats -> SUBSET (1..n + 1)]
    /\ \A c \in Chats : pending'[c] \subseteq pending[c] \cup {n + 1}
    /\ UNCHANGED seen

Deliver(c) ==
    \E a \in pending[c] :
        /\ IsOldest(a, pending[c])
        /\ seen' = [seen EXCEPT ![c] = Append(@, a)]
        /\ pending' = [pending EXCEPT ![c] = @ \ {a}]
        /\ UNCHANGED n

Lose ==
    /\ pending' \in [Chats -> SUBSET (1..n)]
    /\ \A c \in Chats : pending'[c] \subseteq pending[c]
    /\ UNCHANGED <<n, seen>>

ChannelNext == Emit \/ Lose \/ \E c \in Chats : Deliver(c)

ChannelSpec == ChannelInit /\ [][ChannelNext]_channelVars
=============================================================================
