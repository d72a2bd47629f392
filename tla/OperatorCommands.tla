-------------------------- MODULE OperatorCommands --------------------------
(***************************************************************************)
(* What becomes of an operator's command: the Telegram service dispatches  *)
(* one at a time and waits timeout_seconds for the bot's answer; in the    *)
(* bot a handler thread of its own waits for the controller's lock, which  *)
(* a cycle may hold for minutes, changes the setting, saves it, answers.   *)
(*                                                                         *)
(* Settings are what a command can leave behind: the paused flag, a        *)
(* directive, a guardrail. The first two are in the state file, which      *)
(* every save writes whole; a guardrail is a row of the config store.      *)
(***************************************************************************)
EXTENDS Naturals, Sequences

CONSTANTS
    SettingValues,  \* of each setting; the first one is among them
    FirstValue,
    Commands,       \* [setting, choice, panics]
    MaxCommands,    \* bound: commands, those delivered again included
    MaxBadSaves     \* bound: saves that fail

OperatorSettings == {"paused", "directive", "guardrail"}
InStateFile == {"paused", "directive"}

ASSUME CommandsAssumption ==
    /\ FirstValue \in SettingValues
    /\ Commands \subseteq [setting : OperatorSettings, choice : SettingValues, panics : BOOLEAN]
    /\ MaxCommands \in Nat /\ MaxBadSaves \in Nat

VARIABLES
    cycling,    \* the loop holds the controller's lock
    saving,     \* the loop saves what its cycle left, the lock given back
    draft,      \* of that save: the settings read so far
    holder,     \* the request whose thread holds it, 0 for none
    asked,      \* the requests in their order: [cmd, at]
    awaited,    \* the request the service waits for, 0 for none
    live,       \* by setting: its choice, and by : the request that made it
    stored,     \* the same, on disk
    answered,   \* by setting: the last request the operator saw succeed
    doubtful,   \* requests the operator saw fail, or not answered
    badSaves,   \* history: saves that failed
    overtaken,  \* history: requests whose setting the running save had read before
    unstored    \* history: requests whose own save failed, or was written over by a save
                \* that had read their setting before

saveVars == <<saving, draft, overtaken>>
commandVars == <<cycling, saveVars, holder, asked, awaited, live, stored, answered, doubtful,
                 badSaves, unstored>>

Numbers == 1..Len(asked)
Stages == {"sent", "holding", "checked", "applied", "done"}
Made == [choice : SettingValues, by : 0..MaxCommands]

DraftTypeOK ==
    /\ saving \in BOOLEAN /\ (saving => ~cycling)
    /\ DOMAIN draft \subseteq InStateFile /\ draft \in [DOMAIN draft -> Made]
    /\ \A s \in DOMAIN draft : draft[s].by \in {0} \cup Numbers
    /\ overtaken \subseteq Numbers
    /\ ~saving => DOMAIN draft = {} /\ overtaken = {}

CommandsTypeOK ==
    /\ asked \in Seq([cmd : Commands, at : Stages]) /\ Len(asked) <= MaxCommands
    /\ cycling \in BOOLEAN /\ holder \in {0} \cup {n \in Numbers : asked[n].at = "holding"}
    /\ cycling => holder = 0
    /\ awaited \in {0} \cup Numbers
    /\ live \in [OperatorSettings -> Made] /\ stored \in [OperatorSettings -> Made]
    /\ \A s \in OperatorSettings : {live[s].by, stored[s].by} \subseteq {0} \cup Numbers
    /\ DraftTypeOK
    /\ answered \in [OperatorSettings -> {0} \cup Numbers]
    /\ doubtful \subseteq Numbers /\ unstored \subseteq Numbers
    /\ badSaves \in 0..MaxBadSaves

CommandsInit ==
    /\ cycling = FALSE /\ holder = 0 /\ asked = <<>> /\ awaited = 0
    /\ live = [s \in OperatorSettings |-> [choice |-> FirstValue, by |-> 0]]
    /\ stored = live
    /\ answered = [s \in OperatorSettings |-> 0]
    /\ doubtful = {} /\ badSaves = 0 /\ unstored = {}
    /\ saving = FALSE /\ draft = <<>> /\ overtaken = {}

-----------------------------------------------------------------------------
(* The Telegram service.                                                      *)

\* dispatch: one command at a time. Commands that only read, /ask and the texts that are
\* no command leave nothing behind.
Dispatch(cmd) ==
    /\ awaited = 0 /\ Len(asked) < MaxCommands
    /\ asked' = Append(asked, [cmd |-> cmd, at |-> "sent"])
    /\ awaited' = Len(asked) + 1
    /\ UNCHANGED <<cycling, saveVars, holder, live, stored, answered, doubtful, badSaves, unstored>>

\* ControlAPIError: no answer within timeout_seconds, a connection that broke, a service
\* that went away. The request stays with the bot. (A request that never reached it is
\* one that stays "sent".)
GiveUp ==
    /\ awaited # 0
    /\ doubtful' = doubtful \cup {awaited} /\ awaited' = 0
    /\ UNCHANGED <<cycling, saveVars, holder, asked, live, stored, answered, badSaves, unstored>>

-----------------------------------------------------------------------------
(* The handlers of the bot.                                                   *)

Free == ~cycling /\ holder = 0

Change(n) ==
    /\ live' = [live EXCEPT ![asked[n].cmd.setting] =
                    [choice |-> asked[n].cmd.choice, by |-> n]]
    /\ overtaken' = IF asked[n].cmd.setting \in DOMAIN draft THEN overtaken \cup {n} ELSE overtaken
    /\ UNCHANGED <<saving, draft>>

\* The request gets its answer, if somebody still waits for it.
Succeeds(n) ==
    /\ asked' = [asked EXCEPT ![n].at = "done"]
    /\ IF awaited = n
       THEN awaited' = 0 /\ answered' = [answered EXCEPT ![asked[n].cmd.setting] = n]
       ELSE UNCHANGED <<awaited, answered>>

\* 400 or 500: the operator reads an error.
Fails(n) ==
    /\ asked' = [asked EXCEPT ![n].at = "done"]
    /\ doubtful' = doubtful \cup {n}
    /\ awaited' = IF awaited = n THEN 0 ELSE awaited

StateSaved == [s \in OperatorSettings |-> IF s \in InStateFile THEN live[s] ELSE stored[s]]

\* persist_state or ConfigStore.set_field; what goes wrong is logged and the request
\* succeeds.
Store(n) ==
    \/ /\ stored' = IF asked[n].cmd.setting \in InStateFile THEN StateSaved
                    ELSE [stored EXCEPT !["guardrail"] = live["guardrail"]]
       /\ UNCHANGED <<badSaves, unstored>>
    \/ /\ badSaves < MaxBadSaves /\ badSaves' = badSaves + 1
       /\ unstored' = unstored \cup {n}
       /\ UNCHANGED stored

Refuse(n) ==
    /\ asked[n].at \in {"sent", "checked"}
    /\ Fails(n)
    /\ UNCHANGED <<cycling, saveVars, holder, live, stored, answered, badSaves, unstored>>

\* pause, resume, panic, apply_guardrails_change: the change is made under the lock, by
\* whichever thread gets it first.
TakeLock(n) ==
    /\ asked[n].at = "sent" /\ asked[n].cmd.setting # "directive" /\ Free
    /\ holder' = n /\ asked' = [asked EXCEPT ![n].at = "holding"]
    /\ Change(n)
    /\ UNCHANGED <<cycling, awaited, stored, answered, doubtful, badSaves, unstored>>

Release(n) ==
    /\ holder = n /\ holder' = 0
    /\ Store(n) /\ Succeeds(n)
    /\ UNCHANGED <<cycling, saveVars, live, doubtful>>

\* The portfolio cannot be read: the bot is paused, nothing was saved or closed.
PanicFails(n) ==
    /\ holder = n /\ asked[n].cmd.panics
    /\ holder' = 0 /\ Fails(n)
    /\ UNCHANGED <<cycling, saveVars, live, stored, answered, badSaves, unstored>>

\* Mutant: the answer does not wait for the lock and the save.
ChangeDirectiveAnswered(n) ==
    /\ asked[n].at = "checked" /\ Change(n) /\ Succeeds(n)
    /\ UNCHANGED <<cycling, holder, stored, doubtful, badSaves, unstored>>

\* set_directive, clear_directive and the notes: the lock is passed twice, the change is
\* made in between under the store's own.
CheckDirective(n) ==
    /\ asked[n].at = "sent" /\ asked[n].cmd.setting = "directive" /\ Free
    /\ asked' = [asked EXCEPT ![n].at = "checked"]
    /\ UNCHANGED <<cycling, saveVars, holder, awaited, live, stored, answered, doubtful,
                   badSaves, unstored>>

ChangeDirective(n) ==
    /\ asked[n].at = "checked" /\ Change(n)
    /\ asked' = [asked EXCEPT ![n].at = "applied"]
    /\ UNCHANGED <<cycling, holder, awaited, stored, answered, doubtful, badSaves, unstored>>

SaveDirective(n) ==
    /\ asked[n].at = "applied" /\ Free
    /\ Store(n) /\ Succeeds(n)
    /\ UNCHANGED <<cycling, saveVars, holder, live, doubtful>>

-----------------------------------------------------------------------------
(* The loop and the process.                                                  *)

StartCycle ==
    /\ Free /\ ~saving /\ cycling' = TRUE
    /\ UNCHANGED <<saveVars, holder, asked, awaited, live, stored, answered, doubtful, badSaves,
                   unstored>>

\* The lock is given back before persist_state begins, so a request that waited may come
\* in between. After a cycle that raised nothing is saved.
EndCycle ==
    /\ cycling /\ cycling' = FALSE
    /\ saving' \in BOOLEAN
    /\ UNCHANGED <<draft, overtaken, holder, asked, awaited, live, stored, answered, doubtful,
                   badSaves, unstored>>

\* persist_state reads the directives before the paused flag.
Draft(s) ==
    /\ saving /\ s \notin DOMAIN draft
    /\ s = "paused" => "directive" \in DOMAIN draft
    /\ draft' = [t \in DOMAIN draft \cup {s} |-> IF t = s THEN live[s] ELSE draft[t]]
    /\ UNCHANGED <<cycling, saving, overtaken, holder, asked, awaited, live, stored, answered,
                   doubtful, badSaves, unstored>>

\* What was read is written over what the requests have stored since, or the save fails.
\* (Two saves that meet inside the .tmp file are ControlLoop's.)
WriteDraft ==
    /\ saving /\ DOMAIN draft = InStateFile
    /\ \/ /\ stored' = [s \in OperatorSettings |->
                          IF s \in InStateFile THEN draft[s] ELSE stored[s]]
          /\ unstored' = unstored \cup {n \in overtaken : asked[n].at = "done"}
       \/ UNCHANGED <<stored, unstored>>
    /\ saving' = FALSE /\ draft' = <<>> /\ overtaken' = {}
    /\ UNCHANGED <<cycling, holder, asked, awaited, live, answered, doubtful, badSaves>>

\* The bot dies and starts again: what was at the bot is gone, and no answer comes.
BotDies ==
    /\ cycling' = FALSE /\ saving' = FALSE /\ draft' = <<>> /\ overtaken' = {}
    /\ holder' = 0 /\ live' = stored /\ awaited' = 0
    /\ asked' = [n \in Numbers |-> [asked[n] EXCEPT !.at = "done"]]
    /\ doubtful' = doubtful \cup {n \in Numbers : asked[n].at # "done"}
    /\ UNCHANGED <<stored, answered, badSaves, unstored>>

CommandsNext ==
    \/ \E cmd \in Commands : Dispatch(cmd)
    \/ GiveUp
    \/ \E n \in Numbers :
          \/ Refuse(n) \/ TakeLock(n) \/ Release(n) \/ PanicFails(n)
          \/ CheckDirective(n) \/ ChangeDirective(n) \/ SaveDirective(n)
    \/ StartCycle \/ EndCycle \/ (\E s \in InStateFile : Draft(s)) \/ WriteDraft
    \/ BotDies

CommandsSpec == CommandsInit /\ [][CommandsNext]_commandVars

\* A command the operator saw succeed stands, also after a restart of the bot: what a
\* setting has now was made by it, by a command after it, or by one of which the operator
\* knows that it may have failed. It may be lost by a restart when its own save failed, or
\* when the save of a cycle, which begins after the lock is given back, had read the
\* setting before the command changed it and was written after. (BotController's operations
\* behind dispatch; a timed-out command may well act later than the one after it.)
ConfirmedStands ==
    \A s \in OperatorSettings :
        \/ live[s].by >= answered[s]
        \/ live[s].by \in doubtful
        \/ answered[s] \in unstored
=============================================================================
