---------------------------- MODULE UsageTracker ----------------------------
(* What the LLM calls of the bot cost, ai/usage_tracker.py: each call is      *)
(* stamped with its day, counted under a lock and appended to a file without  *)
(* it. The loop and the handler threads of /ask call at once, the process may *)
(* die between the steps, and the file is read back by the next one.          *)
EXTENDS Integers, FiniteSets, Sums

CONSTANTS
    Callers,        \* the loop and the handlers
    CallTypes,      \* call_type: what a call was for
    LastDate,       \* bound: days
    MaxCalls,       \* bound: calls
    MaxBadWrites    \* bound: appends that fail

ASSUME UsageAssumption ==
    /\ IsFiniteSet(Callers) /\ IsFiniteSet(CallTypes)
    /\ LastDate \in Nat /\ MaxCalls \in Nat /\ MaxBadWrites \in Nat

VARIABLES
    date,           \* the UTC day
    call,           \* call[c]: how far record() has come, the day of its stamp, its type
    byDay,          \* _by_day, as numbers of calls
    byType,         \* _by_call_type_today
    todayIso,       \* _today_iso
    readable,       \* the entries of the file that parse
    torn,           \* the file ends in half a line
    calls,          \* history: calls that were counted, by the day of their stamp
    badWrites,      \* history: appends that failed
    excused,        \* history: calls whose entry a crash or a failed write took
    unread,         \* history: entries of the file this process could not read
    late            \* history: in this process a call was counted after one of a later day

usageVars == <<date, call, byDay, byType, todayIso, readable, torn, calls, badWrites,
               excused, unread, late>>

Dates == 0..LastDate
NoCall == [at |-> "idle", day |-> 0, type |-> "none"]
Total(f) == SumOver(f, DOMAIN f)

UsageTypeOK ==
    /\ date \in Dates /\ todayIso \in 0..date
    /\ call \in [Callers -> {NoCall} \cup
            [at : {"stamped", "counted"}, day : 0..date, type : CallTypes]]
    /\ byDay \in [Dates -> Nat] /\ byType \in [CallTypes -> Nat]
    /\ readable \in [Dates -> [CallTypes -> Nat]] /\ torn \in BOOLEAN
    /\ calls \in [Dates -> Nat] /\ excused \in Nat /\ unread \in Nat /\ late \in BOOLEAN
    /\ badWrites \in 0..MaxBadWrites

NoneByType == [t \in CallTypes |-> 0]

UsageInit ==
    /\ date = 0 /\ todayIso = 0
    /\ call = [c \in Callers |-> NoCall]
    /\ byDay = [d \in Dates |-> 0] /\ byType = NoneByType /\ calls = byDay
    /\ readable = [d \in Dates |-> NoneByType]
    /\ torn = FALSE /\ badWrites = 0 /\ excused = 0 /\ unread = 0 /\ late = FALSE

InRecord == {c \in Callers : call[c].at # "idle"}

\* chat_json gets an answer that used tokens and calls record(), which takes the time.
StampCall(c, type) ==
    /\ call[c].at = "idle" /\ Total(calls) + Cardinality(InRecord) < MaxCalls
    /\ call' = [call EXCEPT ![c] = [at |-> "stamped", day |-> date, type |-> type]]
    /\ UNCHANGED <<date, byDay, byType, todayIso, readable, torn, calls, badWrites,
                   excused, unread, late>>

\* Mutant: the types of yesterday are kept.
TypesOfKept(day) == byType

\* Another day than the last one counted, be it later or earlier: the types start anew.
TypesOf(day) == IF day = todayIso THEN byType ELSE NoneByType

CountCall(c) ==
    /\ call[c].at = "stamped"
    /\ LET day == call[c].day IN
        /\ todayIso' = day
        /\ byType' = [TypesOf(day) EXCEPT ![call[c].type] = @ + 1]
        /\ byDay' = [byDay EXCEPT ![day] = @ + 1]
        /\ calls' = [calls EXCEPT ![day] = @ + 1]
        /\ late' = (late \/ day < todayIso)
    /\ call' = [call EXCEPT ![c].at = "counted"]
    /\ UNCHANGED <<date, readable, torn, badWrites, excused, unread>>

\* A line that is written after half a line becomes part of it; both are skipped.
Appended(c) ==
    /\ torn' = FALSE
    /\ IF torn THEN UNCHANGED readable /\ excused' = excused + 1
       ELSE /\ readable' = [readable EXCEPT ![call[c].day][call[c].type] = @ + 1]
            /\ UNCHANGED excused

\* A write that fails is only logged. It may have put half a line into the file.
AppendFails ==
    /\ badWrites < MaxBadWrites /\ badWrites' = badWrites + 1
    /\ torn' \in {torn, TRUE}
    /\ excused' = excused + 1
    /\ UNCHANGED readable

AppendCall(c) ==
    /\ call[c].at = "counted"
    /\ (Appended(c) /\ UNCHANGED badWrites) \/ AppendFails
    /\ call' = [call EXCEPT ![c] = NoCall]
    /\ UNCHANGED <<date, byDay, byType, todayIso, calls, unread, late>>

\* What the file holds of a day, and of all days.
Lines(d) == Total(readable[d])
AllLines == SumOver([d \in Dates |-> Lines(d)], Dates)

\* Calls that were counted and whose line is still to be written.
Unwritten == {c \in Callers : call[c].at = "counted"}

\* _restore, in a new process: the days from every line, the types from those of today;
\* or nothing, when the file cannot be read, which is only logged. A call that was not
\* counted yet was never anybody's.
RestartUsage(reads) ==
    /\ byDay' = [d \in Dates |-> IF reads THEN Lines(d) ELSE 0]
    /\ todayIso' = date /\ byType' = IF reads THEN readable[date] ELSE NoneByType
    /\ unread' = IF reads THEN 0 ELSE AllLines
    /\ call' = [c \in Callers |-> NoCall]
    /\ excused' = excused + Cardinality(Unwritten)
    /\ torn' \in IF Unwritten # {} THEN {torn, TRUE} ELSE {torn}
    /\ late' = FALSE
    /\ UNCHANGED <<date, readable, calls, badWrites>>

DateTurns ==
    /\ date < LastDate /\ date' = date + 1
    /\ UNCHANGED <<call, byDay, byType, todayIso, readable, torn, calls, badWrites,
                   excused, unread, late>>

UsageNext ==
    \/ \E c \in Callers, type \in CallTypes : StampCall(c, type)
    \/ \E c \in Callers : CountCall(c) \/ AppendCall(c)
    \/ \E reads \in BOOLEAN : RestartUsage(reads)
    \/ DateTurns

UsageSpec == UsageInit /\ [][UsageNext]_usageVars

\* The bill survives: no call is counted twice, however often the file is read back.
\* None is missing from the file but those that were in flight at a crash or whose line
\* was torn, nor from the totals but those and what this process could not read, so that
\* the next good read has them all. Of the last day that was counted the types add up to
\* the day, unless a call that was stamped before midnight was counted after one of the
\* new day.
UsageSurvives ==
    /\ \A d \in Dates : byDay[d] <= calls[d]
    /\ Total(calls) <= AllLines + Cardinality(Unwritten) + excused
    /\ Total(calls) <= Total(byDay) + excused + unread
    /\ ~late => Total(byType) = byDay[todayIso]
=============================================================================
