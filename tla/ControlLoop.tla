----------------------------- MODULE ControlLoop -----------------------------
(***************************************************************************)
(* The main loop of src/main.py against the operator requests that HTTP    *)
(* threads run through src/control/controller.py: pause, resume, panic,    *)
(* directives, shutdown. The loop holds the controller's lock during a     *)
(* cycle and saves without it; a handler holds it while it acts and saves. *)
(* What a cycle does to the portfolio is OrderLifecycle's subject: here it *)
(* changes the state to be saved or leaves it.                             *)
(***************************************************************************)
EXTENDS StateFile

CONSTANTS
    Loop,         \* the main thread
    Handlers,     \* HTTP threads
    MaxRev,       \* bound: changes of the state worth saving
    MaxRequests,  \* bound: operator requests in one behaviour
    MaxRestarts,  \* bound: process deaths in one behaviour
    Regimes       \* sets of faults, one of which holds for a whole behaviour

LoopFaults == {"raise", "fetch", "io", "crash"}

ASSUME ThreadsAssumption ==
    Loop \notin Handlers /\ Savers = {Loop} \cup Handlers /\ Absent \notin Savers
ASSUME LoopBoundsAssumption ==
    MaxRev \in Nat /\ MaxRequests \in Nat /\ MaxRestarts \in Nat
ASSUME RegimesAssumption == Regimes \subseteq SUBSET LoopFaults

Requests == {"pause", "resume", "panic", "directive", "unhalt"}
Payloads == [paused : BOOLEAN, rev : 0..MaxRev]

ASSUME PayloadsAssumption == Payloads \cap {Absent, Empty, Torn} = {}

VARIABLES
    faults,     \* what can go wrong in this behaviour
    pc,         \* of the loop: check, acquire, cycle, save, final, exited
    hpc,        \* of each handler: idle, acquire, act, save
    request,    \* what each handler is to do
    lock,       \* the controller's lock
    paused,     \* controller._paused
    rev,        \* revision of everything else that is saved
    stopping,   \* _stop, _stop_event or _stop_requested
    requests, restarts,  \* counts for the bounds
    late,       \* history: cycles started since the flag was set
    acked       \* history: the flag as last acknowledged to the operator

control == <<pc, hpc, request, lock>>
counts == <<requests, restarts>>
vars == <<faults, fileVars, control, paused, rev, stopping, counts, late, acked>>

TypeOK ==
    /\ faults \in Regimes
    /\ FileTypeOK(Payloads)
    /\ pc \in {"check", "acquire", "cycle", "save", "final", "exited"}
    /\ hpc \in [Handlers -> {"idle", "acquire", "act", "save"}]
    /\ request \in [Handlers -> Requests \cup {"none"}]
    /\ lock \in Savers \cup {Absent}
    /\ paused \in BOOLEAN /\ stopping \in BOOLEAN
    /\ rev \in 0..MaxRev
    /\ requests \in 0..MaxRequests /\ restarts \in 0..MaxRestarts
    /\ late \in Nat /\ acked \in {"paused", "running", "unknown"}

\* A first start, without a state file.
Init ==
    /\ faults \in Regimes
    /\ FileInit
    /\ pc = "check" /\ lock = Absent
    /\ hpc = [h \in Handlers |-> "idle"]
    /\ request = [h \in Handlers |-> "none"]
    /\ paused = FALSE /\ rev = 0 /\ stopping = FALSE
    /\ requests = 0 /\ restarts = 0
    /\ late = 0 /\ acked = "unknown"

-----------------------------------------------------------------------------
(* The loop. *)

\* Mutants: the paused flag is not tested; it is tested before the stop flags.
CheckUnpaused ==
    /\ pc = "check"
    /\ IF stopping
       THEN pc' = "final" /\ BeginSave(Loop)
       ELSE pc' = "acquire" /\ UNCHANGED fileVars
    /\ UNCHANGED <<faults, hpc, request, lock, paused, rev, stopping, counts, late, acked>>

CheckPausedFirst ==
    /\ pc = "check" /\ ~paused
    /\ IF stopping
       THEN pc' = "final" /\ BeginSave(Loop)
       ELSE pc' = "acquire" /\ UNCHANGED fileVars
    /\ UNCHANGED <<faults, hpc, request, lock, paused, rev, stopping, counts, late, acked>>

\* The loop's condition and its test of the paused flag, made without the lock.
Check ==
    /\ pc = "check"
    /\ IF stopping
       THEN pc' = "final" /\ BeginSave(Loop)
       ELSE ~paused /\ pc' = "acquire" /\ UNCHANGED fileVars
    /\ UNCHANGED <<faults, hpc, request, lock, paused, rev, stopping, counts, late, acked>>

\* The saved state changes or stays.
NextRev == IF rev < MaxRev THEN rev + 1 ELSE rev
CycleRevs == {rev, NextRev}

StartCycle ==
    /\ pc = "acquire" /\ lock = Absent
    /\ lock' = Loop
    /\ pc' = "cycle"
    /\ late' = IF paused THEN late + 1 ELSE late
    /\ UNCHANGED <<faults, fileVars, hpc, request, paused, rev, stopping, counts, acked>>

\* Mutants: the state is not saved after a cycle, or only if it changed.
EndCycleUnsaved ==
    /\ pc = "cycle"
    /\ lock' = Absent
    /\ rev' \in CycleRevs
    /\ pc' = "check"
    /\ UNCHANGED <<faults, fileVars, hpc, request, paused, stopping, counts, late, acked>>

EndCycleIfChanged ==
    /\ pc = "cycle"
    /\ lock' = Absent
    /\ rev' \in CycleRevs
    /\ IF rev' = rev
       THEN pc' = "check" /\ UNCHANGED fileVars
       ELSE pc' = "save" /\ BeginSave(Loop)
    /\ UNCHANGED <<faults, hpc, request, paused, stopping, counts, late, acked>>

\* run_one returns, aborted or not, and releases the lock.
EndCycle ==
    /\ pc = "cycle"
    /\ lock' = Absent
    /\ rev' \in CycleRevs
    /\ pc' = "save"
    /\ BeginSave(Loop)
    /\ UNCHANGED <<faults, hpc, request, paused, stopping, counts, late, acked>>

\* Mutant: the lock is not released on the way out.
CycleRaisesLocked ==
    /\ "raise" \in faults
    /\ pc = "cycle"
    /\ rev' \in CycleRevs
    /\ pc' = "check"
    /\ UNCHANGED <<faults, fileVars, lock, hpc, request, paused, stopping, counts, late, acked>>

\* It raises: the save is skipped, the changes made so far stay in memory.
CycleRaises ==
    /\ "raise" \in faults
    /\ pc = "cycle"
    /\ lock' = Absent
    /\ rev' \in CycleRevs
    /\ pc' = "check"
    /\ UNCHANGED <<faults, fileVars, hpc, request, paused, stopping, counts, late, acked>>

LoopSaved ==
    /\ pc \in {"save", "final"} /\ step[Loop] = "none"
    /\ pc' = IF pc = "save" THEN "check" ELSE "exited"
    /\ UNCHANGED <<faults, fileVars, hpc, request, lock, paused, rev, stopping, counts, late, acked>>

-----------------------------------------------------------------------------
(* persist_state, by whichever thread entered it. *)

\* Mutant: a counter is written one ahead of memory.
PayloadAhead == [paused |-> paused, rev |-> rev + 1]
Payload == [paused |-> paused, rev |-> rev]

Build(p) ==
    /\ BuildPayload(p, Payload)
    /\ UNCHANGED <<faults, control, paused, rev, stopping, counts, late, acked>>

Write(p) ==
    /\ SaveStep(p) \/ ("io" \in faults /\ SaveFails(p))
    /\ UNCHANGED <<faults, control, paused, rev, stopping, counts, late, acked>>

\* Copying the state iterates over a dictionary that a panic, in another
\* thread, may be changing: the error is logged and nothing is written.
PanicActing(p) == \E h \in Handlers \ {p} : hpc[h] = "act" /\ request[h] = "panic"
BuildRaises(p) ==
    /\ step[p] = "build" /\ PanicActing(p)
    /\ EndSave(p, FALSE)
    /\ UNCHANGED <<faults, fd, disk, control, paused, rev, stopping, counts, late, acked>>

-----------------------------------------------------------------------------
(* Operator requests. *)

\* A request reaches a thread. A directive changes its store before it asks
\* for the lock.
Receive(h, r) ==
    /\ pc # "exited" /\ hpc[h] = "idle" /\ requests < MaxRequests
    /\ hpc' = [hpc EXCEPT ![h] = "acquire"]
    /\ request' = [request EXCEPT ![h] = r]
    /\ requests' = requests + 1
    /\ rev' = IF r = "directive" THEN NextRev ELSE rev
    /\ UNCHANGED <<faults, fileVars, pc, lock, paused, stopping, restarts, late, acked>>

\* /shutdown and the first signal take no lock.
RequestStop ==
    /\ ~stopping
    /\ stopping' = TRUE
    /\ UNCHANGED <<faults, fileVars, control, paused, rev, counts, late, acked>>

FlagAfter(r) == (r \in {"pause", "panic"}) \/ (paused /\ r # "resume")

\* Mutant: the flag is set and not saved.
AcquireUnsaved(h) ==
    /\ hpc[h] = "acquire" /\ lock = Absent
    /\ lock' = h
    /\ paused' = FlagAfter(request[h])
    /\ late' = IF paused /\ paused' THEN late ELSE 0
    /\ acked' = IF paused' = paused THEN acked ELSE "unknown"
    /\ rev' = IF request[h] = "unhalt" THEN NextRev ELSE rev
    /\ hpc' = [hpc EXCEPT ![h] = IF request[h] = "panic" THEN "act" ELSE "save"]
    /\ UNCHANGED <<faults, fileVars, pc, request, stopping, counts>>

\* The handler has the lock and sets the flag; /unhalt clears the halt. /panic
\* goes on to close positions, the others save at once.
Acquire(h) ==
    /\ hpc[h] = "acquire" /\ lock = Absent
    /\ lock' = h
    /\ paused' = FlagAfter(request[h])
    /\ late' = IF paused /\ paused' THEN late ELSE 0
    /\ acked' = IF paused' = paused THEN acked ELSE "unknown"
    /\ rev' = IF request[h] = "unhalt" THEN NextRev ELSE rev
    /\ IF request[h] = "panic"
       THEN hpc' = [hpc EXCEPT ![h] = "act"] /\ UNCHANGED fileVars
       ELSE hpc' = [hpc EXCEPT ![h] = "save"] /\ BeginSave(h)
    /\ UNCHANGED <<faults, pc, request, stopping, counts>>

\* All closes of /panic are sent, or there was none to send.
PanicClosed(h) ==
    /\ hpc[h] = "act"
    /\ rev' \in CycleRevs
    /\ hpc' = [hpc EXCEPT ![h] = "save"]
    /\ BeginSave(h)
    /\ UNCHANGED <<faults, pc, request, lock, paused, stopping, counts, late, acked>>

\* The portfolio cannot be read: the handler gives up with the flag set.
PanicFails(h) ==
    /\ "fetch" \in faults
    /\ hpc[h] = "act"
    /\ lock' = Absent
    /\ hpc' = [hpc EXCEPT ![h] = "idle"]
    /\ request' = [request EXCEPT ![h] = "none"]
    /\ UNCHANGED <<faults, fileVars, pc, paused, rev, stopping, counts, late, acked>>

\* The handler answers the operator.
Answer(h) ==
    /\ hpc[h] = "save" /\ step[h] = "none"
    /\ lock' = Absent
    /\ hpc' = [hpc EXCEPT ![h] = "idle"]
    /\ request' = [request EXCEPT ![h] = "none"]
    /\ acked' = IF request[h] \in {"pause", "resume", "panic"}
                THEN (IF paused THEN "paused" ELSE "running") ELSE acked
    /\ UNCHANGED <<faults, fileVars, pc, paused, rev, stopping, counts, late>>

-----------------------------------------------------------------------------
\* The process dies or, after a clean exit, is started again: a second signal,
\* a kill, a redeployment. The next one loads the file, and starts afresh from
\* one it cannot read.
Restart ==
    /\ "crash" \in faults \/ pc = "exited"
    /\ restarts < MaxRestarts
    /\ restarts' = restarts + 1
    /\ FileCrash
    /\ pc' = "check" /\ lock' = Absent /\ stopping' = FALSE
    /\ hpc' = [h \in Handlers |-> "idle"]
    /\ request' = [h \in Handlers |-> "none"]
    /\ IF IsWhole(file)
       THEN paused' = file.paused /\ rev' = file.rev
       ELSE paused' = FALSE /\ rev' = 0
    /\ late' = 0
    /\ acked' = IF clashed THEN "unknown" ELSE acked
    /\ UNCHANGED <<faults, requests>>

LoopStep == Check \/ StartCycle \/ EndCycle \/ LoopSaved \/ Build(Loop) \/ Write(Loop)
HandlerStep(h) ==
    Acquire(h) \/ PanicClosed(h) \/ PanicFails(h) \/ Build(h) \/ Write(h) \/ Answer(h)

Next ==
    \/ LoopStep \/ CycleRaises \/ RequestStop \/ Restart
    \/ \E h \in Handlers : HandlerStep(h) \/ \E r \in Requests : Receive(h, r)
    \/ \E p \in Savers : BuildRaises(p)

Spec == Init /\ [][Next]_vars

\* Each thread goes on as long as the process lives: calls to the broker time
\* out. A handler that waits for the lock gets it in the end, because the loop
\* sleeps at least a second without it between two cycles (main.py, run).
\* Nothing forces an operator to ask, a fault to happen or a process to die.
FairSpec ==
    /\ Spec
    /\ WF_vars(LoopStep \/ CycleRaises)
    /\ \A h \in Handlers : WF_vars(HandlerStep(h)) /\ SF_vars(Acquire(h))

-----------------------------------------------------------------------------
(* Properties. *)

\* After the pause flag is set, at most the one cycle that had passed the test
\* still starts, whatever requests and faults come between (main.py, run).
AtMostOneLateCycle == late <= 1

\* The state file is a complete document unless saves overlapped and none has
\* run alone since: the temporary file and the rename protect it against a
\* crash or an I/O error at any point (persistence.py, save).
FileIsWhole == ~clashed /\ file # Absent => IsWhole(file)

\* What the operator was last told of the pause flag stays true, across
\* crashes and restarts too, as long as writing does not fail and no crash
\* follows overlapping saves (controller.py, pause, resume, panic_close_all).
AckedFlagHolds ==
    "io" \notin faults /\ acked # "unknown" => paused = (acked = "paused")

\* Between two cycles, with no request under way, the file holds what memory
\* holds: neither a cycle nor a request forgets to save, and no save writes
\* an older state over a newer one unless saves overlap.
Quiescent ==
    pc = "check" /\ Saving = {} /\ \A h \in Handlers : hpc[h] = "idle"
QuiescentIsSaved ==
    faults \subseteq {"crash"} /\ Quiescent /\ ~clashed /\ file # Absent
        => file = Payload

\* Every request is answered, or the process ends: no handler waits for the
\* lock for ever, not even behind a cycle that raised.
RequestsEnd == \A h \in Handlers : hpc[h] # "idle" ~> hpc[h] = "idle"

\* A stop that was asked for is obeyed, by a paused loop too.
StopIsObeyed == stopping ~> pc = "exited" \/ ~stopping

\* A file torn by overlapping saves is replaced by a whole one while the bot
\* goes on trading without errors: every cycle saves, also one that changed
\* nothing (main.py, run).
TornFileHeals ==
    file \in {Empty, Torn}
        ~> IsWhole(file) \/ paused \/ stopping \/ faults \cap {"io", "raise"} # {}

-----------------------------------------------------------------------------
(* Promises of the repository that the code does not keep. *)

\* "Pauses the loop first" (controller.py, panic_close_all).
PausedStartsNoCycle == late = 0

\* "a crash mid-write leaves the previous good file intact" (persistence.py).
FileIsAlwaysWhole == file # Absent => IsWhole(file)
=============================================================================
