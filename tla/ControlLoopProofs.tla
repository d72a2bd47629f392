-------------------------- MODULE ControlLoopProofs --------------------------
(***************************************************************************)
(* Theorems about ControlLoop and the StateFile it saves to, for any set   *)
(* of handler threads, any bounds and any regimes of faults.               *)
(***************************************************************************)
EXTENDS ControlLoop, TLAPS

LEMMA PayloadIsWhole == \A c \in Payloads : IsWhole(c)
BY PayloadsAssumption DEF IsWhole

LEMMA PayloadTyped == TypeOK => Payload \in Payloads
BY DEF TypeOK, Payload, Payloads

LEMMA RevsTyped == TypeOK => NextRev \in 0..MaxRev /\ CycleRevs \subseteq 0..MaxRev
BY LoopBoundsAssumption DEF TypeOK, NextRev, CycleRevs

-----------------------------------------------------------------------------
(* Type correctness: first the steps of a save, then the actions. *)

FileTyped == FileTypeOK(Payloads)

LEMMA BeginSaveTyped ==
    ASSUME FileTyped, NEW p \in Savers, BeginSave(p)
    PROVE  FileTyped'
BY DEF FileTyped, FileTypeOK, BeginSave, disk, Saving

LEMMA SaveStepTyped ==
    ASSUME FileTyped, NEW p \in Savers, SaveStep(p)
    PROVE  FileTyped'
<1>1. CASE OpenTmp(p)
  BY <1>1 DEF FileTyped, FileTypeOK, OpenTmp
<1>2. CASE WriteTmp(p)
  BY <1>2 DEF FileTyped, FileTypeOK, WriteTmp, Written, disk
<1>3. CASE ReplaceFile(p)
  <2>1. \A q \in Savers : Renamed[fd[q]] \in {"none", "tmp", "file", "gone"}
    BY DEF Renamed, FileTyped, FileTypeOK
  <2>2. fd' \in [Savers -> {"none", "tmp", "file", "gone"}]
    BY <1>3, <2>1 DEF ReplaceFile, FileTyped, FileTypeOK
  <2>3. QED
    BY <1>3, <2>2 DEF FileTyped, FileTypeOK, ReplaceFile, EndSave, disk
<1>4. QED
  BY <1>1, <1>2, <1>3 DEF SaveStep

LEMMA SaveFailsTyped ==
    ASSUME FileTyped, NEW p \in Savers, SaveFails(p)
    PROVE  FileTyped'
BY DEF FileTyped, FileTypeOK, SaveFails, EndSave, disk

LEMMA SaveGivesUpTyped ==
    ASSUME FileTyped, NEW p \in Savers, EndSave(p, FALSE), UNCHANGED <<fd, disk>>
    PROVE  FileTyped'
BY DEF FileTyped, FileTypeOK, EndSave, disk

LEMMA BuildTyped ==
    ASSUME FileTyped, NEW p \in Savers, NEW c \in Payloads, BuildPayload(p, c)
    PROVE  FileTyped'
BY DEF FileTyped, FileTypeOK, BuildPayload, disk

\* A step away from the file leaves its types alone.
LEMMA FileStutters == FileTyped /\ UNCHANGED fileVars => FileTyped'
BY DEF FileTyped, FileTypeOK, fileVars, disk

ControlTyped ==
    /\ faults \in Regimes
    /\ pc \in {"check", "acquire", "cycle", "save", "final", "exited"}
    /\ hpc \in [Handlers -> {"idle", "acquire", "act", "save"}]
    /\ request \in [Handlers -> Requests \cup {"none"}]
    /\ lock \in Savers \cup {Absent}
    /\ paused \in BOOLEAN /\ stopping \in BOOLEAN
    /\ rev \in 0..MaxRev
    /\ requests \in 0..MaxRequests /\ restarts \in 0..MaxRestarts
    /\ late \in Nat /\ acked \in {"paused", "running", "unknown"}

\* The type invariant is that of the file and that of the control loop.
LEMMA TypeParts == TypeOK <=> FileTyped /\ ControlTyped
BY DEF TypeOK, FileTyped, ControlTyped

LEMMA TypePartsNext == FileTyped' /\ ControlTyped' => TypeOK'
BY DEF TypeOK, FileTyped, ControlTyped

LEMMA TypeInit == Init => TypeOK
<1> SUFFICES ASSUME Init PROVE TypeOK
  OBVIOUS
<1>1. FileTyped
  BY DEF Init, FileInit, FileTyped, FileTypeOK
<1>2. 0 \in 0..MaxRev /\ 0 \in 0..MaxRequests /\ 0 \in 0..MaxRestarts
  BY LoopBoundsAssumption
<1>3. ControlTyped
  BY <1>2 DEF Init, ControlTyped
<1>4. QED
  BY <1>1, <1>3, TypeParts

LEMMA LoopTyped ==
    ASSUME TypeOK, LoopStep \/ CycleRaises \/ RequestStop
    PROVE  TypeOK'
<1> USE TypeParts, TypePartsNext, ThreadsAssumption DEF control, counts
<1>1. CASE Check
  <2>1. FileTyped'
    BY <1>1, BeginSaveTyped, FileStutters DEF Check
  <2>2. QED
    BY <1>1, <2>1 DEF Check, ControlTyped
<1>2. CASE StartCycle
  BY <1>2, FileStutters DEF StartCycle, ControlTyped
<1>3. CASE EndCycle
  BY <1>3, BeginSaveTyped, RevsTyped DEF EndCycle, ControlTyped
<1>4. CASE LoopSaved
  BY <1>4, FileStutters DEF LoopSaved, ControlTyped
<1>5. CASE Build(Loop)
  BY <1>5, BuildTyped, PayloadTyped DEF Build, ControlTyped
<1>6. CASE Write(Loop)
  <2>1. FileTyped'
    BY <1>6, SaveStepTyped, SaveFailsTyped DEF Write
  <2>2. QED
    BY <1>6, <2>1 DEF Write, ControlTyped
<1>7. CASE CycleRaises
  BY <1>7, FileStutters, RevsTyped DEF CycleRaises, ControlTyped
<1>8. CASE RequestStop
  BY <1>8, FileStutters DEF RequestStop, ControlTyped
<1>9. QED
  BY <1>1, <1>2, <1>3, <1>4, <1>5, <1>6, <1>7, <1>8 DEF LoopStep

LEMMA HandlerTyped ==
    ASSUME TypeOK, NEW h \in Handlers,
           HandlerStep(h) \/ \E r \in Requests : Receive(h, r)
    PROVE  TypeOK'
<1> USE TypeParts, TypePartsNext, ThreadsAssumption DEF control, counts
<1>1. CASE Acquire(h)
  <2>1. FileTyped'
    BY <1>1, BeginSaveTyped, FileStutters DEF Acquire
  <2>2. QED
    BY <1>1, <2>1, RevsTyped DEF Acquire, ControlTyped, FlagAfter
<1>2. CASE PanicClosed(h)
  BY <1>2, BeginSaveTyped, RevsTyped DEF PanicClosed, ControlTyped
<1>3. CASE PanicFails(h)
  BY <1>3, FileStutters DEF PanicFails, ControlTyped
<1>4. CASE Build(h)
  BY <1>4, BuildTyped, PayloadTyped DEF Build, ControlTyped
<1>5. CASE Write(h)
  <2>1. FileTyped'
    BY <1>5, SaveStepTyped, SaveFailsTyped DEF Write
  <2>2. QED
    BY <1>5, <2>1 DEF Write, ControlTyped
<1>6. CASE Answer(h)
  BY <1>6, FileStutters DEF Answer, ControlTyped
<1>7. ASSUME NEW r \in Requests, Receive(h, r) PROVE TypeOK'
  BY <1>7, FileStutters, RevsTyped, LoopBoundsAssumption DEF Receive, ControlTyped
<1>8. QED
  BY <1>1, <1>2, <1>3, <1>4, <1>5, <1>6, <1>7 DEF HandlerStep

LEMMA RestartTyped == TypeOK /\ Restart => TypeOK'
<1> SUFFICES ASSUME TypeOK, Restart PROVE TypeOK'
  OBVIOUS
<1>1. FileTyped'
  BY DEF TypeOK, Restart, FileCrash, FileTyped, FileTypeOK, disk
<1>2. paused' \in BOOLEAN /\ rev' \in 0..MaxRev
  <2>1. CASE IsWhole(file)
    <3>1. file \in Payloads
      BY <2>1 DEF TypeOK, FileTypeOK, IsWhole
    <3>2. file.paused \in BOOLEAN /\ file.rev \in 0..MaxRev
      BY <3>1 DEF Payloads
    <3>3. QED
      BY <2>1, <3>2 DEF Restart
  <2>2. CASE ~IsWhole(file)
    <3>1. 0 \in 0..MaxRev
      BY LoopBoundsAssumption
    <3>2. QED
      BY <2>2, <3>1 DEF Restart
  <2>3. QED
    BY <2>1, <2>2
<1>3. restarts' \in 0..MaxRestarts
  BY LoopBoundsAssumption DEF TypeOK, Restart
<1>4. QED
  BY <1>1, <1>2, <1>3, TypeParts, TypePartsNext DEF Restart, ControlTyped

LEMMA TypeStep == TypeOK /\ [Next]_vars => TypeOK'
<1> SUFFICES ASSUME TypeOK, [Next]_vars PROVE TypeOK'
  OBVIOUS
<1>1. ASSUME NEW p \in Savers, BuildRaises(p) PROVE TypeOK'
  BY <1>1, SaveGivesUpTyped, TypeParts, TypePartsNext DEF BuildRaises, ControlTyped, control, counts
<1>2. CASE UNCHANGED vars
  BY <1>2, FileStutters, TypeParts, TypePartsNext DEF vars, ControlTyped, control, counts
<1>3. QED
  BY <1>1, <1>2, LoopTyped, HandlerTyped, RestartTyped DEF Next

\* The loop, the handlers and the file keep their types.
THEOREM TypeCorrect == Spec => []TypeOK
<1>1. QED
  BY TypeInit, TypeStep, PTL DEF Spec

-----------------------------------------------------------------------------
(* After a pause at most one cycle starts. *)

\* A loop that has passed the test has started no cycle since the flag was set.
LateInv ==
    /\ late <= 1
    /\ paused /\ pc = "acquire" => late = 0
    /\ ~paused => late = 0

\* Every step keeps at one the cycles that start while the loop is paused.
LEMMA LateStep == TypeOK /\ LateInv /\ [Next]_vars => LateInv'
<1> SUFFICES ASSUME TypeOK, LateInv, [Next]_vars PROVE LateInv'
  OBVIOUS
<1> USE DEF LateInv, TypeOK
<1>1. CASE LoopStep \/ CycleRaises \/ RequestStop
  BY <1>1 DEF LoopStep, Check, StartCycle, EndCycle, LoopSaved, Build, Write,
              CycleRaises, RequestStop, control, counts
<1>2. CASE Restart
  BY <1>2 DEF Restart
<1>3. ASSUME NEW h \in Handlers, HandlerStep(h) PROVE LateInv'
  BY <1>3 DEF HandlerStep, Acquire, PanicClosed, PanicFails, Build, Write, Answer,
              FlagAfter, control, counts
<1>4. ASSUME NEW h \in Handlers, NEW r \in Requests, Receive(h, r) PROVE LateInv'
  BY <1>4 DEF Receive
<1>5. ASSUME NEW p \in Savers, BuildRaises(p) PROVE LateInv'
  BY <1>5 DEF BuildRaises, control
<1>6. CASE UNCHANGED vars
  BY <1>6 DEF vars, control
<1>7. QED
  BY <1>1, <1>2, <1>3, <1>4, <1>5, <1>6 DEF Next

\* Once the flag is set at most one more cycle starts (main.py, run).
THEOREM PauseLetsOneCyclePass == Spec => []AtMostOneLateCycle
<1>1. Init => LateInv
  BY DEF Init, LateInv
<1>2. LateInv => AtMostOneLateCycle
  BY DEF LateInv, AtMostOneLateCycle
<1>3. QED
  BY <1>1, <1>2, LateStep, TypeInit, TypeStep, PTL DEF Spec

-----------------------------------------------------------------------------
(* Who saves, and under the lock. *)

LockInv ==
    /\ \A h \in Handlers : hpc[h] \in {"act", "save"} => lock = h
    /\ \A h \in Handlers : step[h] # "none" => hpc[h] = "save"
    /\ step[Loop] # "none" => pc \in {"save", "final"}
    /\ pc = "cycle" <=> lock = Loop

\* A step of a save in progress belongs to that saver alone.
LEMMA SaverStays ==
    ASSUME TypeOK, NEW p \in Savers,
           SaveStep(p) \/ SaveFails(p) \/ (\E c \in Payloads : BuildPayload(p, c))
                      \/ (step[p] = "build" /\ EndSave(p, FALSE))
    PROVE  step[p] # "none" /\ \A q \in Savers \ {p} : step'[q] = step[q]
BY DEF TypeOK, FileTypeOK, SaveStep, OpenTmp, WriteTmp, ReplaceFile, SaveFails,
       EndSave, BuildPayload

\* Every step keeps the lock with the one handler, or cycle, that acts under it.
LEMMA LockStep == TypeOK /\ LockInv /\ [Next]_vars => LockInv'
<1> SUFFICES ASSUME TypeOK, LockInv, [Next]_vars PROVE LockInv'
  OBVIOUS
<1> USE ThreadsAssumption DEF LockInv, TypeOK, FileTypeOK
<1>1. ASSUME NEW p \in Savers, Build(p) \/ Write(p) \/ BuildRaises(p) PROVE LockInv'
  <2>1. step[p] # "none" /\ \A q \in Savers \ {p} : step'[q] = step[q]
    BY <1>1, PayloadTyped, SaverStays DEF Build, Write, BuildRaises
  <2>2. UNCHANGED control
    BY <1>1 DEF Build, Write, BuildRaises
  <2>3. QED
    BY <2>1, <2>2 DEF control
<1>2. CASE Check
  BY <1>2 DEF Check, BeginSave, fileVars
<1>3. CASE EndCycle
  BY <1>3 DEF EndCycle, BeginSave
<1>4. CASE StartCycle \/ LoopSaved \/ CycleRaises \/ RequestStop
  BY <1>4 DEF StartCycle, LoopSaved, CycleRaises, RequestStop, fileVars, control
<1>5. CASE Restart
  BY <1>5 DEF Restart, FileCrash
<1>6. ASSUME NEW h \in Handlers, Acquire(h) PROVE LockInv'
  BY <1>6 DEF Acquire, BeginSave, fileVars
<1>7. ASSUME NEW h \in Handlers, PanicClosed(h) PROVE LockInv'
  BY <1>7 DEF PanicClosed, BeginSave
<1>8. ASSUME NEW h \in Handlers, PanicFails(h) \/ Answer(h) PROVE LockInv'
  BY <1>8 DEF PanicFails, Answer, fileVars
<1>9. ASSUME NEW h \in Handlers, NEW r \in Requests, Receive(h, r) PROVE LockInv'
  BY <1>9 DEF Receive, fileVars
<1>10. CASE UNCHANGED vars
  BY <1>10 DEF vars, control, fileVars
<1>11. QED
  BY <1>1, <1>2, <1>3, <1>4, <1>5, <1>6, <1>7, <1>8, <1>9, <1>10 DEF Next, LoopStep, HandlerStep

-----------------------------------------------------------------------------
(* The file. *)

\* A save that runs alone writes what it took to a temporary file of its own,
\* and without clashes every save runs alone.
FileInv ==
    /\ \A p \in Savers : step[p] # "none" /\ alone[p] => Saving = {p}
    /\ ~clashed => \A p \in Savers : step[p] # "none" => alone[p]
    /\ \A p \in Savers : step[p] \in {"open", "write", "replace"} => buf[p] \in Payloads
    /\ \A p \in Savers : step[p] # "write" => fd[p] = "none"
    /\ \A p \in Savers :
          step[p] = "write" /\ alone[p] => fd[p] = "tmp" /\ tmp = Empty
    /\ \A p \in Savers : step[p] = "replace" /\ alone[p] => tmp = buf[p]
    /\ FileIsWhole

LEMMA FileBegin ==
    ASSUME TypeOK, FileInv, NEW p \in Savers, step[p] = "none", BeginSave(p)
    PROVE  FileInv'
<1> USE DEF TypeOK, FileTypeOK, FileInv, BeginSave
<1>1. Saving' = Saving \cup {p} /\ UNCHANGED <<buf, fd, tmp, file>>
  BY DEF Saving, disk
<1>2. ASSUME NEW q \in Savers, step'[q] # "none", alone'[q] PROVE Saving' = {q}
  <2>1. CASE q = p
    BY <1>1, <1>2, <2>1
  <2>2. CASE q # p
    BY <1>2, <2>2 DEF Saving
  <2>3. QED
    BY <2>1, <2>2
<1>3. ASSUME ~clashed', NEW q \in Savers, step'[q] # "none" PROVE alone'[q]
  BY <1>3 DEF Saving
<1>4. \A q \in Savers : step'[q] \in {"open", "write", "replace"} => step'[q] = step[q]
  OBVIOUS
<1>5. \A q \in Savers : step'[q] \in {"write", "replace"} => ~alone'[q]
  BY DEF Saving
<1>6. FileIsWhole'
  BY <1>1 DEF FileIsWhole
<1>7. QED
  BY <1>1, <1>2, <1>3, <1>4, <1>5, <1>6

LEMMA FileSaves ==
    ASSUME TypeOK, FileInv, NEW p \in Savers,
           \/ SaveStep(p)
           \/ SaveFails(p)
           \/ BuildPayload(p, Payload)
           \/ step[p] = "build" /\ EndSave(p, FALSE) /\ UNCHANGED <<fd, disk>>
    PROVE  FileInv'
<1> USE PayloadsAssumption DEF TypeOK, FileTypeOK, FileInv, FileIsWhole, IsWhole, Saving
<1>1. CASE OpenTmp(p)
  BY <1>1 DEF OpenTmp
<1>2. CASE WriteTmp(p)
  BY <1>2 DEF WriteTmp, Written, disk
<1>3. CASE ReplaceFile(p)
  <2>1. \A q \in Savers : fd[q] = "none" => fd'[q] = "none"
    BY <1>3 DEF ReplaceFile, Renamed
  <2>2. QED
    BY <1>3, <2>1 DEF ReplaceFile, EndSave, disk
<1>4. CASE SaveFails(p)
  BY <1>4 DEF SaveFails, EndSave
<1>5. CASE BuildPayload(p, Payload)
  BY <1>5, PayloadTyped DEF BuildPayload, disk
<1>6. CASE step[p] = "build" /\ EndSave(p, FALSE) /\ UNCHANGED <<fd, disk>>
  BY <1>6 DEF EndSave, disk
<1>7. QED
  BY <1>1, <1>2, <1>3, <1>4, <1>5, <1>6 DEF SaveStep

LEMMA FileStays == FileInv /\ UNCHANGED fileVars => FileInv'
BY DEF FileInv, FileIsWhole, fileVars, disk, Saving

\* Every step keeps the file whole, and a lone saver's temporary file its own.
LEMMA FileStep == TypeOK /\ LockInv /\ FileInv /\ [Next]_vars => FileInv'
<1> SUFFICES ASSUME TypeOK, LockInv, FileInv, [Next]_vars PROVE FileInv'
  OBVIOUS
<1> USE ThreadsAssumption, FileStays
<1>1. ASSUME NEW p \in Savers, Build(p) \/ Write(p) \/ BuildRaises(p) PROVE FileInv'
  <2>1. CASE Build(p)
    <3>1. BuildPayload(p, Payload)
      BY <2>1 DEF Build
    <3>2. QED
      BY <3>1, FileSaves
  <2>2. CASE Write(p)
    <3>1. SaveStep(p) \/ SaveFails(p)
      BY <2>2 DEF Write
    <3>2. QED
      BY <3>1, FileSaves
  <2>3. CASE BuildRaises(p)
    <3>1. step[p] = "build" /\ EndSave(p, FALSE) /\ UNCHANGED <<fd, disk>>
      BY <2>3 DEF BuildRaises
    <3>2. QED
      BY <3>1, FileSaves
  <2>4. QED
    BY <1>1, <2>1, <2>2, <2>3
<1>2. CASE Check \/ EndCycle
  <2>1. step[Loop] = "none"
    BY <1>2 DEF Check, EndCycle, LockInv
  <2>2. QED
    BY <1>2, <2>1, FileBegin DEF Check, EndCycle
<1>3. CASE StartCycle \/ LoopSaved \/ CycleRaises \/ RequestStop
  BY <1>3 DEF StartCycle, LoopSaved, CycleRaises, RequestStop
<1>4. CASE Restart
  BY <1>4 DEF Restart, FileCrash, FileInv, FileIsWhole, Saving, disk
<1>5. ASSUME NEW h \in Handlers, Acquire(h) \/ PanicClosed(h) PROVE FileInv'
  <2>1. step[h] = "none"
    BY <1>5 DEF Acquire, PanicClosed, LockInv
  <2>2. QED
    BY <1>5, <2>1, FileBegin DEF Acquire, PanicClosed
<1>6. ASSUME NEW h \in Handlers, PanicFails(h) \/ Answer(h) PROVE FileInv'
  BY <1>6 DEF PanicFails, Answer
<1>7. ASSUME NEW h \in Handlers, NEW r \in Requests, Receive(h, r) PROVE FileInv'
  BY <1>7 DEF Receive
<1>8. CASE UNCHANGED vars
  BY <1>8 DEF vars
<1>9. QED
  BY <1>1, <1>2, <1>3, <1>4, <1>5, <1>6, <1>7, <1>8 DEF Next, LoopStep, HandlerStep

LEMMA FileInitially == Init => LockInv /\ FileInv
BY ThreadsAssumption DEF Init, FileInit, LockInv, FileInv, FileIsWhole, Saving

\* Without overlapping saves since the last lone one the state file is never
\* torn, whenever the process dies and whichever write fails (persistence.py, save).
THEOREM FileSurvives == Spec => []FileIsWhole
<1>1. FileInv => FileIsWhole
  BY DEF FileInv
<1>2. QED
  BY <1>1, TypeInit, TypeStep, LockStep, FileInitially, FileStep, PTL DEF Spec

-----------------------------------------------------------------------------
(* The flag the operator was told. *)

\* What the operator knows of the flag, or is about to be told.
Told == acked # "unknown" \/ \E h \in Handlers : hpc[h] = "save"
OnDisk == acked # "unknown" \/ \E h \in Handlers : hpc[h] = "save" /\ step[h] = "none"

FlagInv ==
    "io" \notin faults =>
        /\ acked # "unknown" => paused = (acked = "paused")
        /\ \A p \in Savers :
              alone[p] /\ step[p] \in {"open", "write", "replace"} /\ Told
                  => buf[p].paused = paused
        /\ ~clashed /\ OnDisk => IsWhole(file) /\ file.paused = paused

\* Enough for a step that leaves the flag and what the operator knows alone.
LEMMA FlagStays ==
    ASSUME FlagInv, UNCHANGED <<faults, paused>>,
           acked' # "unknown" => acked' = acked,
           Told' => Told, OnDisk' => OnDisk,
           ~clashed' => ~clashed, UNCHANGED file,
           \A p \in Savers : alone'[p] /\ step'[p] \in {"open", "write", "replace"}
               => alone[p] /\ step[p] \in {"open", "write", "replace"} /\ buf'[p] = buf[p]
    PROVE  FlagInv'
BY DEF FlagInv, IsWhole

LEMMA FlagSaves ==
    ASSUME TypeOK, LockInv, FileInv, FlagInv, NEW p \in Savers,
           Build(p) \/ Write(p) \/ BuildRaises(p)
    PROVE  FlagInv'
<1> SUFFICES ASSUME "io" \notin faults PROVE FlagInv'
  BY DEF FlagInv, Build, Write, BuildRaises
<1>1. UNCHANGED <<faults, control, paused, acked>>
  BY DEF Build, Write, BuildRaises
<1>2. Told' <=> Told
  BY <1>1 DEF Told, control
<1>3. CASE Build(p)
  <2>1. Payload.paused = paused
    BY DEF Payload
  <2>2. UNCHANGED <<file, alone, clashed>> /\ buf' = [buf EXCEPT ![p] = Payload]
        /\ step[p] = "build" /\ step' = [step EXCEPT ![p] = "open"]
    BY <1>3 DEF Build, BuildPayload, disk
  <2>3. OnDisk' => OnDisk
    BY <1>1, <2>2 DEF OnDisk, control, TypeOK, FileTypeOK
  <2>4. QED
    BY <1>1, <1>2, <2>1, <2>2, <2>3 DEF FlagInv, IsWhole, TypeOK, FileTypeOK
<1>4. CASE OpenTmp(p) \/ WriteTmp(p)
  <2>1. step[p] \in {"open", "write"} /\ step'[p] \in {"write", "replace"}
        /\ UNCHANGED <<buf, alone, clashed>> /\ (~clashed => UNCHANGED file)
    BY <1>4 DEF OpenTmp, WriteTmp, TypeOK, FileTypeOK, FileInv, disk
  <2>2. \A q \in Savers \ {p} : step'[q] = step[q]
    BY <1>4, SaverStays DEF SaveStep
  <2>3. OnDisk' => OnDisk
    BY <1>1, <2>1, <2>2, ThreadsAssumption DEF OnDisk, control
  <2>4. QED
    BY <1>1, <1>2, <2>1, <2>2, <2>3 DEF FlagInv, IsWhole
<1>5. CASE ReplaceFile(p)
  <2>1. step[p] = "replace" /\ \A q \in Savers \ {p} :
            step'[q] = step[q] /\ alone'[q] = alone[q] /\ buf'[q] = buf[q]
    BY <1>5 DEF ReplaceFile, EndSave, TypeOK, FileTypeOK
  <2>2. step'[p] = "none"
    BY <1>5 DEF ReplaceFile, EndSave, TypeOK, FileTypeOK
  <2>3. ASSUME ~clashed', OnDisk' PROVE IsWhole(file') /\ file'.paused = paused'
    <3>1. alone[p]
      BY <1>5, <2>1, <2>3 DEF ReplaceFile, EndSave, FileInv
    <3>2. tmp = buf[p] /\ buf[p] \in Payloads
      BY <2>1, <3>1 DEF FileInv
    <3>3. file' = buf[p] /\ IsWhole(buf[p])
      BY <1>5, <3>2, PayloadsAssumption DEF ReplaceFile, IsWhole
    <3>4. Told
      BY <1>2, <2>3 DEF Told, OnDisk
    <3>5. buf[p].paused = paused
      BY <2>1, <3>1, <3>4 DEF FlagInv
    <3>6. QED
      BY <1>1, <3>3, <3>5
  <2>4. QED
    BY <1>1, <1>2, <2>1, <2>2, <2>3 DEF FlagInv
<1>6. CASE BuildRaises(p)
  <2>1. p \notin Handlers
    BY <1>6 DEF BuildRaises, PanicActing, LockInv
  <2>2. \A q \in Savers \ {p} :
            step'[q] = step[q] /\ alone'[q] = alone[q] /\ buf'[q] = buf[q]
    BY <1>6 DEF BuildRaises, EndSave, TypeOK, FileTypeOK
  <2>3. step'[p] = "none" /\ clashed' = clashed /\ file' = file
    BY <1>6 DEF BuildRaises, EndSave, TypeOK, FileTypeOK, disk
  <2>4. OnDisk' => OnDisk
    BY <1>1, <2>1, <2>2, ThreadsAssumption DEF OnDisk, control
  <2>5. QED
    BY <1>1, <1>2, <2>2, <2>3, <2>4 DEF FlagInv, IsWhole
<1>7. QED
  BY <1>3, <1>4, <1>5, <1>6 DEF Write, SaveStep

\* A save that begins is not alone with one that is under way.
LEMMA BeginIsAlone ==
    ASSUME TypeOK, NEW p \in Savers, BeginSave(p)
    PROVE  /\ UNCHANGED <<buf, file>> /\ (~clashed' => ~clashed) /\ step'[p] = "build"
           /\ \A q \in Savers : step'[q] # "build" => step'[q] = step[q]
           /\ \A q \in Savers :
                 step'[q] \notin {"none", "build"} => ~alone'[q]
BY DEF BeginSave, disk, Saving, TypeOK, FileTypeOK

\* Every step keeps the flag, in memory, in a buffer and on disk, what the operator was
\* told.
LEMMA FlagStep ==
    TypeOK /\ LockInv /\ FileInv /\ FlagInv /\ [Next]_vars => FlagInv'
<1> SUFFICES ASSUME TypeOK, LockInv, FileInv, FlagInv, [Next]_vars PROVE FlagInv'
  OBVIOUS
<1> USE ThreadsAssumption
<1>1. ASSUME NEW p \in Savers, Build(p) \/ Write(p) \/ BuildRaises(p) PROVE FlagInv'
  BY <1>1, FlagSaves
<1>2. CASE Check \/ StartCycle \/ EndCycle \/ LoopSaved \/ CycleRaises \/ RequestStop
  <2>1. BeginSave(Loop) \/ UNCHANGED fileVars
    BY <1>2 DEF Check, StartCycle, EndCycle, LoopSaved, CycleRaises, RequestStop
  <2>2. UNCHANGED <<faults, paused, acked, hpc>>
    BY <1>2 DEF Check, StartCycle, EndCycle, LoopSaved, CycleRaises, RequestStop, control
  <2>3. CASE BeginSave(Loop)
    <3>1. OnDisk' => OnDisk
      BY <2>2, <2>3, BeginIsAlone DEF OnDisk
    <3>2. QED
      BY <2>2, <2>3, <3>1, BeginIsAlone, FlagStays DEF Told
  <2>4. CASE UNCHANGED fileVars
    BY <2>2, <2>4 DEF fileVars, disk, FlagInv, Told, OnDisk, IsWhole
  <2>5. QED
    BY <2>1, <2>3, <2>4
<1>3. CASE Restart
  <2>1. \A p \in Savers : step'[p] = "none"
    BY <1>3 DEF Restart, FileCrash
  <2>2. ~Told' \/ (~clashed /\ acked # "unknown" /\ acked' = acked)
    BY <1>3 DEF Restart, Told
  <2>3. UNCHANGED <<faults, file, clashed>>
    BY <1>3 DEF Restart, FileCrash, disk
  <2>4. CASE ~Told'
    BY <2>1, <2>4 DEF FlagInv, Told, OnDisk
  <2>5. CASE ~clashed /\ acked # "unknown" /\ acked' = acked
    <3>1. ASSUME "io" \notin faults PROVE IsWhole(file) /\ file.paused = paused
      BY <2>5, <3>1 DEF FlagInv, OnDisk
    <3>2. ASSUME "io" \notin faults PROVE paused' = paused
      BY <1>3, <3>1, <3>2 DEF Restart
    <3>3. QED
      BY <2>1, <2>3, <2>5, <3>1, <3>2 DEF FlagInv, IsWhole, OnDisk
  <2>6. QED
    BY <2>2, <2>4, <2>5
<1>4. ASSUME NEW h \in Handlers, Acquire(h) PROVE FlagInv'
  <2>1. \A g \in Handlers : hpc[g] # "save"
    BY <1>4 DEF Acquire, LockInv
  <2>2. UNCHANGED faults /\ (acked' # "unknown" => acked' = acked /\ paused' = paused)
    BY <1>4 DEF Acquire
  <2>3. CASE request[h] = "panic"
    <3>1. UNCHANGED fileVars /\ hpc' = [hpc EXCEPT ![h] = "act"]
      BY <1>4, <2>3 DEF Acquire
    <3>2. \A g \in Handlers : hpc'[g] # "save"
      BY <2>1, <3>1 DEF TypeOK
    <3>3. QED
      BY <2>1, <2>2, <3>1, <3>2 DEF fileVars, disk, FlagInv, Told, OnDisk, IsWhole
  <2>4. CASE request[h] # "panic"
    <3>1. BeginSave(h) /\ hpc' = [hpc EXCEPT ![h] = "save"]
      BY <1>4, <2>4 DEF Acquire
    <3>2. \A g \in Handlers : hpc'[g] = "save" => g = h
      BY <2>1, <3>1 DEF TypeOK
    <3>3. OnDisk' => acked' # "unknown"
      BY <3>1, <3>2, BeginIsAlone DEF OnDisk
    <3>4. QED
      BY <2>2, <3>1, <3>3, BeginIsAlone DEF FlagInv, IsWhole, OnDisk
  <2>5. QED
    BY <2>3, <2>4
<1>5. ASSUME NEW h \in Handlers, PanicClosed(h) PROVE FlagInv'
  <2>1. BeginSave(h) /\ UNCHANGED <<faults, paused, acked>>
        /\ hpc' = [hpc EXCEPT ![h] = "save"]
    BY <1>5 DEF PanicClosed
  <2>2. OnDisk' => OnDisk
    BY <2>1, BeginIsAlone DEF OnDisk, TypeOK
  <2>3. QED
    BY <2>1, <2>2, BeginIsAlone DEF FlagInv, IsWhole
<1>6. ASSUME NEW h \in Handlers, PanicFails(h) PROVE FlagInv'
  <2>1. UNCHANGED <<faults, fileVars, paused, acked>>
        /\ hpc' = [hpc EXCEPT ![h] = "idle"]
    BY <1>6 DEF PanicFails
  <2>2. (Told' => Told) /\ (OnDisk' => OnDisk)
    BY <2>1 DEF Told, OnDisk, TypeOK, fileVars
  <2>3. QED
    BY <2>1, <2>2 DEF FlagInv, IsWhole, fileVars, disk
<1>7. ASSUME NEW h \in Handlers, Answer(h) PROVE FlagInv'
  <2>1. OnDisk /\ Told
    BY <1>7 DEF Answer, OnDisk, Told
  <2>2. UNCHANGED <<faults, fileVars, paused>>
    BY <1>7 DEF Answer
  <2>3. acked' = acked \/ acked' = IF paused THEN "paused" ELSE "running"
    BY <1>7 DEF Answer
  <2>4. ASSUME "io" \notin faults, acked' # "unknown" PROVE paused' = (acked' = "paused")
    <3>1. CASE acked' = acked
      BY <2>2, <2>4, <3>1 DEF FlagInv
    <3>2. CASE acked' = IF paused THEN "paused" ELSE "running"
      BY <2>2, <3>2 DEF TypeOK
    <3>3. QED
      BY <2>3, <3>1, <3>2
  <2>5. QED
    BY <2>1, <2>2, <2>4 DEF FlagInv, IsWhole, fileVars, disk
<1>8. ASSUME NEW h \in Handlers, NEW r \in Requests, Receive(h, r) PROVE FlagInv'
  <2>1. UNCHANGED <<faults, fileVars, paused, acked>>
        /\ hpc' = [hpc EXCEPT ![h] = "acquire"]
    BY <1>8 DEF Receive
  <2>2. (Told' => Told) /\ (OnDisk' => OnDisk)
    BY <2>1 DEF Told, OnDisk, TypeOK, fileVars
  <2>3. QED
    BY <2>1, <2>2 DEF FlagInv, IsWhole, fileVars, disk
<1>9. CASE UNCHANGED vars
  BY <1>9 DEF vars, control, fileVars, disk, FlagInv, Told, OnDisk, IsWhole
<1>10. QED
  BY <1>1, <1>2, <1>3, <1>4, <1>5, <1>6, <1>7, <1>8, <1>9 DEF Next, LoopStep, HandlerStep

\* What the operator was told of the pause flag stays true, also across crashes,
\* where no write fails and no crash follows overlapping saves (controller.py).
THEOREM AckedFlagIsKept == Spec => []AckedFlagHolds
<1>1. Init => FlagInv
  BY ThreadsAssumption DEF Init, FileInit, FlagInv, Told, OnDisk
<1>2. FlagInv => AckedFlagHolds
  BY DEF FlagInv, AckedFlagHolds
<1>3. QED
  BY <1>1, <1>2, TypeInit, TypeStep, LockStep, FileInitially, FileStep, FlagStep, PTL DEF Spec

-----------------------------------------------------------------------------
(* What is on disk between two cycles. *)

\* A handler that is about to save, or to change what is saved.
Busy == \E h \in Handlers : hpc[h] \in {"acquire", "act"}

\* Unless a handler is still to save, a lone saver writes what memory holds, and when it
\* is done the file holds it.
SavedInv ==
    faults \subseteq {"crash"} /\ ~Busy =>
        /\ \A p \in Savers :
              alone[p] /\ step[p] \in {"open", "write", "replace"} => buf[p] = Payload
        /\ ~clashed /\ file # Absent /\ Saving = {} => file = Payload

\* A save that begins copies the payload later and is alone, if nobody else saves.
LEMMA SavedBegins ==
    ASSUME TypeOK, NEW p \in Savers, BeginSave(p)
    PROVE  SavedInv'
<1>1. step'[p] = "build"
  BY BeginIsAlone
<1>2. Saving' # {}
  BY <1>1 DEF Saving
<1>3. \A q \in Savers : step'[q] \in {"open", "write", "replace"} => ~alone'[q]
  BY BeginIsAlone
<1>4. QED
  BY <1>2, <1>3 DEF SavedInv

LEMMA SavedSaves ==
    ASSUME TypeOK, LockInv, FileInv, SavedInv, NEW p \in Savers,
           Build(p) \/ Write(p) \/ BuildRaises(p)
    PROVE  SavedInv'
<1> SUFFICES ASSUME faults \subseteq {"crash"}, ~Busy PROVE SavedInv'
  BY DEF SavedInv, Busy, Build, Write, BuildRaises, control
<1>1. UNCHANGED <<Payload, Busy>>
  BY DEF Build, Write, BuildRaises, Payload, Busy, control
<1>2. CASE Build(p)
  <2>1. UNCHANGED <<file, alone, clashed>> /\ buf' = [buf EXCEPT ![p] = Payload]
        /\ step' = [step EXCEPT ![p] = "open"]
    BY <1>2 DEF Build, BuildPayload, disk
  <2>2. Saving' # {}
    BY <2>1 DEF Saving, TypeOK, FileTypeOK
  <2>3. QED
    BY <1>1, <2>1, <2>2 DEF SavedInv, TypeOK, FileTypeOK
<1>3. CASE OpenTmp(p) \/ WriteTmp(p)
  <2>1. step[p] \in {"open", "write"} /\ step'[p] \in {"write", "replace"}
        /\ UNCHANGED <<buf, alone>>
    BY <1>3 DEF OpenTmp, WriteTmp, TypeOK, FileTypeOK
  <2>2. \A q \in Savers \ {p} : step'[q] = step[q]
    BY <1>3, SaverStays DEF SaveStep
  <2>3. Saving' # {}
    BY <2>1 DEF Saving
  <2>4. QED
    BY <1>1, <2>1, <2>2, <2>3 DEF SavedInv
<1>4. CASE ReplaceFile(p)
  <2>1. step[p] = "replace" /\ step'[p] = "none" /\ \A q \in Savers \ {p} :
            step'[q] = step[q] /\ alone'[q] = alone[q] /\ buf'[q] = buf[q]
    BY <1>4 DEF ReplaceFile, EndSave, TypeOK, FileTypeOK
  <2>2. ASSUME ~clashed' PROVE file' = Payload
    <3>1. alone[p]
      BY <1>4, <2>1, <2>2 DEF ReplaceFile, EndSave, FileInv
    <3>2. tmp = buf[p] /\ buf[p] \in Payloads
      BY <2>1, <3>1 DEF FileInv
    <3>3. file' = buf[p]
      BY <1>4, <3>2, PayloadsAssumption DEF ReplaceFile
    <3>4. QED
      BY <2>1, <3>1, <3>3 DEF SavedInv
  <2>3. QED
    BY <1>1, <2>1, <2>2 DEF SavedInv
<1>5. CASE BuildRaises(p)
  BY <1>5 DEF BuildRaises, PanicActing, Busy
<1>6. CASE "io" \in faults
  BY <1>6
<1>7. QED
  BY <1>2, <1>3, <1>4, <1>5, <1>6 DEF Write, SaveStep

\* Every step keeps the file of a quiet program equal to what is in memory.
LEMMA SavedStep ==
    TypeOK /\ LockInv /\ FileInv /\ SavedInv /\ [Next]_vars => SavedInv'
<1> SUFFICES ASSUME TypeOK, LockInv, FileInv, SavedInv, [Next]_vars PROVE SavedInv'
  OBVIOUS
<1> USE ThreadsAssumption
<1>1. ASSUME NEW p \in Savers, Build(p) \/ Write(p) \/ BuildRaises(p) PROVE SavedInv'
  BY <1>1, SavedSaves
<1>2. CASE Check \/ StartCycle \/ EndCycle \/ LoopSaved \/ RequestStop
  <2>1. CASE BeginSave(Loop)
    BY <2>1, SavedBegins
  <2>2. CASE ~BeginSave(Loop)
    <3>1. UNCHANGED <<faults, fileVars, hpc, paused, rev>>
      BY <1>2, <2>2 DEF Check, StartCycle, EndCycle, LoopSaved, RequestStop, control
    <3>2. QED
      BY <3>1 DEF SavedInv, Busy, Payload, Saving, fileVars, disk
  <2>3. QED
    BY <2>1, <2>2
<1>3. CASE CycleRaises
  BY <1>3 DEF CycleRaises, SavedInv
<1>4. CASE Restart
  <2>1. ASSUME ~clashed', file' # Absent PROVE file' = Payload'
    <3>1. ~clashed /\ file # Absent /\ file' = file
      BY <1>4, <2>1 DEF Restart, FileCrash, disk
    <3>2. IsWhole(file) /\ file \in Payloads
      BY <3>1 DEF FileInv, FileIsWhole, IsWhole, TypeOK, FileTypeOK
    <3>3. paused' = file.paused /\ rev' = file.rev
      BY <1>4, <3>2 DEF Restart
    <3>4. QED
      BY <3>1, <3>2, <3>3 DEF Payload, Payloads
  <2>2. \A p \in Savers : step'[p] = "none"
    BY <1>4 DEF Restart, FileCrash
  <2>3. QED
    BY <2>1, <2>2 DEF SavedInv
<1>5. ASSUME NEW h \in Handlers, Acquire(h) \/ PanicClosed(h) PROVE SavedInv'
  <2>1. CASE BeginSave(h)
    BY <2>1, SavedBegins
  <2>2. CASE ~BeginSave(h)
    <3>1. hpc'[h] = "act"
      BY <1>5, <2>2 DEF Acquire, PanicClosed, TypeOK
    <3>2. QED
      BY <3>1 DEF SavedInv, Busy
  <2>3. QED
    BY <2>1, <2>2
<1>6. ASSUME NEW h \in Handlers, PanicFails(h) PROVE SavedInv'
  BY <1>6 DEF PanicFails, SavedInv
<1>7. ASSUME NEW h \in Handlers, Answer(h) PROVE SavedInv'
  <2>1. UNCHANGED <<faults, fileVars, paused, rev>> /\ hpc' = [hpc EXCEPT ![h] = "idle"]
        /\ hpc[h] = "save"
    BY <1>7 DEF Answer
  <2>2. Busy => Busy'
    BY <2>1 DEF Busy, TypeOK
  <2>3. QED
    BY <2>1, <2>2 DEF SavedInv, Payload, Saving, fileVars, disk
<1>8. ASSUME NEW h \in Handlers, NEW r \in Requests, Receive(h, r) PROVE SavedInv'
  <2>1. hpc'[h] = "acquire"
    BY <1>8 DEF Receive, TypeOK
  <2>2. QED
    BY <2>1 DEF SavedInv, Busy
<1>9. CASE UNCHANGED vars
  BY <1>9 DEF vars, control, fileVars, disk, SavedInv, Busy, Payload, Saving
<1>10. QED
  BY <1>1, <1>2, <1>3, <1>4, <1>5, <1>6, <1>7, <1>8, <1>9 DEF Next, LoopStep, HandlerStep

\* With no request under way the file holds between two cycles what memory holds,
\* for any handlers, requests and crashes, unless a save failed, a cycle raised or saves
\* overlapped (main.py, run; controller.py, persist_state).
THEOREM QuietStateIsSaved == Spec => []QuiescentIsSaved
<1>1. Init => SavedInv
  BY DEF Init, FileInit, SavedInv
<1>2. SavedInv => QuiescentIsSaved
  BY DEF SavedInv, QuiescentIsSaved, Quiescent, Busy
<1>3. QED
  BY <1>1, <1>2, TypeInit, TypeStep, LockStep, FileInitially, FileStep, SavedStep, PTL DEF Spec
=============================================================================
