------------------------------ MODULE StateFile ------------------------------
(***************************************************************************)
(* StatePersistence.save and load of src/persistence.py on a file system:  *)
(* a save writes <path>.tmp and renames it to <path>. All savers use the   *)
(* same temporary name. A thread that opened the temporary file goes on    *)
(* writing to that file after another thread renamed it.                   *)
(***************************************************************************)
EXTENDS Naturals

CONSTANTS
    Savers,   \* threads that may save
    Absent,   \* no such file; also: no payload
    Empty,    \* a file created or truncated, not yet written
    Torn      \* bytes that are no complete JSON document

VARIABLES
    step,     \* where each saver is: none, build, open, write, replace
    buf,      \* the payload it took from memory
    fd,       \* what it writes to: tmp, file, or gone for a file without a name
    tmp,      \* what <path>.tmp holds
    file,     \* what <path> holds
    alone,    \* history: no other save overlapped this saver's current one
    clashed   \* history: saves have overlapped since the last lone save was done

disk == <<tmp, file>>
fileVars == <<step, buf, fd, disk, alone, clashed>>

FileTypeOK(payloads) ==
    /\ step \in [Savers -> {"none", "build", "open", "write", "replace"}]
    /\ buf \in [Savers -> payloads \cup {Absent}]
    /\ fd \in [Savers -> {"none", "tmp", "file", "gone"}]
    /\ {tmp, file} \subseteq payloads \cup {Absent, Empty, Torn}
    /\ alone \in [Savers -> BOOLEAN] /\ clashed \in BOOLEAN

FileInit ==
    /\ step = [p \in Savers |-> "none"]
    /\ buf = [p \in Savers |-> Absent]
    /\ fd = [p \in Savers |-> "none"]
    /\ tmp = Absent /\ file = Absent
    /\ alone = [p \in Savers |-> TRUE] /\ clashed = FALSE

Saving == {p \in Savers : step[p] # "none"}

\* load finds something usable.
IsWhole(c) == c \notin {Absent, Empty, Torn}

\* The thread enters persist_state.
BeginSave(p) ==
    /\ step' = [step EXCEPT ![p] = "build"]
    /\ alone' = [q \in Savers |->
                    IF q = p THEN Saving = {} ELSE alone[q] /\ q \notin Saving]
    /\ clashed' = (clashed \/ Saving # {})
    /\ UNCHANGED <<buf, fd, disk>>

\* It copies the state and the paused flag.
BuildPayload(p, payload) ==
    /\ step[p] = "build"
    /\ buf' = [buf EXCEPT ![p] = payload]
    /\ step' = [step EXCEPT ![p] = "open"]
    /\ UNCHANGED <<fd, disk, alone, clashed>>

\* Mutant: the file itself is rewritten.
OpenInPlace(p) ==
    /\ step[p] = "open"
    /\ file' = Empty
    /\ fd' = [fd EXCEPT ![p] = "file"]
    /\ step' = [step EXCEPT ![p] = "write"]
    /\ UNCHANGED <<buf, tmp, alone, clashed>>

\* open(tmp, "w") creates the temporary file, or truncates the one there is.
OpenTmp(p) ==
    /\ step[p] = "open"
    /\ tmp' = Empty
    /\ fd' = [fd EXCEPT ![p] = "tmp"]
    /\ step' = [step EXCEPT ![p] = "write"]
    /\ UNCHANGED <<buf, file, alone, clashed>>

\* The bytes go to the start of the file; what another thread wrote there
\* since shines through where it was longer.
Written(old, payload) == {payload} \cup (IF old = Empty THEN {} ELSE {Torn})
WriteTmp(p) ==
    /\ step[p] = "write"
    /\ \/ fd[p] = "tmp" /\ tmp' \in Written(tmp, buf[p]) /\ UNCHANGED file
       \/ fd[p] = "file" /\ file' \in Written(file, buf[p]) /\ UNCHANGED tmp
       \/ fd[p] = "gone" /\ UNCHANGED disk
    /\ fd' = [fd EXCEPT ![p] = "none"]
    /\ step' = [step EXCEPT ![p] = "replace"]
    /\ UNCHANGED <<buf, alone, clashed>>

\* The save is over; one that ran alone and wrote settles earlier clashes.
EndSave(p, written) ==
    /\ step' = [step EXCEPT ![p] = "none"]
    /\ buf' = [buf EXCEPT ![p] = Absent]
    /\ alone' = [alone EXCEPT ![p] = TRUE]
    /\ clashed' = (clashed /\ ~(written /\ alone[p]))

\* os.replace(tmp, path). Other threads' descriptors follow the files. It fails
\* when another thread has renamed tmp; the error is swallowed.
Renamed == [tmp |-> "file", file |-> "gone", gone |-> "gone", none |-> "none"]
ReplaceFile(p) ==
    /\ step[p] = "replace"
    /\ IF tmp = Absent
       THEN UNCHANGED <<disk, fd>>
       ELSE /\ file' = tmp /\ tmp' = Absent
            /\ fd' = [q \in Savers |-> Renamed[fd[q]]]
    /\ EndSave(p, tmp # Absent)

\* An OSError while opening or writing (disk full), after some of the bytes
\* perhaps: logged and swallowed.
SaveFails(p) ==
    /\ step[p] \in {"open", "write"}
    /\ tmp' \in {tmp} \cup (IF fd[p] = "tmp" THEN {Torn} ELSE {})
    /\ file' \in {file} \cup (IF fd[p] = "file" THEN {Torn} ELSE {})
    /\ fd' = [fd EXCEPT ![p] = "none"]
    /\ EndSave(p, FALSE)

\* The process dies: what is on disk stays, and nobody writes any more.
FileCrash ==
    /\ step' = [p \in Savers |-> "none"]
    /\ buf' = [p \in Savers |-> Absent]
    /\ fd' = [p \in Savers |-> "none"]
    /\ alone' = [p \in Savers |-> TRUE]
    /\ UNCHANGED <<disk, clashed>>

SaveStep(p) == OpenTmp(p) \/ WriteTmp(p) \/ ReplaceFile(p)
=============================================================================
