------------------------------ MODULE LogRotate ------------------------------
(***************************************************************************)
(* The log file of utils/log.py: _open_file, the writing part of _emit and  *)
(* _rotate_if_needed, one call of the file system at a time, so that the    *)
(* process may crash, or a call raise, between any two.  A file is its      *)
(* generation, counted from 1; backups[i] is log.<i>.                         *)
(***************************************************************************)
EXTENDS Integers, FiniteSets

CONSTANTS
    BackupCount,  \* backup_count, 3 in the code
    MaxBytes,     \* max_bytes
    Every,        \* lines between two looks at the size, 100 in the code
    LineSizes,    \* sizes of a line
    MaxGens,      \* generations, for TLC
    MaxStarts,    \* starts of the server, for TLC
    MaxFaults     \* calls that raise, for TLC

None == 0
Slots == 1..BackupCount

VARIABLES
    file,    \* self.file: "none", "open", or "closed" and still set
    lines,   \* _lines_written
    current, \* generation of the log, None while it has been renamed
    size,    \* its size
    backups, \* generation of each backup, None where there is none
    pc,      \* where _rotate_if_needed is
    slot,    \* i of its loop
    gens,    \* generations so far
    gone,    \* generations that were removed
    starts, faults,
    broken   \* rotations that ended before the log was renamed

vars == <<file, lines, current, size, backups, pc, slot, gens, gone, starts,
          faults, broken>>

Init ==
    /\ file = "none" /\ lines = 0 /\ current = None /\ size = 0
    /\ backups = [i \in Slots |-> None]
    /\ pc = "down" /\ slot = 1
    /\ gens = 0 /\ gone = {} /\ starts = 0 /\ faults = 0
    /\ broken = 0

-----------------------------------------------------------------------------
\* open(path, "a"): what is there is kept.
Opens ==
    /\ file' = "open" /\ lines' = 0
    /\ IF current = None
       THEN gens' = gens + 1 /\ current' = gens' /\ size' = 0
       ELSE UNCHANGED <<gens, current, size>>

Start ==
    /\ pc = "down" /\ starts < MaxStarts /\ gens < MaxGens
    /\ starts' = starts + 1
    /\ pc' = "idle"
    /\ Opens
    /\ UNCHANGED <<backups, slot, gone, faults, broken>>

\* The file cannot be opened: the server runs without one, and says so.
StartFails ==
    /\ pc = "down" /\ starts < MaxStarts /\ faults < MaxFaults
    /\ starts' = starts + 1 /\ faults' = faults + 1
    /\ pc' = "idle" /\ file' = "none"
    /\ UNCHANGED <<lines, current, size, backups, slot, gens, gone, broken>>

Looks == (lines + 1) % Every = 0

\* The file is closed before the renaming begins.
Handle(p) == IF p = "shift" THEN "closed" ELSE "open"

\* _emit; the size is looked at after every Every-th line.
Emit(n) ==
    /\ pc = "idle" /\ file = "open"
    /\ gens < MaxGens
    /\ lines' = lines + 1
    /\ size' = size + n
    /\ pc' = IF Looks /\ size' >= MaxBytes THEN "shift" ELSE "idle"
    /\ file' = Handle(pc')
    /\ slot' = BackupCount - 1
    /\ UNCHANGED <<current, backups, gens, gone, starts, faults, broken>>

\* A line that comes when the file is closed raises, and is lost; nothing
\* changes.

\* Mutant: the loop goes up instead of down.
UpwardShift(s) == BackupCount - s

\* The i of the loop, at each turn.
Turn(s) == s

\* os.remove of log.<i + 1>.
ShiftRemoves ==
    /\ pc = "shift" /\ slot > 0
    /\ LET i == Turn(slot) IN
       /\ backups[i] # None /\ backups[i + 1] # None
       /\ gone' = gone \cup {backups[i + 1]}
       /\ backups' = [backups EXCEPT ![i + 1] = None]
    /\ UNCHANGED <<file, lines, current, size, pc, slot, gens, starts, faults, broken>>

\* os.rename of log.<i> to log.<i + 1>, or nothing to rename.
ShiftRenames ==
    /\ pc = "shift" /\ slot > 0
    /\ LET i == Turn(slot) IN
       /\ backups[i] = None \/ backups[i + 1] = None
       /\ backups' = IF backups[i] = None THEN backups
                   ELSE [backups EXCEPT ![i + 1] = backups[i], ![i] = None]
    /\ slot' = slot - 1
    /\ UNCHANGED <<file, lines, current, size, pc, gens, gone, starts, faults, broken>>

ShiftEnds ==
    /\ pc = "shift" /\ slot = 0
    /\ pc' = "current"
    /\ UNCHANGED <<file, lines, current, size, backups, slot, gens, gone, starts, faults, broken>>

\* Only with BackupCount = 1: otherwise the loop has left no log.1.
CurrentRemoves ==
    /\ pc = "current" /\ backups[1] # None
    /\ gone' = gone \cup {backups[1]}
    /\ backups' = [backups EXCEPT ![1] = None]
    /\ UNCHANGED <<file, lines, current, size, pc, slot, gens, starts, faults, broken>>

CurrentRenames ==
    /\ pc = "current" /\ backups[1] = None
    /\ backups' = [backups EXCEPT ![1] = current]
    /\ current' = None /\ size' = 0
    /\ pc' = "open"
    /\ UNCHANGED <<file, lines, slot, gens, gone, starts, faults, broken>>

Reopens ==
    /\ pc = "open"
    /\ Opens
    /\ pc' = "idle"
    /\ UNCHANGED <<backups, slot, gone, starts, faults, broken>>

Breaks == broken' = broken + IF pc \in {"shift", "current"} THEN 1 ELSE 0

\* Any call raises: the exception is swallowed, the closed file stays.
Fails ==
    /\ pc \in {"shift", "current", "open"} /\ faults < MaxFaults
    /\ faults' = faults + 1
    /\ Breaks
    /\ pc' = "idle"
    /\ UNCHANGED <<file, lines, current, size, backups, slot, gens, gone, starts>>

\* The end of the process, at any point.
Crash ==
    /\ pc # "down"
    /\ Breaks
    /\ pc' = "down" /\ file' = "none"
    /\ UNCHANGED <<lines, current, size, backups, slot, gens, gone, starts, faults>>

-----------------------------------------------------------------------------
Rotates == ShiftRemoves \/ ShiftRenames \/ ShiftEnds
           \/ CurrentRemoves \/ CurrentRenames \/ Reopens
Next ==
    \/ Start \/ StartFails \/ Rotates \/ Fails \/ Crash
    \/ \E n \in LineSizes : Emit(n)

Spec == Init /\ [][Next]_vars

-----------------------------------------------------------------------------
Kept == ({backups[i] : i \in Slots} \cup {current}) \ {None}

TypeOK ==
    /\ file \in {"none", "open", "closed"}
    /\ pc \in {"down", "idle", "shift", "current", "open"}
    /\ backups \in [Slots -> 0..gens] /\ current \in {None, gens}
    /\ gone \subseteq 1..gens /\ slot \in 0..BackupCount
    /\ pc \in {"shift", "current", "open"} => file = "closed"

\* Every generation is kept in one place or was removed.  A rotation removes
\* the oldest one, and only when there are BackupCount younger ones, less one
\* for each rotation that was broken off: the next one moves every backup up
\* past the gap that it left.  The number of a backup is its age throughout.
NewestKept ==
    /\ Kept \cup gone = 1..gens /\ Kept \cap gone = {}
    /\ \A g \in gone : g <= gens - BackupCount + broken
    /\ \A g \in gone, k \in Kept : g < k
    /\ \A i \in Slots :
         /\ current # None => backups[i] < current
         /\ \A j \in i + 1..BackupCount : backups[i] # None => backups[i] > backups[j]

=============================================================================
