------------------------------- MODULE UndoRedo -------------------------------
(***************************************************************************)
(* Undo and redo of the file changes of a session's tool calls: the two    *)
(* handlers of the gateway (handleSessionUndo, handleSessionRedo), the     *)
(* queries on the durable log that choose the change                       *)
(* (FindUndoableTurnChange, FindRedoTurnChange), and restoreRecord of      *)
(* internal/checkpoint, which checks every file of the change and then     *)
(* writes them one by one.  Nothing holds a lock from the first step of a  *)
(* handler to its last: runs, other requests and the user's editor work on *)
(* the same files.                                                         *)
(*                                                                         *)
(* The log is cut down to its turn.change_recorded and                     *)
(* turn.change_reverted events; a change is numbered when a tool attempt   *)
(* records it, and its checkpoint holds every file's state before and      *)
(* after.  "Files" are paths: at each there is nothing, a regular file, a  *)
(* directory, or something else (a symbolic link).  Modes are left out.    *)
(***************************************************************************)
EXTENDS Naturals, Sequences, FiniteSets, FiniteSetsExt

CONSTANTS
    Files,
    Texts,      \* contents that a checkpoint keeps
    Opaque,     \* those it keeps the hash of: empty, or over MaxFileBytes
    Holds,      \* bound: what may be at each path
    Requests,   \* goroutines that serve POST /undo and POST /redo
    MaxRequests,\* bound: requests
    MaxChanges, \* bound: changes that tools record
    MaxMishaps  \* bound: edits by others, failing writes or appends, restarts, overlaps

ASSUME ContentsAssumption ==
    /\ Texts \intersect Opaque = {}
    /\ {"absent", "dir", "special"} \intersect (Texts \union Opaque) = {}
ASSUME RequestsAssumption == IsFiniteSet(Requests)

VARIABLES
    disk,       \* the files of the workspace
    hidden,     \* the directories with entries that no snapshot visits
    log,        \* events.jsonl
    changes,    \* the checkpoint artifacts
    run,        \* the session's run: "idle", "running", or its tool attempt
    before,     \* the tool attempt's snapshot (checkpoint.Begin)
    pc, redo, change, todo, conflict, rollback, \* the handler of each request
    requests, edits, faults, restarts, overlaps,
    \* history
    expect,     \* the files as the log and the edits tell them
    marks       \* what has happened that the log cannot tell

workspace == <<disk, hidden, log, changes>>
attempt == <<run, before>>
handler == <<pc, redo, change, todo, conflict, rollback>>
bounds == <<requests, edits, faults, restarts, overlaps>>
undoVars == <<workspace, attempt, handler, bounds, expect, marks>>

Contents == Texts \union Opaque \union {"absent", "dir", "special"}
States == [Files -> Contents]
Directories(d) == {f \in Files : d[f] = "dir"}

-----------------------------------------------------------------------------
Nothing == [f \in Files |-> "absent"]

UndoInit ==
    /\ disk = Nothing /\ expect = disk /\ before = Nothing
    /\ hidden = {} /\ log = <<>> /\ changes = <<>> /\ run = "idle"
    /\ pc = [h \in Requests |-> "new"]
    /\ redo = [h \in Requests |-> FALSE]
    /\ change = [h \in Requests |-> 0]
    /\ todo = [h \in Requests |-> {}]
    /\ conflict = [h \in Requests |-> FALSE]
    /\ rollback = [h \in Requests |-> FALSE]
    /\ requests = 0 /\ edits = 0 /\ faults = 0 /\ restarts = 0 /\ overlaps = 0 /\ marks = {}

Mishaps == edits + faults + restarts + overlaps

Goto(h, label) == pc' = [pc EXCEPT ![h] = label]

\* The requests that are not answered yet, and those that are at the files.
InFlight == {h \in Requests : pc[h] # "new"}
Restoring == {h \in InFlight : pc[h] # "find"}
AtFiles == run \in {"tool", "written"}

\* Something begins while requests are in flight.
Crowded(others) ==
    IF others THEN Mishaps < MaxMishaps /\ overlaps' = overlaps + 1 ELSE UNCHANGED overlaps

\* The answer to a request ends its handler.
Answer(h) ==
    /\ Goto(h, "new")
    /\ redo' = [redo EXCEPT ![h] = FALSE]
    /\ change' = [change EXCEPT ![h] = 0]
    /\ todo' = [todo EXCEPT ![h] = {}]
    /\ conflict' = [conflict EXCEPT ![h] = FALSE]
    /\ rollback' = [rollback EXCEPT ![h] = FALSE]

\* The files that change c is about, and their states on its two sides.
FilesOf(c) == {f \in Files : changes[c].before[f] # changes[c].after[f]}
Side(c, after, f) == IF after THEN changes[c].after[f] ELSE changes[c].before[f]

\* restoreTargetState and restoreConflictState: what a handler writes, and what
\* it must find.  A rollback goes the other way.
UseAfter(h) == redo[h] # rollback[h]
Target(h, f) == Side(change[h], UseAfter(h), f)
Current(h, f) == Side(change[h], ~UseAfter(h), f)

\* The log with another event, and the files it now tells of.
Append1(type, c) == Append(log, [type |-> type, change |-> c])
Told(c, after) == [f \in Files |-> IF f \in FilesOf(c) THEN Side(c, after, f) ELSE expect[f]]

-----------------------------------------------------------------------------
\* The session's run.
RunBegins ==
    /\ run = "idle"
    /\ run' = "running"
    /\ Crowded(InFlight # {})
    /\ UNCHANGED <<workspace, before, handler, requests, edits, faults, restarts, expect>>

RunEnds ==
    /\ run = "running"
    /\ run' = "idle"
    /\ UNCHANGED <<workspace, before, handler, bounds, expect>>

\* A tool attempt: the snapshot of checkpoint.Begin, then the tool's writes.
ToolBegins ==
    /\ run = "running" /\ Len(changes) < MaxChanges
    /\ before' = disk
    /\ run' = "tool"
    /\ UNCHANGED <<workspace, handler, bounds, expect>>

ToolWrites ==
    /\ run = "tool"
    /\ \E d \in States : disk' = d /\ \A f \in Files : d[f] \in Holds[f]
    /\ hidden' \in SUBSET Directories(disk')
    /\ <<disk, hidden>>' # <<disk, hidden>>
    /\ run' = "written"
    /\ UNCHANGED <<log, changes, before, handler, bounds, expect>>

\* Tracker.Complete and recordTurnChange: if the files differ from the snapshot,
\* the checkpoint is stored and its event published.  An event that cannot be
\* recorded stops the run, its line in the log or not; a checkpoint that cannot be
\* made or stored is only noted in the tool's result.
ToolRecords ==
    /\ run = "written"
    /\ IF before = disk
       THEN run' = "running" /\ UNCHANGED <<log, changes, faults, expect>>
       ELSE LET c == Len(changes) + 1
                known == /\ log' = Append1("recorded", c)
                         /\ expect' = [f \in Files |-> IF before[f] # disk[f] THEN disk[f] ELSE expect[f]]
                stored == changes' = Append(changes, [before |-> before, after |-> disk])
            IN \/ stored /\ known /\ run' = "running" /\ UNCHANGED faults
               \/ /\ Mishaps < MaxMishaps /\ faults' = faults + 1
                  /\ \/ stored /\ run' = "idle" /\ (known \/ UNCHANGED <<log, expect>>)
                     \/ run' = "running" /\ UNCHANGED <<changes, log, expect>>
    /\ before' = Nothing
    /\ UNCHANGED <<disk, hidden, handler, requests, edits, restarts, overlaps>>

\* The user, or another session.
Edit ==
    /\ Mishaps < MaxMishaps
    /\ \E f \in Files, c \in Contents :
         /\ c \in Holds[f]
         /\ disk' = [disk EXCEPT ![f] = c]
         /\ hidden' \in {hidden \ {f}, hidden \union {f}} /\ hidden' \subseteq Directories(disk')
         /\ expect' = [expect EXCEPT ![f] = c]
    /\ edits' = edits + 1
    /\ UNCHANGED <<log, changes, attempt, handler, requests, faults, restarts, overlaps>>

-----------------------------------------------------------------------------
\* A handler refuses while the session has a run.
CheckIdle(h) ==
    /\ pc[h] = "new" /\ run = "idle" /\ requests < MaxRequests
    /\ requests' = requests + 1
    /\ Goto(h, "find")
    /\ \E r \in BOOLEAN : redo' = [redo EXCEPT ![h] = r]
    /\ Crowded(InFlight # {})
    /\ UNCHANGED <<workspace, attempt, change, todo, conflict, rollback, edits, faults, restarts,
                   expect>>

LogsOf(c) == {i \in 1..Len(log) : log[i].change = c}
Applied(c) == LogsOf(c) # {} /\ log[Max(LogsOf(c))].type = "recorded"

\* Mutant: the oldest change first.
OldestApplied(named) ==
    IF named # 0 THEN {c \in {named} : Applied(c)}
    ELSE {c \in 1..Len(changes) : Applied(c) /\ \A d \in 1..(c - 1) : ~Applied(d)}

\* FindUndoableTurnChange, of a named change or of the last applied one.
Undoable(named) ==
    IF named # 0 THEN {c \in {named} : Applied(c)}
    ELSE {c \in 1..Len(changes) : Applied(c) /\ \A d \in (c + 1)..Len(changes) : ~Applied(d)}

\* FindRedoTurnChange: the last reverted change, unless one was recorded since.
Redoable ==
    {c \in 1..Len(changes) : log # <<>> /\ log[Len(log)] = [type |-> "reverted", change |-> c]}

Find(h) ==
    /\ pc[h] = "find"
    /\ \E named \in 0..Len(changes) :
         /\ redo[h] => named = 0
         /\ LET found == IF redo[h] THEN Redoable ELSE Undoable(named)
            IN \/ found = {} /\ Answer(h)
               \/ \E c \in found :
                    /\ change' = [change EXCEPT ![h] = c]
                    /\ todo' = [todo EXCEPT ![h] = FilesOf(c)]
                    /\ Goto(h, "check")
                    /\ UNCHANGED <<redo, conflict, rollback>>
         /\ marks' = marks \union (IF named # 0 THEN {"named"} ELSE {})
    /\ UNCHANGED <<workspace, attempt, bounds, expect>>

\* Mutant: it is enough that the file still exists.
StillThere(h, f) == (disk[f] = "absent") = (Current(h, f) = "absent")

\* restoreConflicts, of one file.  What a checkpoint cannot bring back is refused
\* (restorableTarget), and a directory that would go with entries that the change does
\* not name (extraDirEntries).
Irreversible(h, f) ==
    \/ Target(h, f) \in Opaque \union {"special"}
    \/ Target(h, f) = "absent" /\ f \in hidden
Fits(h, f) == disk[f] = Current(h, f) /\ ~Irreversible(h, f)

CheckFile(h) ==
    /\ pc[h] = "check"
    /\ \E f \in todo[h] :
         LET bad == conflict[h] \/ ~Fits(h, f)
             rest == todo[h] \ {f}
         IN IF bad /\ rest = {} THEN Answer(h)
            ELSE /\ conflict' = [conflict EXCEPT ![h] = bad]
                 /\ todo' = [todo EXCEPT ![h] = IF rest = {} THEN FilesOf(change[h]) ELSE rest]
                 /\ Goto(h, IF rest = {} THEN "write" ELSE "check")
                 /\ UNCHANGED <<redo, change, rollback>>
    /\ UNCHANGED <<workspace, attempt, bounds, expect>>

\* restoreOne, the files to remove first.
Removed(h, f) == Target(h, f) = "absent"

\* A path that is not what the check let pass: a directory that is not empty stays, and
\* neither a file nor a directory is put in the place of the other, or of a link.
Obstructed(h, f) ==
    IF Removed(h, f) THEN f \in hidden
    ELSE \/ disk[f] = "special"
         \/ disk[f] # "absent" /\ (disk[f] = "dir") # (Target(h, f) = "dir")

Due(h, f) == Removed(h, f) \/ \A g \in todo[h] : ~Removed(h, g)

WriteFile(h) ==
    /\ pc[h] = "write"
    /\ \E f \in todo[h] :
         /\ Due(h, f) /\ ~Obstructed(h, f)
         /\ disk' = [disk EXCEPT ![f] = Target(h, f)]
         /\ IF todo[h] = {f} /\ rollback[h] THEN Answer(h)
            ELSE /\ todo' = [todo EXCEPT ![h] = @ \ {f}]
                 /\ Goto(h, IF todo[h] = {f} THEN "publish" ELSE "write")
                 /\ UNCHANGED <<redo, change, conflict, rollback>>
    /\ UNCHANGED <<hidden, log, changes, attempt, bounds, expect>>

\* An error ends the restore, or its rollback, where it is.
WriteFails(h) ==
    /\ pc[h] = "write"
    /\ \/ Mishaps < MaxMishaps /\ faults' = faults + 1
       \/ (\E f \in todo[h] : Due(h, f) /\ Obstructed(h, f)) /\ UNCHANGED faults
    /\ Answer(h)
    /\ UNCHANGED <<workspace, attempt, requests, edits, restarts, overlaps, expect>>

\* The event that records what was done.
Known(h) ==
    /\ log' = Append1(IF redo[h] THEN "recorded" ELSE "reverted", change[h])
    /\ expect' = Told(change[h], redo[h])

Publish(h) ==
    /\ pc[h] = "publish"
    /\ Known(h)
    /\ Answer(h)
    /\ UNCHANGED <<disk, hidden, changes, attempt, bounds>>

\* Mutant: the files are left as they are.
NoRollBack(h) == Answer(h)

\* The opposite restore, with its own check.
RollBack(h) ==
    /\ rollback' = [rollback EXCEPT ![h] = TRUE]
    /\ todo' = [todo EXCEPT ![h] = FilesOf(change[h])]
    /\ Goto(h, "check")
    /\ UNCHANGED <<redo, change, conflict>>

\* The append fails, before or after its line is in the file.
PublishFails(h) ==
    /\ pc[h] = "publish" /\ Mishaps < MaxMishaps
    /\ faults' = faults + 1
    /\ RollBack(h)
    /\ Known(h) \/ UNCHANGED <<log, expect>>
    /\ UNCHANGED <<disk, hidden, changes, attempt, requests, edits, restarts, overlaps>>

\* A restart: the files and the log are what they are.
Crash ==
    /\ Mishaps < MaxMishaps
    /\ restarts' = restarts + 1
    /\ run' = "idle"
    /\ pc' = [h \in Requests |-> "new"]
    /\ redo' = [h \in Requests |-> FALSE] /\ conflict' = redo' /\ rollback' = redo'
    /\ change' = [h \in Requests |-> 0]
    /\ todo' = [h \in Requests |-> {}]
    /\ before' = Nothing
    /\ UNCHANGED <<workspace, requests, edits, faults, overlaps, expect>>

-----------------------------------------------------------------------------
\* The marks are history: what has happened that makes the log a poor witness.
Edited == edits' # edits
Ends(h) == pc[h] # "new" /\ pc'[h] = "new"
Failed == faults' # faults
Refused(h) == pc[h] = "check" /\ Ends(h)
CutShort(h) == pc[h] = "write" /\ Ends(h) /\ (Failed \/ \E f \in todo[h] : Obstructed(h, f))

Marked ==
    {m \in {"edit", "overlap", "race", "partial", "stuck", "unsure", "unrecorded", "crash"} :
        CASE m = "edit" -> Edited
          [] m = "overlap" -> Cardinality(InFlight') > 1 \/ (InFlight' # {} /\ run' # "idle")
          [] m = "race" -> \/ Cardinality(Restoring') > 1
                           \/ Restoring' # {} /\ AtFiles'
                           \/ Edited /\ (Restoring # {} \/ AtFiles)
          [] m = "partial" -> \E h \in Requests : CutShort(h) /\ ~rollback[h]
          [] m = "stuck" -> \E h \in Restoring : rollback[h] /\ (CutShort(h) \/ Refused(h))
          [] m = "unsure" -> Failed /\ log' # log
          [] m = "unrecorded" -> run = "written" /\ (Failed \/ run' = "idle") /\ log' = log
          [] m = "crash" -> restarts' # restarts /\ Restoring # {}}

HandlerStep(h) ==
    \/ CheckIdle(h) \/ CheckFile(h) \/ WriteFile(h) \/ WriteFails(h)
    \/ Publish(h) \/ PublishFails(h)

UndoNext ==
    \/ /\ \/ RunBegins \/ RunEnds \/ ToolBegins \/ ToolWrites \/ ToolRecords \/ Edit \/ Crash
          \/ \E h \in Requests : HandlerStep(h)
       /\ marks' = marks \union Marked
    \/ \E h \in Requests : Find(h)

UndoSpec == UndoInit /\ [][UndoNext]_undoVars

-----------------------------------------------------------------------------
Quiet == InFlight = {} /\ run = "idle"

\* When nothing is going on, the files are what the log (and the edits of others)
\* tell, whatever undo, redo, conflict, failed append and rollback came before:
\* unless two actors were at the files at a time, a restore stopped halfway or
\* could not be rolled back, an append failed after its line was written, or a
\* crash or a failure cut a restore or a tool attempt off.
LogTellsTheFiles ==
    Quiet /\ marks \subseteq {"edit", "named", "overlap"} => disk = expect

\* A restore overwrites nothing but what its checkpoint has recorded: an edit made
\* before the handler came to the files is never lost, in an undo, a redo or a
\* rollback.
OverwritesOnlyRecorded ==
    [][\A h \in Requests, f \in Files :
         /\ pc[h] = "write" /\ f \in todo[h] /\ disk'[f] # disk[f]
         /\ "race" \notin marks'
         => disk[f] = Current(h, f)]_undoVars

\* A session that undoes its last change and redoes what it undid, with nobody
\* else at the files, is never told that a file changed after the checkpoint: what it is
\* refused for is in the change itself, through any sequence of new changes, undos and
\* redos.
OwnUndoNeverConflicts ==
    [][\A h \in Requests :
         pc[h] = "check" /\ Ends(h) /\ marks' = {}
         => \E f \in FilesOf(change[h]) : Irreversible(h, f)]_undoVars
=============================================================================
