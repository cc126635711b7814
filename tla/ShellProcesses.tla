---------------------------- MODULE ShellProcesses ----------------------------
(***************************************************************************)
(* The managed background shells (internal/tools/shell_process.go): one    *)
(* registry, shared by the sessions of a gateway, from which tools start,  *)
(* read and kill processes, and which Close ends.                          *)
(*                                                                         *)
(* A process is more than one: its command and what the command has        *)
(* started are in a process group of their own, "inside"; a descendant may *)
(* leave the group and still hold the pipe of the output, "outside".  Wait *)
(* returns when both are gone.                                             *)
(***************************************************************************)
EXTENDS Naturals, Sequences, FiniteSets, SequencesExt

CONSTANTS
    Starters,   \* tool calls that may be in startManagedShell at a time
    Killers,    \* tool calls that may be in handleShellKill
    Close,      \* the caller of Registry.Close
    MaxLive,    \* maxManagedShellProcesses
    MaxBuffer,  \* maxManagedShellBuffer
    MaxRead,    \* maxExecOutput
    MaxStarts,  \* bound: ids given
    Talkers,    \* bound: the processes that write output
    MaxBytes    \* bound: bytes that each of them writes

ASSUME StartersAssumption == IsFiniteSet(Starters) /\ Starters # {} /\ MaxLive \in Nat
ASSUME SizesAssumption == MaxBuffer \in Nat /\ MaxRead \in Nat /\ MaxStarts \in Nat /\ MaxBytes \in Nat

VARIABLES
    shellSeq,       \* ids given
    shellProcesses, \* the registry's map: the ids that are in it
    starting,       \* by starter: the id it has taken, or NoId
    started,        \* the ids whose command's Start has succeeded
    inside, outside,    \* the processes with a living member in, and out of, their group
    exited,         \* what Wait has recorded
    term,           \* by killer and for Close: the process it terminates and where it is
    toClose,        \* what Close has still to terminate
    buf, base, next,    \* by id: shellOutputBuffer; a byte is its position in the output
    \* a reader of each process, which passes the next_cursor it was given last
    cursor, got, dropped

registry == <<shellSeq, shellProcesses, starting>>
system == <<started, inside, outside, exited>>
closing == <<term, toClose>>
buffer == <<buf, base, next>>
reader == <<cursor, got, dropped>>
vars == <<registry, system, closing, buffer, reader>>

Ids == 1..MaxStarts
NoId == 0
Terminators == Killers \union {Close}
Idle == [at |-> "idle", id |-> NoId]

InFlight == {starting[s] : s \in Starters} \ {NoId}
Running == shellProcesses \ exited

Init == /\ shellSeq = 0 /\ shellProcesses = {} /\ starting = [s \in Starters |-> NoId]
        /\ started = {} /\ inside = {} /\ outside = {} /\ exited = {}
        /\ term = [t \in Terminators |-> Idle] /\ toClose = {}
        /\ buf = [p \in Ids |-> <<>>] /\ base = [p \in Ids |-> 0] /\ next = base
        /\ cursor = base /\ got = buf /\ dropped = base

-----------------------------------------------------------------------------
\* pruneManagedShellLocked, of a registry with twice as many processes as may run.
Pruned == IF Cardinality(shellProcesses) < 2 * MaxLive THEN shellProcesses
          ELSE shellProcesses \ exited

\* Mutant: the comparison is with >, one process too late.
RoomForOneMore == Cardinality(Running) <= MaxLive

RoomToStart == Cardinality(Running) < MaxLive

\* startManagedShell: the count and the id in one critical section ...
TakeId(s) ==
    /\ starting[s] = NoId /\ shellSeq < MaxStarts
    /\ shellProcesses' = Pruned
    /\ IF RoomToStart
       THEN /\ shellSeq' = shellSeq + 1
            /\ starting' = [starting EXCEPT ![s] = shellSeq']
       ELSE UNCHANGED <<shellSeq, starting>>
    /\ UNCHANGED <<system, closing, buffer, reader>>

\* ... the command's start outside of it, which may fail ...
StartCommand(s) ==
    /\ starting[s] # NoId /\ starting[s] \notin started
    /\ started' = started \union {starting[s]}
    /\ inside' = inside \union {starting[s]}
    /\ UNCHANGED <<registry, outside, exited, closing, buffer, reader>>

StartFails(s) ==
    /\ starting[s] # NoId /\ starting[s] \notin started
    /\ starting' = [starting EXCEPT ![s] = NoId]
    /\ UNCHANGED <<shellSeq, shellProcesses, system, closing, buffer, reader>>

\* ... and the registration in another one.
Register(s) ==
    /\ starting[s] \in started
    /\ shellProcesses' = shellProcesses \union {starting[s]}
    /\ starting' = [starting EXCEPT ![s] = NoId]
    /\ UNCHANGED <<shellSeq, system, closing, buffer, reader>>

\* wait, which runs once the process is registered.
Wait(p) ==
    /\ p \in started \ (inside \union outside \union InFlight \union exited)
    /\ exited' = exited \union {p}
    /\ UNCHANGED <<registry, started, inside, outside, closing, buffer, reader>>

-----------------------------------------------------------------------------
\* The operating system.
Detach(p) ==
    /\ p \in inside
    /\ outside' = outside \union {p}
    /\ UNCHANGED <<registry, started, inside, exited, closing, buffer, reader>>

GroupEnds(p) ==
    /\ p \in inside
    /\ inside' = inside \ {p}
    /\ UNCHANGED <<registry, started, outside, exited, closing, buffer, reader>>

DescendantEnds(p) ==
    /\ p \in outside
    /\ outside' = outside \ {p}
    /\ UNCHANGED <<registry, started, inside, exited, closing, buffer, reader>>

-----------------------------------------------------------------------------
\* handleShellKill, of a process that has not exited: SIGTERM, and then a look at
\* the process every 10 ms.
Kill(k, p) ==
    /\ term[k] = Idle /\ p \in Running
    /\ term' = [term EXCEPT ![k] = [at |-> "grace", id |-> p]]
    /\ UNCHANGED <<registry, system, toClose, buffer, reader>>

\* closeManagedShellProcesses: a snapshot of the registry, and then one process
\* after the other.
BeginClose ==
    /\ term[Close] = Idle /\ toClose = {} /\ shellProcesses # {}
    /\ toClose' = shellProcesses
    /\ UNCHANGED <<registry, system, term, buffer, reader>>

CloseOne(p) ==
    /\ term[Close] = Idle /\ p \in toClose
    /\ toClose' = toClose \ {p}
    /\ term' = IF p \in exited THEN term
               ELSE [term EXCEPT ![Close] = [at |-> "grace", id |-> p]]
    /\ UNCHANGED <<registry, system, buffer, reader>>

\* Mutant: SIGTERM is believed to have done it.
NoSignal(p) == inside

\* SIGKILL to the group: what has left it is not reached.
Killed(p) == inside \ {p}

\* terminateManagedShellProcess returns: the process has exited, or the grace
\* period is over.
Terminated(t) ==
    /\ term[t] # Idle
    /\ inside' = IF term[t].id \in exited THEN inside ELSE Killed(term[t].id)
    /\ term' = [term EXCEPT ![t] = Idle]
    /\ UNCHANGED <<registry, started, outside, exited, toClose, buffer, reader>>

-----------------------------------------------------------------------------
Positions(first, last) == [i \in 1..(last + 1 - first) |-> first + i - 1]
Larger(a, b) == IF a > b THEN a ELSE b

\* shellOutputBuffer.Write, of n bytes.
Write(p, n) ==
    /\ p \in (inside \union outside) \intersect Talkers /\ next[p] + n <= MaxBytes
    /\ next' = [next EXCEPT ![p] = @ + n]
    /\ LET all == buf[p] \o Positions(next[p] + 1, next[p] + n)
           drop == Larger(Len(all) - MaxBuffer, 0)
       IN /\ buf' = [buf EXCEPT ![p] = SubSeq(all, drop + 1, Len(all))]
          /\ base' = [base EXCEPT ![p] = @ + drop]
    /\ UNCHANGED <<registry, system, closing, reader>>

\* Mutant: the cursor is taken for an offset into the buffer.
OffsetOfCursor(p) == cursor[p]

\* shellOutputBuffer.read: where the answer begins, and where in the buffer that is.
Start(p) == Larger(cursor[p], base[p])
Offset(p) == Start(p) - base[p]

\* handleShellOutput, without tail_bytes, of the reader that goes on where its last
\* answer ended.
Read(p) ==
    /\ p \in shellProcesses
    /\ LET rest == SubSeq(buf[p], Offset(p) + 1, Len(buf[p]))
           out == SubSeq(rest, 1, IF Len(rest) > MaxRead THEN MaxRead ELSE Len(rest))
       IN /\ got' = [got EXCEPT ![p] = @ \o out]
          /\ cursor' = [cursor EXCEPT ![p] = Start(p) + Len(out)]
    /\ dropped' = [dropped EXCEPT ![p] = @ + Start(p) - cursor[p]]
    /\ UNCHANGED <<registry, system, closing, buffer>>

-----------------------------------------------------------------------------
Next ==
    \/ \E s \in Starters : TakeId(s) \/ StartCommand(s) \/ StartFails(s) \/ Register(s)
    \/ \E p \in Ids : Wait(p) \/ Detach(p) \/ GroupEnds(p) \/ DescendantEnds(p)
    \/ \E k \in Killers, p \in Ids : Kill(k, p)
    \/ BeginClose
    \/ \E p \in Ids : CloseOne(p)
    \/ \E t \in Terminators : Terminated(t)
    \/ \E p \in Ids, n \in 1..MaxBytes : Write(p, n)
    \/ \E p \in Ids : Read(p)

Spec == Init /\ [][Next]_vars

\* The goroutines of the registry are scheduled.  Nothing is asked of the
\* processes: they need not end by themselves, nor heed a SIGTERM.
FairSpec ==
    /\ Spec
    /\ \A s \in Starters : WF_vars(StartCommand(s) \/ StartFails(s) \/ Register(s))
    /\ \A p \in Ids : WF_vars(Wait(p)) /\ WF_vars(CloseOne(p))
    /\ \A t \in Terminators : WF_vars(Terminated(t))

-----------------------------------------------------------------------------
\* Every variable has its type.
TypeOK ==
    /\ shellSeq \in 0..MaxStarts
    /\ shellProcesses \subseteq Ids
    /\ starting \in [Starters -> Ids \union {NoId}]
    /\ started \subseteq Ids /\ inside \subseteq started
    /\ outside \subseteq started /\ exited \subseteq started
    /\ term \in [Terminators -> [at : {"idle", "grace"}, id : Ids \union {NoId}]]
    /\ toClose \subseteq Ids
    /\ base \in [Ids -> Nat] /\ next \in [Ids -> Nat] /\ cursor \in [Ids -> Nat]
    /\ dropped \in [Ids -> Nat]
    /\ buf \in [Ids -> Seq(Nat)] /\ got \in [Ids -> Seq(Nat)]

\* The count that startManagedShell takes is old by the time its process is
\* registered, so maxManagedShellProcesses is no bound of the live processes; it is
\* one together with the starts that run at the same time.
LiveBound ==
    Cardinality(Running) + Cardinality(InFlight) <= MaxLive + Cardinality(Starters) - 1

\* A process that lives, a descendant that has left its group included, can still
\* be read and killed: its id is in the registry, or about to be.
LiveStaysListed == (started \ exited) \subseteq shellProcesses \union InFlight

\* A reader that follows next_cursor gets every byte of the output once and in
\* order, but for those that dropped_bytes has told it of, which the process had
\* outrun by a whole buffer.
ReadsAccounted ==
    \A p \in Ids :
        /\ Len(got[p]) + dropped[p] = cursor[p]
        /\ \A i, j \in DOMAIN got[p] : i < j => got[p][i] < got[p][j]
        /\ \A b \in 1..cursor[p] : b \in ToSet(got[p]) \/ b + MaxBuffer <= next[p]

\* What shell_kill or Close has set out to end does end, though it ignores SIGTERM,
\* unless one of its descendants has left the process group: then the process counts
\* as running for as long as that one lives.
TerminatedEnds ==
    \A p \in Ids :
        (p \in toClose \/ \E t \in Terminators : term[t].id = p) ~> p \in exited \union outside
=============================================================================
