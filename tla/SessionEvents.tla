---------------------------- MODULE SessionEvents ----------------------------
(***************************************************************************)
(* How a session's run events reach its durable log (session_events.go,    *)
(* AppendEvent in session_store.go, the emit closure of                    *)
(* runAdmittedSessionInput).  The runner's goroutine and the requests that *)
(* abort or interrupt it all go through observeRunEvent, which decides     *)
(* under the session's mutex and records under the store's, with a gap in  *)
(* between: every step here is one of those critical sections.  A run's    *)
(* number is given out when its input is promoted (session_inputs.go),     *)
(* before anything else is known of the run.                               *)
(***************************************************************************)
EXTENDS Naturals, Sequences, FiniteSets

CONSTANTS
    Runs,       \* run requests; each has a run id of its own
    Aborters,   \* cancel requests, interrupting run requests, the shutdown
    MaxFaults,  \* bound: appends to events.jsonl that fail
    MaxCrashes, \* bound: restarts of the gateway
    Nil

ASSUME NilAssumption == Nil \notin Runs

VARIABLES
    holder,     \* the run that has the run thread, or Nil (module RunSlot)
    cancelled,  \* the runs whose context has been cancelled
    activeRun,  \* Session.activeRunID
    terminal,   \* Session.terminalRunIDs
    runSeq,     \* Session.status.RunSeq
    given,      \* the highest run number in the ledger of inputs
    promised,   \* the number each run's input was promoted with, 0 before
    log,        \* events.jsonl: type, run id, and the record's run sequence
    lifecycle,  \* what the store's validator has observed: event types of runs
    rpc,        \* where each run is
    failed,     \* the runs with a persistenceErr: their later events are dropped
    apc,        \* where each aborter is
    target,     \* the run whose failure it reports
    waitsFor,   \* the run whose end CancelAndWait waits for
    faults, crashes,
    \* history
    early,      \* runs whose failure was reported before their start was recorded
    overtaken   \* runs still to start when one with a higher number began

session == <<activeRun, terminal, runSeq>>
ledger == <<given, promised>>
store == <<log, lifecycle>>
aborter == <<apc, target, waitsFor>>
bounds == <<faults, crashes>>
history == <<early, overtaken>>
aside == <<ledger, bounds, history>>     \* what most steps leave alone
vars == <<holder, cancelled, session, ledger, store, rpc, failed, aborter, bounds, history>>

-----------------------------------------------------------------------------
Init == /\ holder = Nil /\ cancelled = {} /\ activeRun = Nil /\ terminal = {}
        /\ runSeq = 0 /\ given = 0 /\ promised = [r \in Runs |-> 0]
        /\ log = <<>> /\ lifecycle = {} /\ failed = {} /\ early = {} /\ overtaken = {}
        /\ faults = 0 /\ crashes = 0
        /\ rpc = [r \in Runs |-> "new"]
        /\ apc = [a \in Aborters |-> "new"]
        /\ target = [a \in Aborters |-> Nil]
        /\ waitsFor = [a \in Aborters |-> Nil]

RunGoto(r, label) == rpc' = [rpc EXCEPT ![r] = label]
AbortGoto(a, label) == apc' = [apc EXCEPT ![a] = label]

Logged(type, r) == \E i \in 1..Len(log) : log[i].type = type /\ log[i].run = r
Terminals == {"run.completed", "run.failed"}

\* LifecycleValidator.Observe, for the events of this model.
Observed(type, r) == <<type, r>> \in lifecycle
LifecycleAllows(type, r) ==
    /\ type \in Terminals \union {"progress"} => Observed("run.started", r)
    /\ type \in Terminals => ~\E t \in Terminals : Observed(t, r)

\* AppendEvent: the next record, stamped with the run sequence of this moment.
Written(type, r) == log' = Append(log, [type |-> type, run |-> r, seq |-> runSeq])
Observing(type, r) == lifecycle' = lifecycle \union {<<type, r>>}

Appended(type, r) ==
    LifecycleAllows(type, r) /\ Written(type, r) /\ Observing(type, r) /\ UNCHANGED faults

\* Its errors: the lifecycle forbids the event; the disk fails before the record
\* is in the file, or after it (the fsync, or the manifest, which is written when
\* the validator has moved on).
Rejected(type, r) ==
    \/ ~LifecycleAllows(type, r) /\ UNCHANGED <<store, faults>>
    \/ /\ faults < MaxFaults /\ faults' = faults + 1
       /\ \/ UNCHANGED store
          \/ /\ LifecycleAllows(type, r) /\ Written(type, r)
             /\ Observing(type, r) \/ UNCHANGED lifecycle

-----------------------------------------------------------------------------
\* A run.  Its input is promoted with the number after the highest that either
\* the session's status or the ledger knows (nextSessionInputRunSeq).  A ledger
\* append that fails ends the request, its record in the file or not.
Greater(m, n) == IF m > n THEN m ELSE n
NextNumber == 1 + Greater(runSeq, given)

Promote(r) ==
    /\ rpc[r] = "new"
    /\ given' = NextNumber /\ promised' = [promised EXCEPT ![r] = NextNumber]
    /\ RunGoto(r, "promoted")
    /\ UNCHANGED <<holder, cancelled, session, store, failed, aborter, bounds, history>>

PromoteFails(r) ==
    /\ rpc[r] = "new" /\ faults < MaxFaults /\ faults' = faults + 1
    /\ given' \in {given, NextNumber}
    /\ RunGoto(r, "done")
    /\ UNCHANGED <<holder, cancelled, session, promised, store, failed, aborter, crashes, history>>

\* RunMessage takes the thread, or finds it taken: the number is never used then.
Start(r) ==
    /\ rpc[r] = "promoted" /\ holder = Nil
    /\ holder' = r
    /\ RunGoto(r, "begin")
    /\ UNCHANGED <<cancelled, session, store, failed, aborter, aside>>

Refuse(r) ==
    /\ rpc[r] = "promoted" /\ holder # Nil
    /\ RunGoto(r, "done")
    /\ UNCHANGED <<holder, cancelled, session, store, failed, aborter, aside>>

\* The runs whose input was promoted before that of r, and which are still to start.
Overtakes(r) ==
    overtaken' = overtaken \union {q \in Runs : rpc[q] = "promoted" /\ promised[q] < promised[r]}

\* Mutant: the run sequence only counts, whatever number the input was promoted with.
BeginCounting(r) ==
    /\ rpc[r] = "begin"
    /\ runSeq' = runSeq + 1 /\ Overtakes(r)
    /\ RunGoto(r, "record status")
    /\ UNCHANGED <<holder, cancelled, activeRun, terminal, ledger, store, failed, aborter, bounds,
                   early>>

\* run.started: beginRunStatus under the mutex, then its session.status event,
\* then activeRunID under the mutex, then the run.started event.
BeginStatus(r) ==
    /\ rpc[r] = "begin"
    /\ runSeq' = Greater(promised[r], runSeq + 1) /\ Overtakes(r)
    /\ RunGoto(r, "record status")
    /\ UNCHANGED <<holder, cancelled, activeRun, terminal, ledger, store, failed, aborter, bounds,
                   early>>

SetActive(r) ==
    /\ rpc[r] = "set active"
    /\ activeRun' = r
    /\ RunGoto(r, "record start")
    /\ UNCHANGED <<holder, cancelled, terminal, runSeq, store, failed, aborter, aside>>

\* One of the runner's appends.  An error marks the session (activeRunID is
\* forgotten), cancels the run and silences the rest of its events.
Record(r, type, from, to) ==
    /\ rpc[r] = from
    /\ \/ /\ Appended(type, r)
          /\ RunGoto(r, to)
          /\ UNCHANGED <<activeRun, failed, cancelled>>
       \/ /\ Rejected(type, r)
          /\ activeRun' = Nil
          /\ failed' = failed \union {r} /\ cancelled' = cancelled \union {r}
          /\ RunGoto(r, "returned")
    /\ UNCHANGED <<holder, terminal, runSeq, aborter, crashes, ledger, history>>

RecordBeginStatus(r) == Record(r, "session.status", "record status", "set active")
RecordStart(r)       == Record(r, "run.started", "record start", "working")
RecordProgress(r)    == Record(r, "progress", "working", "worked")
RecordCompleted(r)   == Record(r, "run.completed", "record completed", "record end status")
RecordFailed(r)      == Record(r, "run.failed", "record failed", "record end status")
RecordEndStatus(r)   == Record(r, "session.status", "record end status", "returned")

\* Mutants: nothing is a duplicate; any terminal run makes one.
NoDuplicate(r) == FALSE
AnyDuplicate(r) == terminal # {}

\* observeRunEvent, of a terminal event of run r.
Duplicate(r) == r \in terminal
ForgetActive(r) == IF activeRun = r THEN Nil ELSE activeRun

\* The runner's own run.completed or run.failed: under the mutex, a run that is
\* terminal already drops it; otherwise the run becomes terminal.
ObserveEnd(r) ==
    /\ rpc[r] \in {"working", "worked"}
    /\ IF Duplicate(r)
       THEN RunGoto(r, "returned") /\ UNCHANGED <<terminal, activeRun>>
       ELSE /\ terminal' = terminal \union {r}
            /\ activeRun' = ForgetActive(r)
            /\ \/ RunGoto(r, "record failed")
               \/ r \notin cancelled /\ RunGoto(r, "record completed")
    /\ UNCHANGED <<holder, cancelled, runSeq, store, failed, aborter, aside>>

\* RunMessage gives the thread back.
FinishRun(r) ==
    /\ rpc[r] = "returned"
    /\ holder' = Nil
    /\ RunGoto(r, "done")
    /\ UNCHANGED <<cancelled, session, store, failed, aborter, aside>>

-----------------------------------------------------------------------------
\* abortActiveRun and interruptActiveRunAndWait: Thread.Running, then the
\* active run id, then a run.failed in its name, then the cancellation.
CheckRunning(a) ==
    /\ apc[a] = "new"
    /\ AbortGoto(a, IF holder = Nil THEN "done" ELSE "snapshot")
    /\ UNCHANGED <<holder, cancelled, session, store, rpc, failed, target, waitsFor, aside>>

SnapshotActive(a) ==
    /\ apc[a] = "snapshot"
    /\ target' = [target EXCEPT ![a] = activeRun]
    /\ AbortGoto(a, IF activeRun = Nil THEN "cancel" ELSE "observe")
    /\ UNCHANGED <<holder, cancelled, session, store, rpc, failed, waitsFor, aside>>

ObserveAbort(a) ==
    /\ apc[a] = "observe"
    /\ IF Duplicate(target[a])
       THEN AbortGoto(a, "cancel") /\ UNCHANGED <<terminal, activeRun>>
       ELSE /\ terminal' = terminal \union {target[a]}
            /\ activeRun' = ForgetActive(target[a])
            /\ AbortGoto(a, "record")
    /\ UNCHANGED <<holder, cancelled, runSeq, store, rpc, failed, target, waitsFor, aside>>

\* Its appends.  An error marks the session, and the request only cancels.
RecordAbort(a, type, from, to) ==
    /\ apc[a] = from
    /\ \/ Appended(type, target[a]) /\ AbortGoto(a, to) /\ UNCHANGED activeRun
       \/ Rejected(type, target[a]) /\ AbortGoto(a, "cancel") /\ activeRun' = Nil
    /\ early' = IF Logged("run.started", target[a]) THEN early ELSE early \union {target[a]}
    /\ UNCHANGED <<holder, cancelled, terminal, runSeq, ledger, rpc, failed, target, waitsFor, crashes,
                   overtaken>>

RecordAbortFailed(a) == RecordAbort(a, "run.failed", "record", "record status")
RecordAbortStatus(a) == RecordAbort(a, "session.status", "record status", "cancel")

\* Mutant: only the run that was reported is cancelled.
CancelReported(a) ==
    /\ apc[a] = "cancel"
    /\ cancelled' = cancelled \union ({target[a]} \ {Nil})
    /\ waitsFor' = [waitsFor EXCEPT ![a] = holder]
    /\ AbortGoto(a, IF holder = Nil THEN "done" ELSE "wait")
    /\ UNCHANGED <<holder, session, store, rpc, failed, target, aside>>

\* Thread.Cancel or Thread.CancelAndWait: whichever run has the thread by now.
CancelThread(a) ==
    /\ apc[a] = "cancel"
    /\ cancelled' = cancelled \union ({holder} \ {Nil})
    /\ waitsFor' = [waitsFor EXCEPT ![a] = holder]
    /\ AbortGoto(a, IF holder = Nil THEN "done" ELSE "wait")
    /\ UNCHANGED <<holder, session, store, rpc, failed, target, aside>>

\* The run waited for is over, or nobody waits for it, or the wait timed out.
WaitDone(a) ==
    /\ apc[a] = "wait" /\ rpc[waitsFor[a]] = "done"
    /\ AbortGoto(a, "done")
    /\ UNCHANGED <<holder, cancelled, session, store, rpc, failed, target, waitsFor, aside>>

WaitTimeout(a) ==
    /\ apc[a] = "wait"
    /\ AbortGoto(a, "done")
    /\ UNCHANGED <<holder, cancelled, session, store, rpc, failed, target, waitsFor, aside>>

RunStep(r) ==
    \/ Promote(r) \/ PromoteFails(r) \/ Start(r) \/ Refuse(r)
    \/ BeginStatus(r) \/ RecordBeginStatus(r) \/ SetActive(r) \/ RecordStart(r)
    \/ RecordProgress(r) \/ ObserveEnd(r) \/ RecordCompleted(r) \/ RecordFailed(r)
    \/ RecordEndStatus(r) \/ FinishRun(r)

AbortStep(a) ==
    \/ CheckRunning(a) \/ SnapshotActive(a) \/ ObserveAbort(a) \/ RecordAbortFailed(a)
    \/ RecordAbortStatus(a) \/ CancelThread(a) \/ WaitDone(a)

\* The gateway stops and starts again: the goroutines and the fields of Session
\* are gone, the run sequence is the highest one any record of the log carries
\* (replaySessionStatus), the validator has observed what is in the log, and the
\* ledger may be lost (module SessionInputs).
Restored ==
    {n \in {0} \union {log[i].seq : i \in 1..Len(log)} : \A i \in 1..Len(log) : log[i].seq <= n}

Crash ==
    /\ crashes < MaxCrashes
    /\ crashes' = crashes + 1
    /\ holder' = Nil /\ activeRun' = Nil /\ terminal' = {}
    /\ runSeq' \in Restored /\ given' \in {0, given}
    /\ lifecycle' = {<<log[i].type, log[i].run>> : i \in 1..Len(log)}
    /\ rpc' = [r \in Runs |-> IF rpc[r] = "new" THEN "new" ELSE "done"]
    /\ apc' = [a \in Aborters |-> IF apc[a] = "new" THEN "new" ELSE "done"]
    /\ UNCHANGED <<cancelled, promised, log, failed, target, waitsFor, faults, history>>

Terminated ==
    /\ \A r \in Runs : rpc[r] = "done"
    /\ \A a \in Aborters : apc[a] = "done"
    /\ UNCHANGED vars

Next == \/ \E r \in Runs : RunStep(r)
        \/ \E a \in Aborters : AbortStep(a) \/ WaitTimeout(a)
        \/ Crash
        \/ Terminated

Spec == Init /\ [][Next]_vars

\* Every goroutine is scheduled.  A run need not be asked for, and a runner at
\* work has to end only once its context is cancelled; the timeout of a wait need
\* not fire.
MustGoOn(r) == rpc[r] # "new" /\ (rpc[r] \in {"working", "worked"} => r \in cancelled)

FairSpec ==
    /\ Spec
    /\ \A r \in Runs : WF_vars(RunStep(r) /\ MustGoOn(r))
    /\ \A a \in Aborters : WF_vars(AbortStep(a) /\ apc[a] # "new")

-----------------------------------------------------------------------------
EventTypes == Terminals \union {"session.status", "run.started", "progress"}

\* Every variable has its type.
TypeOK ==
    /\ holder \in Runs \union {Nil} /\ activeRun \in Runs \union {Nil}
    /\ cancelled \subseteq Runs /\ terminal \subseteq Runs
    /\ failed \subseteq Runs /\ early \subseteq Runs /\ overtaken \subseteq Runs
    /\ runSeq \in Nat /\ given \in Nat /\ faults \in Nat /\ crashes \in Nat
    /\ promised \in [Runs -> Nat] /\ lifecycle \subseteq EventTypes \X Runs
    /\ log \in Seq([type : EventTypes, run : Runs, seq : Nat])
    /\ rpc \in [Runs -> {"new", "promoted", "begin", "record status", "set active",
                         "record start", "working", "worked", "record completed",
                         "record failed", "record end status", "returned", "done"}]
    /\ apc \in [Aborters -> {"new", "snapshot", "observe", "record", "record status",
                             "cancel", "wait", "done"}]
    /\ target \in [Aborters -> Runs \union {Nil}]
    /\ waitsFor \in [Aborters -> Runs \union {Nil}]

\* The run that Session.activeRunID names has the thread: an abort is never
\* reported in the name of a run that is over when the abort begins.
ActiveHoldsThread == activeRun \in {Nil, holder}

\* Only a disk error silences a run, and no other run with it: the events of two
\* goroutines, deduplicated before they are recorded, never make the store reject one
\* of the runner's, and a failed append of one run or of an aborter leaves nothing
\* behind (a record the validator has not observed, or the other way round) that makes
\* it reject an event of another.
OnlyFaultsSilence == Cardinality(failed) <= faults

\* A started run is closed in the log by exactly one terminal event once it is
\* over and nobody is still about to write one, unless an append failed, the
\* gateway died, or its failure was reported before its start was on record.
TerminalIn(r) == {i \in 1..Len(log) : log[i].run = r /\ log[i].type \in Terminals}
Reporting(r) == \E a \in Aborters : target[a] = r /\ apc[a] \in {"observe", "record"}
Closed(r) == \E i \in TerminalIn(r) : TerminalIn(r) = {i}
ClosedUnlessEarly ==
    \A r \in Runs \ early :
        rpc[r] = "done" /\ faults + crashes = 0 /\ Logged("run.started", r) /\ ~Reporting(r)
            => Closed(r)

\* No two runs are recorded under one run number, and what a runner records
\* carries the number its run began under: not an aborter's late record, not a
\* persistence failure, not a restart that reads the number back from the log
\* makes a run share its number or change it half way.  And the number is the one
\* its input was promoted with, as long as no run has been overtaken on its way
\* from the promotion to its start.
OneNumberEach ==
    \A i, j \in 1..Len(log) :
        /\ log[i].type = "run.started"
        /\ log[j].type \in {"run.started", "progress", "run.completed"}
        => (log[i].run = log[j].run <=> log[i].seq = log[j].seq)
AsPromised ==
    \A i \in 1..Len(log) : log[i].type = "run.started" => log[i].seq = promised[log[i].run]
RunNumbersHold == OneNumberEach /\ (overtaken = {} => AsPromised)

\* An abort request gets an answer although its own timeout may never fire.
AbortReturns == \A a \in Aborters : apc[a] # "new" ~> apc[a] = "done"
=============================================================================
