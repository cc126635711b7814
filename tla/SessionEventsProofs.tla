------------------------- MODULE SessionEventsProofs --------------------------
(***************************************************************************)
(* Proofs about a session's run events, for any runs and aborters.         *)
(***************************************************************************)
EXTENDS SessionEvents, SequenceTheorems, FiniteSetTheorems, TLAPS

Entries == [type : EventTypes, run : Runs, seq : Nat]

\* What an append leaves: one record more, of this type and run and of now.
OneMore(type, r) ==
    /\ log' \in Seq(Entries) /\ Len(log') = Len(log) + 1
    /\ \A i \in 1..Len(log) : log'[i] = log[i]
    /\ log'[Len(log) + 1] = [type |-> type, run |-> r, seq |-> runSeq]
    /\ \A i \in 1..Len(log') : i \in 1..Len(log) \/ i = Len(log) + 1

LEMMA GreaterOfTwo ==
    ASSUME NEW m \in Nat, NEW n \in Nat
    PROVE  /\ Greater(m, n) \in Nat /\ Greater(m, n) >= m /\ Greater(m, n) >= n
           /\ m >= n => Greater(m, n) = m
BY DEF Greater

LEMMA NextNumberIs ==
    ASSUME TypeOK
    PROVE  NextNumber \in Nat /\ NextNumber > runSeq /\ NextNumber > given
<1>1. runSeq \in Nat /\ given \in Nat
  BY DEF TypeOK
<1>2. /\ Greater(runSeq, given) \in Nat
      /\ Greater(runSeq, given) >= runSeq /\ Greater(runSeq, given) >= given
  BY <1>1, GreaterOfTwo
<1> QED
  BY <1>1, <1>2 DEF NextNumber

\* The number a run begins under is above all that there were.
LEMMA BeginsAbove ==
    ASSUME TypeOK, NEW r \in Runs, BeginStatus(r)
    PROVE  /\ runSeq' \in Nat /\ runSeq' >= runSeq + 1
           /\ promised[r] > runSeq => runSeq' = promised[r]
<1>1. promised[r] \in Nat /\ runSeq \in Nat
  BY DEF TypeOK
<1>2. runSeq' = Greater(promised[r], runSeq + 1)
  BY DEF BeginStatus
<1> QED
  BY <1>1, <1>2, GreaterOfTwo

LEMMA WrittenOne ==
    ASSUME TypeOK, NEW type \in EventTypes, NEW r \in Runs, Written(type, r)
    PROVE  OneMore(type, r)
<1> DEFINE e == [type |-> type, run |-> r, seq |-> runSeq]
<1>1. e \in Entries /\ log \in Seq(Entries)
  BY DEF TypeOK, Entries
<1>2. log' = Append(log, e)
  BY DEF Written
<1> HIDE DEF e
<1>3. /\ Append(log, e) \in Seq(Entries) /\ Len(Append(log, e)) = Len(log) + 1
      /\ \A i \in 1..Len(log) : Append(log, e)[i] = log[i]
      /\ Append(log, e)[Len(log) + 1] = e /\ Len(log) \in Nat
  BY <1>1, AppendProperties
<1>4. \A i \in 1..(Len(log) + 1) : i \in 1..Len(log) \/ i = Len(log) + 1
  BY <1>3
<1> QED
  BY <1>2, <1>3, <1>4 DEF OneMore, e

\* Whatever is appended, or rejected, the log and the bounds keep their types.
LEMMA LogTypes ==
    ASSUME TypeOK, NEW type \in EventTypes, NEW r \in Runs, Appended(type, r) \/ Rejected(type, r)
    PROVE  log' \in Seq(Entries) /\ lifecycle' \subseteq EventTypes \X Runs /\ faults' \in Nat
<1>1. log \in Seq(Entries) /\ lifecycle \subseteq EventTypes \X Runs /\ faults \in Nat
  BY DEF TypeOK, Entries
<1>2. /\ log' = log \/ Written(type, r)
      /\ lifecycle' = lifecycle \/ lifecycle' = lifecycle \union {<<type, r>>}
      /\ faults' = faults \/ faults' = faults + 1
  BY DEF Appended, Rejected, Observing, store
<1>3. log' \in Seq(Entries)
  BY <1>1, <1>2, WrittenOne DEF OneMore
<1>4. lifecycle' \subseteq EventTypes \X Runs
  BY <1>1, <1>2
<1> QED
  BY <1>1, <1>2, <1>3, <1>4

-----------------------------------------------------------------------------
(* Types, and who is reported: an aborter that reports has a run to        *)
(* report.                                                                 *)
TargetOK ==
    \A a \in Aborters : apc[a] \in {"observe", "record", "record status"} => target[a] \in Runs

TypeInv == TypeOK /\ TargetOK

RunLabels == {"new", "promoted", "begin", "record status", "set active", "record start", "working",
              "worked", "record completed", "record failed", "record end status", "returned", "done"}

LEMMA RecordTypes ==
    ASSUME TypeInv, NEW r \in Runs, NEW type \in EventTypes, NEW from, NEW to \in RunLabels,
           Record(r, type, from, to)
    PROVE  TypeInv'
<1>1. log' \in Seq(Entries) /\ lifecycle' \subseteq EventTypes \X Runs /\ faults' \in Nat
  BY LogTypes DEF TypeInv, Record
<1>2. rpc' \in [Runs -> RunLabels]
  BY DEF Record, RunGoto, TypeInv, TypeOK, RunLabels
<1>3. activeRun' \in Runs \union {Nil} /\ failed' \subseteq Runs /\ cancelled' \subseteq Runs
  BY DEF Record, TypeInv, TypeOK
<1> QED
  BY <1>1, <1>2, <1>3
  DEF Record, TypeInv, TypeOK, TargetOK, aborter, ledger, history, Entries, RunLabels

LEMMA RecordAbortTypes ==
    ASSUME TypeInv, NEW a \in Aborters, NEW type \in EventTypes,
           NEW from \in {"record", "record status"}, NEW to \in {"record status", "cancel"},
           RecordAbort(a, type, from, to)
    PROVE  TypeInv'
<1>0. target[a] \in Runs
  BY DEF TypeInv, TargetOK, RecordAbort
<1>1. log' \in Seq(Entries) /\ lifecycle' \subseteq EventTypes \X Runs /\ faults' \in Nat
  BY <1>0, LogTypes DEF TypeInv, RecordAbort
<1>2. apc' \in [Aborters -> {"new", "snapshot", "observe", "record", "record status",
                             "cancel", "wait", "done"}]
      /\ \A b \in Aborters : b # a => apc'[b] = apc[b]
  BY DEF RecordAbort, AbortGoto, TypeInv, TypeOK
<1>3. activeRun' \in Runs \union {Nil} /\ early' \subseteq Runs
  BY <1>0 DEF RecordAbort, TypeInv, TypeOK
<1>4. TargetOK'
  BY <1>0, <1>2 DEF RecordAbort, TypeInv, TargetOK
<1> QED
  BY <1>1, <1>2, <1>3, <1>4 DEF RecordAbort, TypeInv, TypeOK, ledger, Entries

LEMMA TypeStep == TypeInv /\ [Next]_vars => TypeInv'
<1> SUFFICES ASSUME TypeInv, [Next]_vars PROVE TypeInv'
  OBVIOUS
<1>0. TypeOK /\ TargetOK
  BY DEF TypeInv
<1>1. ASSUME NEW r \in Runs, RunStep(r) PROVE TypeInv'
  <2>1. CASE Start(r) \/ Refuse(r) \/ SetActive(r) \/ FinishRun(r)
    <3>1. rpc' \in [Runs -> RunLabels]
      BY <1>0, <2>1 DEF Start, Refuse, SetActive, FinishRun, RunGoto, TypeOK, RunLabels
    <3>2. holder' \in Runs \union {Nil} /\ activeRun' \in Runs \union {Nil} /\ runSeq' \in Nat
      <4>1. holder' \in {holder, r, Nil} /\ activeRun' \in {activeRun, r} /\ runSeq' = runSeq
        BY <2>1 DEF Start, Refuse, SetActive, FinishRun, session
      <4>2. holder \in Runs \union {Nil} /\ activeRun \in Runs \union {Nil} /\ runSeq \in Nat
        BY <1>0 DEF TypeOK
      <4> QED
        BY <4>1, <4>2
    <3> QED
      BY <1>0, <2>1, <3>1, <3>2
      DEF Start, Refuse, SetActive, FinishRun, TypeInv, TypeOK, TargetOK, RunLabels,
          session, store, aside, ledger, history, aborter, bounds
  <2>9. CASE BeginStatus(r)
    <3>1. rpc' \in [Runs -> RunLabels] /\ overtaken' \subseteq Runs
      BY <1>0, <2>9 DEF BeginStatus, Overtakes, RunGoto, TypeOK, RunLabels
    <3>2. runSeq' \in Nat
      BY <1>0, <2>9, BeginsAbove
    <3> QED
      BY <1>0, <2>9, <3>1, <3>2
      DEF BeginStatus, TypeInv, TypeOK, TargetOK, RunLabels, store, ledger, aborter, bounds
  <2>10. CASE Promote(r) \/ PromoteFails(r)
    <3>1. rpc' \in [Runs -> RunLabels]
      BY <1>0, <2>10 DEF Promote, PromoteFails, RunGoto, TypeOK, RunLabels
    <3>2. NextNumber \in Nat /\ given \in Nat /\ faults \in Nat
      BY <1>0, NextNumberIs DEF TypeOK
    <3>3. given' \in Nat /\ faults' \in Nat
      <4>1. given' \in {given, NextNumber} /\ faults' \in {faults, faults + 1}
        BY <2>10 DEF Promote, PromoteFails, bounds
      <4> QED
        BY <3>2, <4>1
    <3>4. promised' \in [Runs -> Nat]
      BY <1>0, <2>10, <3>2 DEF Promote, PromoteFails, TypeOK
    <3> QED
      BY <1>0, <2>10, <3>1, <3>3, <3>4
      DEF Promote, PromoteFails, TypeInv, TypeOK, TargetOK, RunLabels,
          session, store, history, aborter, bounds
  <2>2. CASE ObserveEnd(r)
    <3>1. rpc' \in [Runs -> RunLabels]
      BY <1>0, <2>2, ZenonT(30) DEF ObserveEnd, RunGoto, TypeOK, RunLabels
    <3>2. terminal' \subseteq Runs /\ activeRun' \in Runs \union {Nil}
      BY <1>0, <2>2 DEF ObserveEnd, ForgetActive, TypeOK
    <3> QED
      BY <1>0, <2>2, <3>1, <3>2
      DEF ObserveEnd, TypeInv, TypeOK, TargetOK, store, aside, ledger, history, aborter, bounds, RunLabels
  <2>3. CASE RecordBeginStatus(r)
    BY <2>3, RecordTypes DEF RecordBeginStatus, EventTypes, RunLabels
  <2>4. CASE RecordStart(r)
    BY <2>4, RecordTypes DEF RecordStart, EventTypes, RunLabels
  <2>5. CASE RecordProgress(r)
    BY <2>5, RecordTypes DEF RecordProgress, EventTypes, RunLabels
  <2>6. CASE RecordCompleted(r)
    BY <2>6, RecordTypes DEF RecordCompleted, EventTypes, Terminals, RunLabels
  <2>7. CASE RecordFailed(r)
    BY <2>7, RecordTypes DEF RecordFailed, EventTypes, Terminals, RunLabels
  <2>8. CASE RecordEndStatus(r)
    BY <2>8, RecordTypes DEF RecordEndStatus, EventTypes, RunLabels
  <2> QED
    BY <1>1, <2>1, <2>2, <2>3, <2>4, <2>5, <2>6, <2>7, <2>8, <2>9, <2>10 DEF RunStep
<1>2. ASSUME NEW a \in Aborters, AbortStep(a) \/ WaitTimeout(a) PROVE TypeInv'
  <2>1. CASE CheckRunning(a) \/ WaitDone(a) \/ WaitTimeout(a)
    BY <1>0, <2>1
    DEF CheckRunning, WaitDone, WaitTimeout, AbortGoto, TypeInv, TypeOK, TargetOK,
        session, store, aside, ledger, history, bounds
  <2>2. CASE SnapshotActive(a)
    BY <1>0, <2>2
    DEF SnapshotActive, AbortGoto, TypeInv, TypeOK, TargetOK,
        session, store, aside, ledger, history, bounds
  <2>3. CASE ObserveAbort(a)
    <3>1. target[a] \in Runs
      BY <1>0, <2>3 DEF ObserveAbort, TargetOK
    <3> QED
      BY <1>0, <2>3, <3>1
      DEF ObserveAbort, AbortGoto, ForgetActive, TypeInv, TypeOK, TargetOK,
          store, aside, ledger, history, bounds
  <2>4. CASE RecordAbortFailed(a)
    BY <2>4, RecordAbortTypes DEF RecordAbortFailed, EventTypes, Terminals
  <2>5. CASE RecordAbortStatus(a)
    BY <2>5, RecordAbortTypes DEF RecordAbortStatus, EventTypes
  <2>6. CASE CancelThread(a)
    BY <1>0, <2>6
    DEF CancelThread, AbortGoto, TypeInv, TypeOK, TargetOK,
        session, store, aside, ledger, history, bounds
  <2> QED
    BY <1>2, <2>1, <2>2, <2>3, <2>4, <2>5, <2>6 DEF AbortStep
<1>3. CASE Crash
  <2>1. runSeq' \in Nat /\ given' \in Nat /\ lifecycle' \subseteq EventTypes \X Runs
    <3>1. \A i \in 1..Len(log) : log[i].seq \in Nat /\ log[i].type \in EventTypes /\ log[i].run \in Runs
      <4>1. log \in [1..Len(log) -> Entries]
        BY <1>0, LenProperties DEF TypeOK, Entries
      <4> QED
        BY <4>1 DEF Entries
    <3>2. given \in Nat
      BY <1>0 DEF TypeOK
    <3> QED
      BY <1>3, <3>1, <3>2 DEF Crash, Restored
  <2>2. rpc' \in [Runs -> RunLabels]
    BY <1>0, <1>3 DEF Crash, TypeOK, RunLabels
  <2>3. \A a \in Aborters : apc'[a] \in {"new", "done"}
    BY <1>3 DEF Crash
  <2>4. apc' \in [Aborters -> {"new", "snapshot", "observe", "record", "record status",
                               "cancel", "wait", "done"}]
    BY <1>3 DEF Crash
  <2>5. /\ holder' \in Runs \union {Nil} /\ activeRun' \in Runs \union {Nil} /\ terminal' \subseteq Runs
        /\ UNCHANGED <<cancelled, promised, log, failed, target, waitsFor, faults, early, overtaken>>
    BY <1>3 DEF Crash, history
  <2>7. crashes' \in Nat
    <3>1. crashes' = crashes + 1
      BY <1>3 DEF Crash
    <3>2. crashes \in Nat
      BY <1>0 DEF TypeOK
    <3> QED
      BY <3>1, <3>2
  <2>6. TypeOK'
    BY <1>0, <2>1, <2>2, <2>4, <2>5, <2>7 DEF TypeOK, RunLabels
  <2> QED
    BY <2>3, <2>6 DEF TypeInv, TargetOK
<1>4. CASE UNCHANGED vars
  BY <1>0, <1>4
  DEF vars, TypeInv, TypeOK, TargetOK, session, store, ledger, history, aborter, bounds
<1> QED
  BY <1>1, <1>2, <1>3, <1>4 DEF Next, Terminated

LEMMA TypeInit == Init => TypeInv
BY EmptySeq DEF Init, TypeInv, TypeOK, TargetOK

\* Every variable of the session's runs and aborters keeps its type: observeRunEvent
\* and abortActiveRun record events of known types and runs only.
THEOREM TypeCorrect == Spec => []TypeOK
<1>1. TypeInv => TypeOK
  BY DEF TypeInv
<1> QED
  BY <1>1, TypeInit, TypeStep, PTL DEF Spec

-----------------------------------------------------------------------------
(* The thread and the active run.  A run between its start and its end has *)
(* the thread; the active run is one that has begun and is not terminal;   *)
(* a run that is terminal or reported has begun.                           *)
Begun == {"record start", "working", "worked"}
Late == Begun \union {"record completed", "record failed", "record end status", "returned", "done"}
Ending == {"record completed", "record failed"}

HolderOK == \A r \in Runs : rpc[r] \notin {"new", "promoted", "done"} <=> holder = r

ActiveOK ==
    /\ activeRun # Nil => rpc[activeRun] \in Begun /\ activeRun \notin terminal
    /\ \A r \in terminal : rpc[r] \in Late
    /\ \A a \in Aborters : apc[a] \in {"observe", "record", "record status"} => rpc[target[a]] \in Late

ThreadInv == TypeInv /\ HolderOK /\ ActiveOK

\* A run goes from one label to the next; the others stay, and so do the aborters.
Moves(r) ==
    /\ \A q \in Runs : q # r => rpc'[q] = rpc[q]
    /\ UNCHANGED <<apc, target>>

LEMMA RunMoves ==
    ASSUME TypeOK, NEW r \in Runs, RunStep(r)
    PROVE  Moves(r)
<1>1. CASE \/ Promote(r) \/ PromoteFails(r) \/ Start(r) \/ Refuse(r) \/ BeginStatus(r)
           \/ SetActive(r) \/ ObserveEnd(r) \/ FinishRun(r)
  BY <1>1 DEF Promote, PromoteFails, Start, Refuse, BeginStatus, SetActive, ObserveEnd, FinishRun,
              RunGoto, Moves, TypeOK, aborter
<1>2. ASSUME NEW type, NEW from, NEW to, Record(r, type, from, to) PROVE Moves(r)
  BY <1>2 DEF Record, RunGoto, Moves, TypeOK, aborter
<1> QED
  BY <1>1, <1>2 DEF RunStep, RecordBeginStatus, RecordStart, RecordProgress, RecordCompleted,
                    RecordFailed, RecordEndStatus

\* The six records of a run: where each comes from and leads to.
Recording(r, from, to) ==
    /\ rpc[r] = from /\ UNCHANGED <<holder, terminal>>
    /\ \/ rpc'[r] = to /\ UNCHANGED activeRun
       \/ rpc'[r] = "returned" /\ activeRun' = Nil

LEMMA RunRecords ==
    ASSUME TypeOK, NEW r \in Runs
    PROVE  /\ RecordBeginStatus(r) => Recording(r, "record status", "set active")
           /\ RecordStart(r) => Recording(r, "record start", "working")
           /\ RecordProgress(r) => Recording(r, "working", "worked")
           /\ RecordCompleted(r) => Recording(r, "record completed", "record end status")
           /\ RecordFailed(r) => Recording(r, "record failed", "record end status")
           /\ RecordEndStatus(r) => Recording(r, "record end status", "returned")
<1>1. ASSUME NEW type, NEW from, NEW to, Record(r, type, from, to) PROVE Recording(r, from, to)
  BY <1>1 DEF Record, RunGoto, Recording, TypeOK
<1> QED
  BY <1>1 DEF RecordBeginStatus, RecordStart, RecordProgress, RecordCompleted,
              RecordFailed, RecordEndStatus

LEMMA HolderStep == TypeInv /\ HolderOK /\ [Next]_vars => HolderOK'
<1> SUFFICES ASSUME TypeOK, HolderOK, [Next]_vars PROVE HolderOK'
  BY DEF TypeInv
<1>1. ASSUME NEW r \in Runs, RunStep(r) PROVE HolderOK'
  <2>0. Moves(r)
    BY <1>1, RunMoves
  <2>1. CASE Start(r)
    <3>1. rpc'[r] = "begin" /\ holder = Nil /\ holder' = r
      BY <2>1 DEF Start, RunGoto, TypeOK
    <3> QED
      BY <2>0, <3>1, NilAssumption DEF HolderOK, Moves
  <2>2. CASE FinishRun(r)
    <3>1. rpc[r] = "returned" /\ rpc'[r] = "done" /\ holder' = Nil
      BY <2>2 DEF FinishRun, RunGoto, TypeOK
    <3> QED
      BY <2>0, <3>1, NilAssumption DEF HolderOK, Moves
  <2>3. CASE Promote(r) \/ PromoteFails(r) \/ Refuse(r)
    <3>1. rpc[r] \in {"new", "promoted"} /\ rpc'[r] \in {"promoted", "done"} /\ holder' = holder
      BY <2>3 DEF Promote, PromoteFails, Refuse, RunGoto, TypeOK
    <3> QED
      BY <2>0, <3>1 DEF HolderOK, Moves
  <2>4. CASE BeginStatus(r) \/ SetActive(r) \/ ObserveEnd(r)
    <3>1. /\ rpc[r] \notin {"new", "promoted", "done"} /\ rpc'[r] \notin {"new", "promoted", "done"}
          /\ holder' = holder
      BY <2>4 DEF BeginStatus, SetActive, ObserveEnd, RunGoto, TypeOK
    <3> QED
      BY <2>0, <3>1 DEF HolderOK, Moves
  <2>5. ASSUME NEW from, NEW to, Recording(r, from, to),
               from \notin {"new", "promoted", "done"}, to \notin {"new", "promoted", "done"}
        PROVE  HolderOK'
    BY <2>0, <2>5 DEF Recording, HolderOK, Moves
  <2> QED
    BY <1>1, <2>1, <2>2, <2>3, <2>4, <2>5, RunRecords DEF RunStep
<1>2. ASSUME NEW a \in Aborters, AbortStep(a) \/ WaitTimeout(a) PROVE HolderOK'
  BY <1>2 DEF AbortStep, CheckRunning, SnapshotActive, ObserveAbort, RecordAbortFailed,
              RecordAbortStatus, RecordAbort, CancelThread, WaitDone, WaitTimeout, HolderOK
<1>3. CASE Crash
  BY <1>3, NilAssumption DEF Crash, HolderOK
<1>4. CASE UNCHANGED vars
  BY <1>4 DEF vars, HolderOK
<1> QED
  BY <1>1, <1>2, <1>3, <1>4 DEF Next, Terminated

LEMMA ActiveStep == ThreadInv /\ [Next]_vars => ActiveOK'
<1> SUFFICES ASSUME TypeOK, TargetOK, HolderOK, ActiveOK, [Next]_vars PROVE ActiveOK'
  BY DEF ThreadInv, TypeInv
<1> USE DEF Begun, Late
<1>1. ASSUME NEW r \in Runs, RunStep(r) PROVE ActiveOK'
  <2>0. Moves(r)
    BY <1>1, RunMoves
  <2>1. CASE Promote(r) \/ PromoteFails(r) \/ Start(r) \/ Refuse(r) \/ BeginStatus(r)
    <3>1. rpc[r] \in {"new", "promoted", "begin"} /\ UNCHANGED <<activeRun, terminal>>
      BY <2>1 DEF Promote, PromoteFails, Start, Refuse, BeginStatus, session
    <3> QED
      BY <2>0, <3>1 DEF ActiveOK, Moves, TypeOK, TargetOK
  <2>2. CASE SetActive(r)
    <3>1. rpc[r] = "set active" /\ rpc'[r] = "record start" /\ activeRun' = r /\ UNCHANGED terminal
      BY <2>2 DEF SetActive, RunGoto, TypeOK
    <3> QED
      BY <2>0, <3>1 DEF ActiveOK, Moves, TypeOK, TargetOK
  <2>3. CASE ObserveEnd(r)
    <3>1. rpc[r] \in {"working", "worked"}
          /\ rpc'[r] \in {"returned", "record failed", "record completed"}
      BY <2>3 DEF ObserveEnd, RunGoto, TypeOK
    <3>2. \/ r \in terminal /\ UNCHANGED <<terminal, activeRun>>
          \/ terminal' = terminal \union {r} /\ activeRun' = ForgetActive(r)
      BY <2>3 DEF ObserveEnd, Duplicate
    <3>3. activeRun' # Nil => activeRun' # r /\ activeRun' = activeRun
      BY <3>2 DEF ForgetActive, ActiveOK
    <3> QED
      BY <2>0, <3>1, <3>2, <3>3 DEF ActiveOK, Moves, TypeOK, TargetOK
  <2>4. CASE FinishRun(r)
    <3>1. rpc[r] = "returned" /\ rpc'[r] = "done" /\ UNCHANGED <<activeRun, terminal>>
      BY <2>4 DEF FinishRun, RunGoto, TypeOK, session
    <3> QED
      BY <2>0, <3>1 DEF ActiveOK, Moves, TypeOK, TargetOK
  <2>5. ASSUME NEW from, NEW to, Recording(r, from, to),
               \/ from = "record status" /\ to = "set active"
               \/ from \in Begun /\ to \in Begun
               \/ from \in Late \ Begun /\ to \in Late
        PROVE  ActiveOK'
    BY <2>0, <2>5, ZenonT(30) DEF Recording, ActiveOK, Moves, TypeOK, TargetOK
  <2> QED
    BY <1>1, <2>1, <2>2, <2>3, <2>4, <2>5, RunRecords DEF RunStep
<1>2. ASSUME NEW a \in Aborters, AbortStep(a) \/ WaitTimeout(a) PROVE ActiveOK'
  <2>0. UNCHANGED rpc
    BY <1>2 DEF AbortStep, CheckRunning, SnapshotActive, ObserveAbort, RecordAbortFailed,
                RecordAbortStatus, RecordAbort, CancelThread, WaitDone, WaitTimeout
  <2>1. CASE CheckRunning(a) \/ WaitDone(a) \/ WaitTimeout(a) \/ CancelThread(a)
    <3>1. /\ UNCHANGED <<activeRun, terminal, target>>
          /\ \A b \in Aborters : apc'[b] \in {apc[b], "done", "snapshot", "wait"}
      BY <2>1 DEF CheckRunning, WaitDone, WaitTimeout, CancelThread, AbortGoto, session, TypeOK
    <3> QED
      BY <2>0, <3>1 DEF ActiveOK
  <2>2. CASE SnapshotActive(a)
    <3>1. /\ UNCHANGED <<activeRun, terminal>> /\ target'[a] = activeRun
          /\ \A b \in Aborters : b # a => apc'[b] = apc[b] /\ target'[b] = target[b]
          /\ apc'[a] \in {"observe", "cancel"} /\ (apc'[a] = "observe" => activeRun # Nil)
      BY <2>2 DEF SnapshotActive, AbortGoto, session, TypeOK
    <3> QED
      BY <2>0, <3>1 DEF ActiveOK
  <2>3. CASE ObserveAbort(a)
    <3>1. /\ UNCHANGED target /\ apc[a] = "observe"
          /\ \A b \in Aborters : b # a => apc'[b] = apc[b]
          /\ \/ UNCHANGED <<terminal, activeRun>>
             \/ terminal' = terminal \union {target[a]} /\ activeRun' = ForgetActive(target[a])
      BY <2>3 DEF ObserveAbort, AbortGoto, TypeOK
    <3>2. activeRun' # Nil => activeRun' = activeRun /\ activeRun' \notin terminal'
      BY <3>1 DEF ActiveOK, ForgetActive
    <3> QED
      BY <2>0, <3>1, <3>2 DEF ActiveOK
  <2>4. CASE RecordAbortFailed(a) \/ RecordAbortStatus(a)
    <3>1. /\ UNCHANGED <<target, terminal>> /\ apc[a] \in {"record", "record status"}
          /\ \A b \in Aborters : b # a => apc'[b] = apc[b]
          /\ activeRun' \in {activeRun, Nil}
      BY <2>4 DEF RecordAbortFailed, RecordAbortStatus, RecordAbort, AbortGoto, TypeOK
    <3> QED
      BY <2>0, <3>1 DEF ActiveOK
  <2> QED
    BY <1>2, <2>1, <2>2, <2>3, <2>4 DEF AbortStep
<1>3. CASE Crash
  BY <1>3 DEF Crash, ActiveOK
<1>4. CASE UNCHANGED vars
  BY <1>4 DEF vars, ActiveOK, session, aborter
<1> QED
  BY <1>1, <1>2, <1>3, <1>4 DEF Next, Terminated

LEMMA ThreadInit == Init => ThreadInv
<1>1. Init => HolderOK /\ ActiveOK
  BY NilAssumption DEF Init, HolderOK, ActiveOK
<1> QED
  BY <1>1, TypeInit DEF ThreadInv

LEMMA ThreadStep == ThreadInv /\ [Next]_vars => ThreadInv'
BY TypeStep, HolderStep, ActiveStep DEF ThreadInv

\* The run that beginRunStatus has made Session.activeRunID holds the run thread:
\* abortActiveRun never snapshots a run that has let go of it.
THEOREM ActiveRunHoldsThread == Spec => []ActiveHoldsThread
<1>1. ThreadInv => ActiveHoldsThread
  BY DEF ThreadInv, TypeInv, TypeOK, HolderOK, ActiveOK, Begun, ActiveHoldsThread
<1> QED
  BY <1>1, ThreadInit, ThreadStep, PTL DEF Spec

-----------------------------------------------------------------------------
(* What the appends do: to the log, and to the one who makes them.         *)
\* The validator has seen the run's end.
Ended(r) == \E t \in Terminals : Observed(t, r)

LEMMA LoggedMore ==
    ASSUME TypeOK, NEW type \in EventTypes, NEW r \in Runs, OneMore(type, r),
           NEW t \in EventTypes, NEW q \in Runs
    PROVE  Logged(t, q)' <=> Logged(t, q) \/ (t = type /\ q = r)
<1>0. Len(log) \in Nat
  BY LenProperties DEF TypeOK
<1>1. ASSUME Logged(t, q) PROVE Logged(t, q)'
  <2>1. PICK i \in 1..Len(log) : log[i].type = t /\ log[i].run = q
    BY <1>1 DEF Logged
  <2>2. i \in 1..Len(log') /\ log'[i] = log[i]
    BY <1>0, <2>1 DEF OneMore
  <2> QED
    BY <2>1, <2>2 DEF Logged
<1>2. ASSUME t = type, q = r PROVE Logged(t, q)'
  BY <1>0, <1>2 DEF OneMore, Logged
<1>3. ASSUME Logged(t, q)', ~Logged(t, q) PROVE t = type /\ q = r
  BY <1>0, <1>3 DEF OneMore, Logged
<1> QED
  BY <1>1, <1>2, <1>3

LEMMA LoggedSame ==
    ASSUME log' = log, NEW t, NEW q
    PROVE  Logged(t, q)' <=> Logged(t, q)
BY DEF Logged

LEMMA ObservedMore ==
    ASSUME NEW type \in EventTypes, NEW r \in Runs, Observing(type, r)
    PROVE  /\ \A t, q : Observed(t, q)' <=> Observed(t, q) \/ (t = type /\ q = r)
           /\ \A q : Ended(q)' <=> Ended(q) \/ (type \in Terminals /\ q = r)
<1>1. \A t, q : Observed(t, q)' <=> Observed(t, q) \/ (t = type /\ q = r)
  BY DEF Observing, Observed
<1> QED
  BY <1>1 DEF Ended, Terminals

LEMMA ObservedSame ==
    ASSUME lifecycle' = lifecycle
    PROVE  \A q : (\A t : Observed(t, q)' <=> Observed(t, q)) /\ (Ended(q)' <=> Ended(q))
BY DEF Observed, Ended, Terminals

Accepted(type, r) ==
    OneMore(type, r) /\ Observing(type, r) /\ faults' = faults /\ LifecycleAllows(type, r)
Refused(type, r) ==
    /\ log' = log \/ OneMore(type, r)
    /\ lifecycle' = lifecycle \/ Observing(type, r)
    /\ \/ faults' = faults + 1
       \/ UNCHANGED <<log, lifecycle, faults>> /\ ~LifecycleAllows(type, r)

LEMMA RejectedIsRefused ==
    ASSUME TypeOK, NEW type \in EventTypes, NEW r \in Runs, Rejected(type, r)
    PROVE  Refused(type, r)
BY WrittenOne DEF Rejected, Refused, store

RunRecord(r, type, from, to) ==
    /\ rpc[r] = from /\ Moves(r) /\ UNCHANGED <<terminal, runSeq, ledger, crashes, history>>
    /\ \/ Accepted(type, r) /\ rpc'[r] = to /\ failed' = failed
       \/ Refused(type, r) /\ rpc'[r] = "returned" /\ failed' = failed \union {r}

LEMMA RunRecordIs ==
    ASSUME TypeOK, NEW r \in Runs, NEW type \in EventTypes, NEW from, NEW to, Record(r, type, from, to)
    PROVE  RunRecord(r, type, from, to)
<1>1. Moves(r) /\ rpc[r] = from /\ UNCHANGED <<terminal, runSeq, ledger, crashes, history>>
  BY DEF Record, RunGoto, Moves, TypeOK, aborter
<1>2. ASSUME Appended(type, r), RunGoto(r, to), failed' = failed
      PROVE  Accepted(type, r) /\ rpc'[r] = to
  BY <1>2, WrittenOne DEF Appended, Accepted, RunGoto, TypeOK
<1>3. ASSUME Rejected(type, r), RunGoto(r, "returned")
      PROVE  Refused(type, r) /\ rpc'[r] = "returned"
  BY <1>3, RejectedIsRefused DEF RunGoto, TypeOK
<1> QED
  BY <1>1, <1>2, <1>3 DEF Record, RunRecord

LEMMA RunRecordsAre ==
    ASSUME TypeOK, NEW r \in Runs
    PROVE  /\ RecordBeginStatus(r) => RunRecord(r, "session.status", "record status", "set active")
           /\ RecordStart(r) => RunRecord(r, "run.started", "record start", "working")
           /\ RecordProgress(r) => RunRecord(r, "progress", "working", "worked")
           /\ RecordCompleted(r) => RunRecord(r, "run.completed", "record completed", "record end status")
           /\ RecordFailed(r) => RunRecord(r, "run.failed", "record failed", "record end status")
           /\ RecordEndStatus(r) => RunRecord(r, "session.status", "record end status", "returned")
BY RunRecordIs DEF RecordBeginStatus, RecordStart, RecordProgress, RecordCompleted, RecordFailed,
                   RecordEndStatus, EventTypes, Terminals

AbortRecord(a, type, from, to) ==
    /\ apc[a] = from /\ UNCHANGED <<rpc, terminal, runSeq, ledger, crashes, failed, target, overtaken>>
    /\ \A b \in Aborters : b # a => apc'[b] = apc[b]
    /\ \/ Accepted(type, target[a]) /\ apc'[a] = to
       \/ Refused(type, target[a]) /\ apc'[a] = "cancel"
    /\ early \subseteq early' /\ (Logged("run.started", target[a]) \/ target[a] \in early')

LEMMA AbortRecordIs ==
    ASSUME TypeOK, TargetOK, NEW a \in Aborters, NEW type \in EventTypes,
           NEW from \in {"record", "record status"}, NEW to, RecordAbort(a, type, from, to)
    PROVE  AbortRecord(a, type, from, to) /\ target[a] \in Runs
<1>0. target[a] \in Runs
  BY DEF RecordAbort, TargetOK
<1>1. /\ apc[a] = from /\ UNCHANGED <<rpc, terminal, runSeq, ledger, crashes, failed, target, overtaken>>
      /\ \A b \in Aborters : b # a => apc'[b] = apc[b]
      /\ early \subseteq early' /\ (Logged("run.started", target[a]) \/ target[a] \in early')
  BY DEF RecordAbort, AbortGoto, TypeOK
<1>2. ASSUME Appended(type, target[a]), AbortGoto(a, to)
      PROVE  Accepted(type, target[a]) /\ apc'[a] = to
  BY <1>0, <1>2, WrittenOne DEF Appended, Accepted, AbortGoto, TypeOK
<1>3. ASSUME Rejected(type, target[a]), AbortGoto(a, "cancel")
      PROVE  Refused(type, target[a]) /\ apc'[a] = "cancel"
  BY <1>0, <1>3, RejectedIsRefused DEF AbortGoto, TypeOK
<1> QED
  BY <1>0, <1>1, <1>2, <1>3 DEF RecordAbort, AbortRecord

LEMMA AbortRecordsAre ==
    ASSUME TypeOK, TargetOK, NEW a \in Aborters
    PROVE  /\ RecordAbortFailed(a) =>
                  AbortRecord(a, "run.failed", "record", "record status") /\ target[a] \in Runs
           /\ RecordAbortStatus(a) =>
                  AbortRecord(a, "session.status", "record status", "cancel") /\ target[a] \in Runs
BY AbortRecordIs DEF RecordAbortFailed, RecordAbortStatus, EventTypes, Terminals

-----------------------------------------------------------------------------
(* Who writes a run's terminal event: its runner or one aborter, decided   *)
(* by the one that made the run terminal.                                  *)
OneWriter ==
    /\ \A r \in Runs : Ended(r) /\ rpc[r] # "done" => r \in terminal
    /\ \A a \in Aborters : apc[a] = "record" => target[a] \in terminal
    /\ \A r \in Runs : rpc[r] \in Ending =>
           /\ r \in terminal /\ ~Ended(r)
           /\ \A a \in Aborters : ~(apc[a] = "record" /\ target[a] = r)

StartObserved ==
    \A r \in Runs : rpc[r] \in {"working", "worked"} \union Ending => Observed("run.started", r)

\* Nothing is on record of a run that has not begun.
NotBegun == {"new", "promoted", "begin"}
LogBegun ==
    /\ \A i \in 1..Len(log) : rpc[log[i].run] \notin NotBegun
    /\ \A t \in EventTypes, r \in Runs : Observed(t, r) => rpc[r] \notin NotBegun

\* Each silenced run had a failed append of its own.
Silenced == IsFiniteSet(failed) /\ OnlyFaultsSilence

WriterParts == OneWriter /\ StartObserved /\ LogBegun /\ Silenced
WriterInv == ThreadInv /\ WriterParts

LEMMA EntryTypes ==
    ASSUME TypeOK
    PROVE  \A i \in 1..Len(log) : log[i].run \in Runs /\ log[i].seq \in Nat /\ log[i].type \in EventTypes
<1>1. log \in [1..Len(log) -> Entries]
  BY LenProperties DEF TypeOK, Entries
<1> QED
  BY <1>1 DEF Entries

LEMMA LogBegunStep ==
    ASSUME TypeOK, LogBegun, NEW type \in EventTypes, NEW r \in Runs, log' = log \/ OneMore(type, r),
           lifecycle' = lifecycle \/ Observing(type, r), rpc'[r] \notin NotBegun,
           \A q \in Runs : rpc'[q] \in NotBegun => rpc[q] \in NotBegun
    PROVE  LogBegun'
<1>1. \A i \in 1..Len(log) : log[i].run \in Runs
  BY EntryTypes
<1>2. ASSUME NEW i \in 1..Len(log') PROVE rpc'[log'[i].run] \notin NotBegun
  <2>1. CASE i \in 1..Len(log) /\ log'[i] = log[i]
    BY <1>1, <2>1 DEF LogBegun
  <2>2. CASE log'[i] = [type |-> type, run |-> r, seq |-> runSeq]
    BY <2>2
  <2> QED
    BY <1>2, <2>1, <2>2 DEF OneMore
<1>3. ASSUME NEW t \in EventTypes, NEW q \in Runs, Observed(t, q)' PROVE rpc'[q] \notin NotBegun
  <2>1. Observed(t, q) \/ q = r
    BY <1>3, ObservedMore, ObservedSame
  <2> QED
    BY <2>1 DEF LogBegun
<1> QED
  BY <1>2, <1>3 DEF LogBegun

\* The events a runner records, and the labels around them.
Route(type, from, to) ==
    \/ type = "session.status" /\ from = "record status" /\ to = "set active"
    \/ type = "run.started" /\ from = "record start" /\ to = "working"
    \/ type = "progress" /\ from = "working" /\ to = "worked"
    \/ type \in Terminals /\ from \in Ending /\ to = "record end status"
    \/ type = "session.status" /\ from = "record end status" /\ to = "returned"

\* The lifecycle never rejects what a runner records.
LEMMA RunnersAllowed ==
    ASSUME OneWriter, StartObserved, NEW r \in Runs, NEW type \in EventTypes, NEW from, NEW to,
           Route(type, from, to), rpc[r] = from
    PROVE  LifecycleAllows(type, r)
BY DEF OneWriter, StartObserved, Route, LifecycleAllows, Ended, Terminals, Ending

LEMMA SilencedSame ==
    ASSUME faults \in Nat, faults' = faults \/ faults' = faults + 1, failed' = failed, Silenced
    PROVE  Silenced'
<1>1. Cardinality(failed) \in Nat
  BY FS_CardinalityType DEF Silenced
<1> QED
  BY <1>1 DEF Silenced, OnlyFaultsSilence

LEMMA SilencedMore ==
    ASSUME faults \in Nat, faults' = faults + 1, NEW r \in Runs, failed' = failed \union {r}, Silenced
    PROVE  Silenced'
<1>1. Cardinality(failed) \in Nat
  BY FS_CardinalityType DEF Silenced
<1>2. /\ IsFiniteSet(failed \union {r})
      /\ \/ Cardinality(failed \union {r}) = Cardinality(failed)
         \/ Cardinality(failed \union {r}) = Cardinality(failed) + 1
  BY FS_AddElement DEF Silenced
<1> QED
  BY <1>1, <1>2 DEF Silenced, OnlyFaultsSilence

LEMMA RunRecordWriter ==
    ASSUME WriterInv, NEW r \in Runs, NEW type \in EventTypes, NEW from, NEW to,
           Route(type, from, to), RunRecord(r, type, from, to)
    PROVE  WriterParts'
<1>0. TypeOK /\ OneWriter /\ StartObserved /\ LogBegun /\ Silenced
  BY DEF WriterInv, WriterParts, ThreadInv, TypeInv
<1>1. rpc[r] = from /\ Moves(r) /\ terminal' = terminal /\ LifecycleAllows(type, r)
  BY <1>0, RunnersAllowed DEF RunRecord
<1>2. \/ rpc'[r] = to /\ Accepted(type, r) /\ failed' = failed
      \/ rpc'[r] = "returned" /\ Refused(type, r) /\ failed' = failed \union {r}
  BY DEF RunRecord
<1>3. lifecycle' = lifecycle \/ Observing(type, r)
  BY <1>2 DEF Accepted, Refused
<1>4. /\ \A q : Ended(q)' => Ended(q) \/ (type \in Terminals /\ q = r)
      /\ \A t, q : Observed(t, q) => Observed(t, q)'
  BY <1>3, ObservedMore, ObservedSame
<1>5. /\ from \notin NotBegun /\ from # "done" /\ to \notin Ending /\ to \notin NotBegun
      /\ type \in Terminals => from \in Ending
      /\ to \in {"working", "worked"} => type = "run.started" \/ from = "working"
  BY DEF Route, Terminals, Ending, NotBegun
<1>6. rpc'[r] \notin Ending /\ rpc'[r] \notin NotBegun
  BY <1>2, <1>5 DEF Ending, NotBegun
<1>7. OneWriter'
  <2>1. \A q \in Runs : Ended(q)' /\ rpc'[q] # "done" => q \in terminal
    BY <1>0, <1>1, <1>4, <1>5 DEF OneWriter, Moves
  <2>2. \A q \in Runs : rpc'[q] \in Ending =>
            /\ q \in terminal /\ ~Ended(q)'
            /\ \A a \in Aborters : ~(apc[a] = "record" /\ target[a] = q)
    BY <1>0, <1>1, <1>4, <1>6 DEF OneWriter, Moves
  <2> QED
    BY <1>0, <1>1, <2>1, <2>2 DEF OneWriter, Moves
<1>8. StartObserved'
  <2>1. rpc'[r] \in {"working", "worked"} => Observed("run.started", r)'
    <3>1. CASE rpc'[r] = to /\ Observing(type, r)
      <4>1. \A t, q : Observed(t, q)' <=> Observed(t, q) \/ (t = type /\ q = r)
        BY <3>1, ObservedMore
      <4> QED
        BY <1>0, <1>1, <1>5, <3>1, <4>1 DEF StartObserved
    <3> QED
      BY <1>2, <3>1 DEF Accepted
  <2> QED
    BY <1>0, <1>1, <1>4, <1>6, <2>1 DEF StartObserved, Moves
<1>9. LogBegun'
  <2>1. \A q \in Runs : rpc'[q] \in NotBegun => rpc[q] \in NotBegun
    BY <1>1, <1>6 DEF Moves
  <2>2. log' = log \/ OneMore(type, r)
    BY <1>2 DEF Accepted, Refused
  <2> QED
    BY <1>0, <1>3, <1>6, <2>1, <2>2, LogBegunStep
<1>10. Silenced'
  <2>0. faults \in Nat
    BY <1>0 DEF TypeOK
  <2>1. CASE Accepted(type, r) /\ failed' = failed
    <3>1. faults' = faults
      BY <2>1 DEF Accepted
    <3> QED
      BY <1>0, <2>0, <2>1, <3>1, SilencedSame
  <2>2. CASE Refused(type, r) /\ failed' = failed \union {r}
    <3>1. faults' = faults + 1
      BY <1>1, <2>2 DEF Refused
    <3> QED
      BY <1>0, <2>0, <2>2, <3>1, SilencedMore
  <2> QED
    BY <1>2, <2>1, <2>2
<1> QED
  BY <1>7, <1>8, <1>9, <1>10 DEF WriterParts

LEMMA AbortRecordWriter ==
    ASSUME WriterInv, NEW a \in Aborters, NEW type \in EventTypes, NEW from, NEW to,
           target[a] \in Runs, AbortRecord(a, type, from, to),
           \/ type = "run.failed" /\ from = "record" /\ to = "record status"
           \/ type = "session.status" /\ from = "record status" /\ to = "cancel"
    PROVE  WriterParts'
<1>0. /\ TypeOK /\ ActiveOK
      /\ OneWriter /\ StartObserved /\ LogBegun /\ Silenced
  BY DEF WriterInv, WriterParts, ThreadInv, TypeInv
<1>1. /\ apc[a] = from /\ UNCHANGED <<rpc, terminal, failed, target>>
      /\ \A b \in Aborters : apc'[b] = "record" => apc[b] = "record"
  BY DEF AbortRecord
<1>2. /\ faults' = faults \/ faults' = faults + 1
      /\ log' = log \/ OneMore(type, target[a])
      /\ lifecycle' = lifecycle \/ Observing(type, target[a])
  BY DEF AbortRecord, Accepted, Refused
<1>3. /\ \A q : Ended(q)' => Ended(q) \/ (type \in Terminals /\ q = target[a])
      /\ \A t, q : Observed(t, q) => Observed(t, q)'
  BY <1>2, ObservedMore, ObservedSame
<1>4. OneWriter'
  <2>1. type \in Terminals => apc[a] = "record"
    BY <1>1 DEF Terminals
  <2>2. \A r \in Runs : Ended(r)' => Ended(r) \/ (apc[a] = "record" /\ target[a] = r)
    BY <1>3, <2>1
  <2>3. \A r \in Runs : Ended(r)' /\ rpc[r] # "done" => r \in terminal
    BY <1>0, <2>2 DEF OneWriter
  <2>4. \A r \in Runs : rpc[r] \in Ending => r \in terminal /\ ~Ended(r)'
    BY <1>0, <2>2 DEF OneWriter
  <2>5. \A r \in Runs, b \in Aborters : rpc[r] \in Ending /\ apc'[b] = "record" => target[b] # r
    BY <1>0, <1>1 DEF OneWriter
  <2> QED
    BY <1>0, <1>1, <2>3, <2>4, <2>5 DEF OneWriter
<1>5. StartObserved'
  BY <1>0, <1>1, <1>3 DEF StartObserved
<1>6. LogBegun'
  <2>1. rpc[target[a]] \notin NotBegun
    BY <1>0, <1>1 DEF ActiveOK, Late, Begun, NotBegun
  <2> QED
    BY <1>0, <1>1, <1>2, <2>1, LogBegunStep
<1>7. Silenced'
  <2>1. faults \in Nat
    BY <1>0 DEF TypeOK
  <2> QED
    BY <1>0, <1>1, <1>2, <2>1, SilencedSame
<1> QED
  BY <1>4, <1>5, <1>6, <1>7 DEF WriterParts

\* A step that records nothing, and leads no run to the writing of its end but one
\* that is made terminal by it.
LEMMA WriterSame ==
    ASSUME TypeOK, WriterParts, UNCHANGED <<log, lifecycle, failed>>, terminal \subseteq terminal',
           faults' = faults \/ faults' = faults + 1,
           \A r \in Runs : rpc[r] = "done" => rpc'[r] = "done",
           \A r \in Runs : rpc'[r] \in NotBegun => rpc[r] \in NotBegun,
           \A r \in Runs : rpc'[r] \in {"working", "worked"} \union Ending =>
               rpc[r] \in {"working", "worked"} \union Ending,
           \A r \in Runs : rpc'[r] \in Ending =>
               rpc[r] \in Ending \/ (r \notin terminal /\ rpc[r] # "done"),
           \A r \in Runs : rpc'[r] \in Ending => r \in terminal',
           \A a \in Aborters : apc'[a] = "record" =>
               \/ apc[a] = "record" /\ target'[a] = target[a]
               \/ target'[a] \in terminal' \ terminal /\ rpc' = rpc
    PROVE  WriterParts'
<1>0. /\ OneWriter /\ StartObserved /\ LogBegun /\ Silenced
      /\ \A i \in 1..Len(log) : log[i].run \in Runs
  BY EntryTypes DEF WriterParts
<1>1. \A q : (\A t : Observed(t, q)' <=> Observed(t, q)) /\ (Ended(q)' <=> Ended(q))
  BY ObservedSame
<1>2. OneWriter'
  <2>1. ASSUME NEW r \in Runs, rpc'[r] \in Ending PROVE ~Ended(r)
    BY <1>0, <2>1 DEF OneWriter
  <2>2. ASSUME NEW r \in Runs, rpc'[r] \in Ending, NEW a \in Aborters, apc'[a] = "record",
               target'[a] = r
        PROVE  FALSE
    BY <1>0, <2>2 DEF OneWriter
  <2>3. \A r \in Runs : Ended(r) /\ rpc'[r] # "done" => r \in terminal'
    BY <1>0 DEF OneWriter
  <2>4. \A a \in Aborters : apc'[a] = "record" => target'[a] \in terminal'
    BY <1>0 DEF OneWriter
  <2> QED
    BY <1>1, <2>1, <2>2, <2>3, <2>4 DEF OneWriter
<1>3. StartObserved' /\ LogBegun'
  <2>1. StartObserved'
    BY <1>0, <1>1 DEF StartObserved
  <2>2. LogBegun'
    BY <1>0, <1>1 DEF LogBegun
  <2> QED
    BY <2>1, <2>2
<1>4. Silenced'
  <2>1. faults \in Nat
    BY DEF TypeOK
  <2> QED
    BY <1>0, <2>1, SilencedSame
<1> QED
  BY <1>2, <1>3, <1>4 DEF WriterParts

LEMMA WriterStep == WriterInv /\ [Next]_vars => WriterInv'
<1> SUFFICES ASSUME WriterInv, [Next]_vars PROVE WriterParts'
  BY ThreadStep DEF WriterInv
<1>0. TypeOK /\ TargetOK /\ HolderOK /\ ActiveOK /\ WriterParts
  BY DEF WriterInv, ThreadInv, TypeInv
<1>1. ASSUME NEW r \in Runs, RunStep(r) PROVE WriterParts'
  <2>0. Moves(r)
    BY <1>0, <1>1, RunMoves
  <2>1. CASE \/ Promote(r) \/ PromoteFails(r) \/ Start(r) \/ Refuse(r) \/ BeginStatus(r)
             \/ SetActive(r) \/ FinishRun(r)
    <3>1. /\ UNCHANGED <<log, lifecycle, terminal, failed>> /\ rpc[r] # "done"
          /\ faults' = faults \/ faults' = faults + 1
          /\ \/ rpc[r] \in {"new", "promoted"} /\ rpc'[r] \in {"promoted", "begin", "done"}
             \/ rpc'[r] \in {"record status", "record start", "done"}
      BY <1>0, <2>1
      DEF Promote, PromoteFails, Start, Refuse, BeginStatus, SetActive, FinishRun, RunGoto, TypeOK,
          session, store, bounds, aside
    <3>2. \A q \in Runs : q # r => (rpc'[q] \in Ending => q \in terminal)
      BY <1>0, <2>0 DEF WriterParts, OneWriter, Moves
    <3> QED
      BY <1>0, <2>0, <3>1, <3>2, WriterSame DEF Moves, Ending, NotBegun
  <2>2. CASE ObserveEnd(r)
    <3>1. /\ UNCHANGED <<log, lifecycle, failed, faults>> /\ rpc[r] \in {"working", "worked"}
          /\ \/ rpc'[r] = "returned" /\ terminal' = terminal
             \/ r \notin terminal /\ terminal' = terminal \union {r} /\ rpc'[r] \in Ending
      BY <1>0, <2>2 DEF ObserveEnd, RunGoto, TypeOK, Duplicate, Ending, store, bounds, aside
    <3>2. \A q \in Runs : q # r => (rpc'[q] \in Ending => q \in terminal)
      BY <1>0, <2>0 DEF WriterParts, OneWriter, Moves
    <3> QED
      BY <1>0, <2>0, <3>1, <3>2, WriterSame DEF Moves, Ending, NotBegun
  <2>3. ASSUME NEW type \in EventTypes, NEW from, NEW to, Route(type, from, to),
               RunRecord(r, type, from, to)
        PROVE  WriterParts'
    BY <2>3, RunRecordWriter
  <2>4. CASE RecordBeginStatus(r)
    BY <1>0, <2>3, <2>4, RunRecordsAre DEF Route, EventTypes
  <2>5. CASE RecordStart(r)
    BY <1>0, <2>3, <2>5, RunRecordsAre DEF Route, EventTypes
  <2>6. CASE RecordProgress(r)
    BY <1>0, <2>3, <2>6, RunRecordsAre DEF Route, EventTypes
  <2>7. CASE RecordCompleted(r)
    BY <1>0, <2>3, <2>7, RunRecordsAre DEF Route, EventTypes, Terminals, Ending
  <2>8. CASE RecordFailed(r)
    BY <1>0, <2>3, <2>8, RunRecordsAre DEF Route, EventTypes, Terminals, Ending
  <2>9. CASE RecordEndStatus(r)
    BY <1>0, <2>3, <2>9, RunRecordsAre DEF Route, EventTypes
  <2> QED
    BY <1>1, <2>1, <2>2, <2>4, <2>5, <2>6, <2>7, <2>8, <2>9 DEF RunStep
<1>2. ASSUME NEW a \in Aborters, AbortStep(a) \/ WaitTimeout(a) PROVE WriterParts'
  <2>1. CASE \/ CheckRunning(a) \/ SnapshotActive(a) \/ ObserveAbort(a) \/ CancelThread(a)
             \/ WaitDone(a) \/ WaitTimeout(a)
    <3>1. /\ UNCHANGED <<log, lifecycle, rpc, failed, faults>> /\ terminal \subseteq terminal'
          /\ \A b \in Aborters : apc'[b] = "record" =>
                 \/ apc[b] = "record" /\ target'[b] = target[b]
                 \/ target'[b] \in terminal' \ terminal
      BY <1>0, <2>1
      DEF CheckRunning, SnapshotActive, ObserveAbort, CancelThread, WaitDone, WaitTimeout, AbortGoto,
          Duplicate, TypeOK, session, store, bounds, aside
    <3>2. \A r \in Runs : rpc[r] \in Ending => r \in terminal'
      BY <1>0, <3>1 DEF WriterParts, OneWriter
    <3> QED
      BY <1>0, <3>1, <3>2, WriterSame
  <2>3. CASE RecordAbortFailed(a)
    BY <1>0, <2>3, AbortRecordsAre, AbortRecordWriter DEF EventTypes, Terminals
  <2>4. CASE RecordAbortStatus(a)
    BY <1>0, <2>4, AbortRecordsAre, AbortRecordWriter DEF EventTypes
  <2> QED
    BY <1>2, <2>1, <2>3, <2>4 DEF AbortStep
<1>3. CASE Crash
  <2>1. /\ UNCHANGED <<log, failed, faults>> /\ terminal' = {}
        /\ \A a \in Aborters : apc'[a] \in {"new", "done"}
        /\ \A r \in Runs : rpc'[r] \in {"new", "done"} /\ (rpc'[r] = "new" => rpc[r] = "new")
    BY <1>3 DEF Crash
  <2>2. \A i \in 1..Len(log) : log[i].run \in Runs
    BY <1>0, EntryTypes
  <2>3. \A r \in Runs : Ended(r)' => rpc'[r] = "done"
    <3> SUFFICES ASSUME NEW r \in Runs, NEW t \in Terminals, Observed(t, r)' PROVE rpc'[r] = "done"
      BY DEF Ended
    <3>1. PICK i \in 1..Len(log) : <<log[i].type, log[i].run>> = <<t, r>>
      BY <1>3 DEF Crash, Observed
    <3>2. rpc[r] # "new"
      BY <1>0, <3>1 DEF WriterParts, LogBegun, NotBegun
    <3> QED
      BY <2>1, <3>2
  <2>4. OneWriter' /\ StartObserved'
    BY <1>0, <2>1, <2>3 DEF WriterParts, OneWriter, StartObserved, Ending
  <2>6. Silenced'
    BY <1>0, <2>1, SilencedSame DEF TypeOK, WriterParts
  <2>5. LogBegun'
    <3>1. ASSUME NEW t \in EventTypes, NEW r \in Runs, Observed(t, r)' PROVE rpc'[r] \notin NotBegun
      <4>1. PICK i \in 1..Len(log) : <<log[i].type, log[i].run>> = <<t, r>>
        BY <1>3, <3>1 DEF Crash, Observed
      <4>2. rpc[r] # "new"
        BY <1>0, <4>1 DEF WriterParts, LogBegun, NotBegun
      <4> QED
        BY <2>1, <4>2 DEF NotBegun
    <3>2. \A i \in 1..Len(log) : rpc'[log[i].run] \notin NotBegun
      BY <1>0, <2>1, <2>2 DEF WriterParts, LogBegun, NotBegun
    <3> QED
      BY <2>1, <3>1, <3>2 DEF LogBegun
  <2> QED
    BY <2>4, <2>5, <2>6 DEF WriterParts
<1>4. CASE UNCHANGED vars
  <2>1. UNCHANGED <<log, lifecycle, rpc, failed, faults, terminal, apc, target>>
    BY <1>4 DEF vars, session, store, aborter, bounds
  <2>2. \A r \in Runs : rpc[r] \in Ending => r \in terminal
    BY <1>0 DEF WriterParts, OneWriter
  <2> QED
    BY <1>0, <2>1, <2>2, WriterSame
<1> QED
  BY <1>1, <1>2, <1>3, <1>4 DEF Next, Terminated

LEMMA WriterInit == Init => WriterInv
<1> SUFFICES ASSUME Init PROVE WriterParts
  BY ThreadInit DEF WriterInv
<1>1. 1..Len(log) = {} /\ \A t, q : ~Observed(t, q)
  BY EmptySeq DEF Init, Observed
<1>2. Silenced
  BY FS_EmptySet DEF Init, Silenced, OnlyFaultsSilence
<1> QED
  BY <1>1, <1>2 DEF Init, WriterParts, OneWriter, StartObserved, LogBegun, Ended, Ending

\* Only a disk error silences a run's events, and as many runs at most as appends have
\* failed: observeRunEvent and abortActiveRun, which classify an event under Session.mu
\* and record it after the unlock, never make AppendEvent refuse one of the runner's.
THEOREM SilenceNeedsFault == Spec => []OnlyFaultsSilence
<1>1. WriterInv => OnlyFaultsSilence
  BY DEF WriterInv, WriterParts, Silenced
<1> QED
  BY <1>1, WriterInit, WriterStep, PTL DEF Spec

-----------------------------------------------------------------------------
(* Run numbers.  Nothing in the log has a number above the current one;    *)
(* what runners record of themselves they record once their run has begun; *)
(* while a run has the thread, the current number is on its own records    *)
(* and on no other run's.                                                  *)
RunnersOwn == {"run.started", "progress", "run.completed"}

Highest == \A i \in 1..Len(log) : log[i].seq <= runSeq

OwnLate == \A i \in 1..Len(log) : log[i].type \in RunnersOwn =>
               rpc[log[i].run] \in Late \ {"record start"}

NoNumber == {"new", "promoted", "begin", "done"}
OwnNumber ==
    \A r \in Runs : rpc[r] \notin NoNumber =>
        \A i \in 1..Len(log) : log[i].type \in RunnersOwn => (log[i].run = r <=> log[i].seq = runSeq)

NumberInv == Highest /\ OwnLate /\ OwnNumber /\ OneNumberEach

\* The labels of the runs move on, and only a run with the thread records
\* anything of its own.
Onward(own, r) ==
    /\ own => rpc'[r] \in Late \ {"record start"} /\ rpc[r] \notin NoNumber
    /\ \A q \in Runs : rpc[q] \in Late \ {"record start"} => rpc'[q] \in Late \ {"record start"}
    /\ \A q \in Runs : rpc'[q] \notin NoNumber =>
           rpc[q] \notin NoNumber /\ (own => q = r)

LEMMA NumbersMore ==
    ASSUME TypeOK, NumberInv, NEW type \in EventTypes, NEW r \in Runs, OneMore(type, r),
           runSeq' = runSeq, Onward(type \in RunnersOwn, r)
    PROVE  NumberInv'
<1> DEFINE n == Len(log) + 1
<1>0. Len(log) \in Nat /\ runSeq \in Nat
  BY LenProperties DEF TypeOK
<1>1. /\ \A i \in 1..Len(log') : i \in 1..Len(log) \/ i = n
      /\ \A i \in 1..Len(log) : log'[i] = log[i]
      /\ log'[n].type = type /\ log'[n].run = r /\ log'[n].seq = runSeq
  <2>1. log'[n] = [type |-> type, run |-> r, seq |-> runSeq]
    BY DEF OneMore
  <2>2. /\ \A i \in 1..Len(log') : i \in 1..Len(log) \/ i = n
        /\ \A i \in 1..Len(log) : log'[i] = log[i]
    BY DEF OneMore
  <2> HIDE DEF n
  <2>3. log'[n].type = type /\ log'[n].run = r /\ log'[n].seq = runSeq
    BY <2>1
  <2> QED
    BY <2>2, <2>3
<1> HIDE DEF n
<1>2. \A i \in 1..Len(log) : log[i].run \in Runs /\ log[i].seq \in Nat
  BY EntryTypes
<1>3. Highest'
  <2>1. ASSUME NEW i \in 1..Len(log') PROVE log'[i].seq <= runSeq
    <3>1. CASE i \in 1..Len(log)
      BY <1>1, <3>1 DEF NumberInv, Highest
    <3>2. CASE i = n
      <4>1. log'[i].seq = runSeq
        BY <1>1, <3>2
      <4> QED
        BY <1>0, <4>1
    <3> QED
      BY <1>1, <2>1, <3>1, <3>2
  <2> QED
    BY <2>1 DEF Highest
<1>4. OwnLate'
  <2>1. type \in RunnersOwn => rpc'[r] \in Late \ {"record start"}
    BY DEF Onward
  <2>2. \A q \in Runs : rpc[q] \in Late \ {"record start"} => rpc'[q] \in Late \ {"record start"}
    BY DEF Onward
  <2> QED
    BY <1>1, <1>2, <2>1, <2>2 DEF NumberInv, OwnLate
<1>5. ASSUME NEW q \in Runs, rpc'[q] \notin NoNumber,
             NEW i \in 1..Len(log'), log'[i].type \in RunnersOwn
      PROVE  log'[i].run = q <=> log'[i].seq = runSeq
  <2>0. rpc[q] \notin NoNumber /\ (type \in RunnersOwn => q = r)
    BY <1>5 DEF Onward
  <2>1. CASE i \in 1..Len(log)
    <3>1. log'[i] = log[i]
      BY <1>1, <2>1
    <3> QED
      BY <1>5, <2>0, <2>1, <3>1 DEF NumberInv, OwnNumber
  <2>2. CASE i = n
    <3>1. log'[i].type = type /\ log'[i].run = r /\ log'[i].seq = runSeq
      BY <1>1, <2>2
    <3> QED
      BY <1>5, <2>0, <3>1
  <2> QED
    BY <1>1, <1>5, <2>1, <2>2
<1>6. ASSUME NEW i \in 1..Len(log'), NEW j \in 1..Len(log'),
             log'[i].type \in RunnersOwn, log'[j].type \in RunnersOwn, log'[i].type = "run.started"
      PROVE  log'[i].run = log'[j].run <=> log'[i].seq = log'[j].seq
  <2>0. ASSUME type \in RunnersOwn, NEW k \in 1..Len(log), log[k].type \in RunnersOwn
        PROVE  log[k].run = r <=> log[k].seq = runSeq
    <3>1. rpc[r] \notin NoNumber
      BY <2>0 DEF Onward
    <3> QED
      BY <2>0, <3>1 DEF NumberInv, OwnNumber
  <2>1. CASE i \in 1..Len(log) /\ j \in 1..Len(log)
    <3>1. log'[i] = log[i] /\ log'[j] = log[j]
      BY <1>1, <2>1
    <3> QED
      BY <1>6, <2>1, <3>1 DEF NumberInv, OneNumberEach, RunnersOwn
  <2>2. CASE i \in 1..Len(log) /\ j = n
    <3>1. log'[i] = log[i] /\ log'[j].type = type /\ log'[j].run = r /\ log'[j].seq = runSeq
      BY <1>1, <2>2
    <3> QED
      BY <1>6, <2>0, <2>2, <3>1
  <2>3. CASE i = n /\ j \in 1..Len(log)
    <3>1. log'[j] = log[j] /\ log'[i].type = type /\ log'[i].run = r /\ log'[i].seq = runSeq
      BY <1>1, <2>3
    <3> QED
      BY <1>6, <2>0, <2>3, <3>1
  <2>4. CASE i = n /\ j = n
    BY <2>4
  <2> QED
    BY <1>1, <1>6, <2>1, <2>2, <2>3, <2>4
<1>7. OneNumberEach'
  BY <1>6 DEF OneNumberEach, RunnersOwn
<1>8. OwnNumber'
  BY <1>5 DEF OwnNumber
<1> QED
  BY <1>3, <1>4, <1>7, <1>8 DEF NumberInv

\* A step that appends nothing.
LEMMA NumbersSame ==
    ASSUME TypeOK, NumberInv, log' = log, runSeq' = runSeq, NEW r, Onward(FALSE, r)
    PROVE  NumberInv'
<1>1. \A i \in 1..Len(log) : log[i].run \in Runs
  BY EntryTypes
<1>2. /\ \A q \in Runs : rpc[q] \in Late \ {"record start"} => rpc'[q] \in Late \ {"record start"}
      /\ \A q \in Runs : rpc'[q] \notin NoNumber => rpc[q] \notin NoNumber
  BY DEF Onward
<1>3. Highest' /\ OneNumberEach'
  BY DEF NumberInv, Highest, OneNumberEach
<1>4. OwnLate'
  BY <1>1, <1>2 DEF NumberInv, OwnLate
<1>5. OwnNumber'
  BY <1>2 DEF NumberInv, OwnNumber
<1> QED
  BY <1>3, <1>4, <1>5 DEF NumberInv

LEMMA RunRecordNumbers ==
    ASSUME ThreadInv, NumberInv, NEW r \in Runs, NEW type \in EventTypes, NEW from, NEW to,
           Route(type, from, to), RunRecord(r, type, from, to), from \in RunLabels
    PROVE  NumberInv'
<1>0. TypeOK /\ HolderOK
  BY DEF ThreadInv, TypeInv
<1>1. rpc[r] = from /\ Moves(r) /\ runSeq' = runSeq
  BY DEF RunRecord
<1>2. /\ from \notin NoNumber /\ to \notin NoNumber \union {"record start"}
      /\ from \in Late => to \in Late
      /\ type \in RunnersOwn => to \in Late
  BY DEF Route, Late, Begun, Ending, RunnersOwn, NoNumber
<1>3. \A q \in Runs : rpc[q] \notin NoNumber => q = r
  BY <1>0, <1>1, <1>2 DEF HolderOK, NoNumber
<1>4. rpc'[r] = to \/ rpc'[r] = "returned"
  BY DEF RunRecord
<1>5. \A q \in Runs : rpc[q] \in Late \ {"record start"} => rpc'[q] \in Late \ {"record start"}
  BY <1>1, <1>2, <1>4 DEF Moves, Late
<1>6. CASE OneMore(type, r)
  <2>1. type \in RunnersOwn => rpc'[r] \in Late \ {"record start"} /\ rpc[r] \notin NoNumber
    BY <1>1, <1>2, <1>4 DEF Late
  <2>2. \A q \in Runs : rpc'[q] \notin NoNumber => rpc[q] \notin NoNumber /\ q = r
    BY <1>1, <1>2, <1>3 DEF Moves
  <2>3. Onward(type \in RunnersOwn, r)
    BY <1>5, <2>1, <2>2 DEF Onward
  <2> QED
    BY <1>0, <1>1, <1>6, <2>3, NumbersMore
<1>7. CASE log' = log
  <2>1. \A q \in Runs : rpc'[q] \notin NoNumber => rpc[q] \notin NoNumber
    BY <1>1, <1>2 DEF Moves
  <2>2. Onward(FALSE, r)
    BY <1>5, <2>1 DEF Onward
  <2> QED
    BY <1>0, <1>1, <1>7, <2>2, NumbersSame
<1> QED
  BY <1>6, <1>7 DEF RunRecord, Accepted, Refused

LEMMA AbortRecordNumbers ==
    ASSUME ThreadInv, NumberInv, NEW a \in Aborters, NEW type \in EventTypes \ RunnersOwn,
           NEW from, NEW to, target[a] \in Runs, AbortRecord(a, type, from, to)
    PROVE  NumberInv'
<1>0. TypeOK
  BY DEF ThreadInv, TypeInv
<1>1. rpc' = rpc /\ runSeq' = runSeq
  BY DEF AbortRecord
<1>2. Onward(FALSE, target[a]) /\ Onward(type \in RunnersOwn, target[a])
  BY <1>1 DEF Onward
<1>3. CASE OneMore(type, target[a])
  BY <1>0, <1>1, <1>2, <1>3, NumbersMore
<1>4. CASE log' = log
  BY <1>0, <1>1, <1>2, <1>4, NumbersSame
<1> QED
  BY <1>3, <1>4 DEF AbortRecord, Accepted, Refused

LEMMA NumberStep == ThreadInv /\ NumberInv /\ [Next]_vars => NumberInv'
<1> SUFFICES ASSUME ThreadInv, NumberInv, [Next]_vars PROVE NumberInv'
  OBVIOUS
<1>0. TypeOK /\ TargetOK /\ HolderOK
  BY DEF ThreadInv, TypeInv
<1>1. ASSUME NEW r \in Runs, RunStep(r) PROVE NumberInv'
  <2>0. Moves(r)
    BY <1>0, <1>1, RunMoves
  <2>1. CASE \/ Promote(r) \/ PromoteFails(r) \/ Start(r) \/ Refuse(r)
             \/ SetActive(r) \/ ObserveEnd(r) \/ FinishRun(r)
    <3>1. /\ UNCHANGED <<log, runSeq>>
          /\ \/ rpc[r] \in {"new", "promoted"} /\ rpc'[r] \in NoNumber
             \/ rpc[r] = "set active" /\ rpc'[r] = "record start"
             \/ rpc[r] \notin NoNumber /\ rpc'[r] \in Late \ {"record start"}
      BY <1>0, <2>1
      DEF Promote, PromoteFails, Start, Refuse, SetActive, ObserveEnd, FinishRun, RunGoto, TypeOK,
          session, store, Late, Begun, NoNumber
    <3>2. Onward(FALSE, r)
      BY <2>0, <3>1 DEF Moves, Onward, Late, Begun, NoNumber
    <3> QED
      BY <1>0, <3>1, <3>2, NumbersSame
  <2>2. CASE BeginStatus(r)
    <3>1. log' = log /\ rpc[r] = "begin" /\ rpc'[r] = "record status"
      BY <1>0, <2>2 DEF BeginStatus, RunGoto, TypeOK, store
    <3>2. \A i \in 1..Len(log) : log[i].run \in Runs /\ log[i].seq \in Nat
      BY <1>0, EntryTypes
    <3>3. \A i \in 1..Len(log) : log[i].seq <= runSeq' /\ log[i].seq # runSeq'
      <4>1. runSeq \in Nat
        BY <1>0 DEF TypeOK
      <4>2. \A i \in 1..Len(log) : log[i].seq <= runSeq
        BY DEF NumberInv, Highest
      <4>3. runSeq' \in Nat /\ runSeq' >= runSeq + 1
        BY <1>0, <2>2, BeginsAbove
      <4> QED
        BY <3>2, <4>1, <4>2, <4>3
    <3>4. \A i \in 1..Len(log) : log[i].type \in RunnersOwn => log[i].run # r
      BY <3>1 DEF NumberInv, OwnLate, Late, Begun
    <3>5. \A q \in Runs : rpc'[q] \notin NoNumber => q = r
      BY <1>0, <2>0, <3>1 DEF HolderOK, Moves, NoNumber
    <3>6. Highest' /\ OneNumberEach'
      <4>1. log' = log /\ \A i \in 1..Len(log) : log[i].seq <= runSeq'
        BY <3>1, <3>3
      <4>2. Highest'
        BY <4>1 DEF Highest
      <4>3. OneNumberEach'
        BY <4>1 DEF NumberInv, OneNumberEach
      <4> QED
        BY <4>2, <4>3
    <3>7. OwnLate'
      BY <2>0, <3>1, <3>2, <3>4 DEF NumberInv, OwnLate, Moves, Late, Begun
    <3>8. OwnNumber'
      BY <3>1, <3>3, <3>4, <3>5 DEF OwnNumber
    <3> QED
      BY <3>6, <3>7, <3>8 DEF NumberInv
  <2>3. ASSUME NEW type \in EventTypes, NEW from \in RunLabels, NEW to, Route(type, from, to),
               RunRecord(r, type, from, to)
        PROVE  NumberInv'
    BY <2>3, RunRecordNumbers
  <2>4. CASE RecordBeginStatus(r)
    BY <1>0, <2>3, <2>4, RunRecordsAre DEF Route, EventTypes, RunLabels
  <2>5. CASE RecordStart(r)
    BY <1>0, <2>3, <2>5, RunRecordsAre DEF Route, EventTypes, RunLabels
  <2>6. CASE RecordProgress(r)
    BY <1>0, <2>3, <2>6, RunRecordsAre DEF Route, EventTypes, RunLabels
  <2>7. CASE RecordCompleted(r)
    BY <1>0, <2>3, <2>7, RunRecordsAre DEF Route, EventTypes, Terminals, Ending, RunLabels
  <2>8. CASE RecordFailed(r)
    BY <1>0, <2>3, <2>8, RunRecordsAre DEF Route, EventTypes, Terminals, Ending, RunLabels
  <2>9. CASE RecordEndStatus(r)
    BY <1>0, <2>3, <2>9, RunRecordsAre DEF Route, EventTypes, RunLabels
  <2> QED
    BY <1>1, <2>1, <2>2, <2>4, <2>5, <2>6, <2>7, <2>8, <2>9 DEF RunStep
<1>2. ASSUME NEW a \in Aborters, AbortStep(a) \/ WaitTimeout(a) PROVE NumberInv'
  <2>1. CASE \/ CheckRunning(a) \/ SnapshotActive(a) \/ ObserveAbort(a) \/ CancelThread(a)
             \/ WaitDone(a) \/ WaitTimeout(a)
    <3>1. UNCHANGED <<log, rpc, runSeq>>
      BY <2>1 DEF CheckRunning, SnapshotActive, ObserveAbort, CancelThread, WaitDone, WaitTimeout,
                  session, store
    <3>2. Onward(FALSE, Nil)
      BY <3>1 DEF Onward
    <3> QED
      BY <1>0, <3>1, <3>2, NumbersSame
  <2>2. CASE RecordAbortFailed(a)
    BY <1>0, <2>2, AbortRecordsAre, AbortRecordNumbers DEF EventTypes, Terminals, RunnersOwn
  <2>3. CASE RecordAbortStatus(a)
    BY <1>0, <2>3, AbortRecordsAre, AbortRecordNumbers DEF EventTypes, RunnersOwn
  <2> QED
    BY <1>2, <2>1, <2>2, <2>3 DEF AbortStep
<1>3. CASE Crash
  <2>1. /\ log' = log /\ runSeq' \in Restored
        /\ \A r \in Runs : rpc'[r] = IF rpc[r] = "new" THEN "new" ELSE "done"
    BY <1>3 DEF Crash
  <2>2. \A i \in 1..Len(log) : log[i].run \in Runs
    BY <1>0, EntryTypes
  <2>3. Highest' /\ OneNumberEach'
    BY <2>1 DEF NumberInv, Highest, OneNumberEach, Restored
  <2>4. OwnLate'
    BY <2>1, <2>2 DEF NumberInv, OwnLate, Late, Begun
  <2>5. OwnNumber'
    BY <2>1 DEF OwnNumber, NoNumber
  <2> QED
    BY <2>3, <2>4, <2>5 DEF NumberInv
<1>4. CASE UNCHANGED vars
  <2>1. UNCHANGED <<log, rpc, runSeq>>
    BY <1>4 DEF vars, session, store
  <2>2. Onward(FALSE, Nil)
    BY <2>1 DEF Onward
  <2> QED
    BY <1>0, <2>1, <2>2, NumbersSame
<1> QED
  BY <1>1, <1>2, <1>3, <1>4 DEF Next, Terminated

(* The promises.  Inputs on their way to their run have a number each, none  *)
(* above the ledger's; and until a run is overtaken, those numbers are still *)
(* to come and the others are kept.                                          *)
OnTheWay == {"promoted", "begin"}

PromisedOnce ==
    \A r \in Runs : rpc[r] \in OnTheWay =>
        /\ promised[r] <= given
        /\ \A q \in Runs : rpc[q] \in OnTheWay /\ promised[q] = promised[r] => q = r

ToCome == \A r \in Runs : rpc[r] \in OnTheWay => promised[r] > runSeq
KeptNow == \A r \in Runs : rpc[r] \notin NoNumber => runSeq = promised[r]

PromiseInv == PromisedOnce /\ (overtaken = {} => ToCome /\ KeptNow /\ AsPromised)

\* A step that appends no run.started of another number than the run's.
LEMMA PromisesSame ==
    ASSUME TypeOK, PromiseInv, UNCHANGED <<promised, runSeq, given, overtaken>>,
           \A r \in Runs : rpc'[r] \in OnTheWay => rpc[r] \in OnTheWay,
           \A r \in Runs : rpc'[r] \notin NoNumber => rpc[r] \notin NoNumber,
           overtaken = {} => AsPromised'
    PROVE  PromiseInv'
BY DEF PromiseInv, PromisedOnce, ToCome, KeptNow

LEMMA AsPromisedStep ==
    ASSUME TypeOK, AsPromised, UNCHANGED promised, NEW type \in EventTypes, NEW r \in Runs,
           log' = log \/ OneMore(type, r), type = "run.started" => runSeq = promised[r]
    PROVE  AsPromised'
<1>1. ASSUME NEW i \in 1..Len(log'), log'[i].type = "run.started"
      PROVE  log'[i].seq = promised[log'[i].run]
  <2>1. CASE i \in 1..Len(log) /\ log'[i] = log[i]
    BY <1>1, <2>1 DEF AsPromised
  <2>2. CASE log'[i] = [type |-> type, run |-> r, seq |-> runSeq]
    BY <1>1, <2>2
  <2> QED
    BY <1>1, <2>1, <2>2 DEF OneMore
<1> QED
  BY <1>1 DEF AsPromised

LEMMA RunRecordPromises ==
    ASSUME TypeOK, PromiseInv, NEW r \in Runs, NEW type \in EventTypes, NEW from, NEW to,
           Route(type, from, to), RunRecord(r, type, from, to)
    PROVE  PromiseInv'
<1>1. /\ rpc[r] = from /\ Moves(r) /\ UNCHANGED <<promised, runSeq, given, overtaken>>
      /\ log' = log \/ OneMore(type, r)
      /\ rpc'[r] = to \/ rpc'[r] = "returned"
  BY DEF RunRecord, Accepted, Refused, ledger, history
<1>2. from \notin NoNumber /\ to \notin OnTheWay
  BY DEF Route, Ending, NoNumber, OnTheWay
<1>3. overtaken = {} => AsPromised'
  BY <1>1, <1>2, AsPromisedStep DEF PromiseInv, KeptNow
<1> QED
  BY <1>1, <1>2, <1>3, PromisesSame DEF Moves, OnTheWay

LEMMA AbortRecordPromises ==
    ASSUME TypeOK, PromiseInv, NEW a \in Aborters, NEW type \in EventTypes \ RunnersOwn,
           NEW from, NEW to, target[a] \in Runs, AbortRecord(a, type, from, to)
    PROVE  PromiseInv'
<1>1. UNCHANGED <<promised, runSeq, given, overtaken, rpc>> /\ (log' = log \/ OneMore(type, target[a]))
  BY DEF AbortRecord, Accepted, Refused, ledger
<1>2. overtaken = {} => AsPromised'
  BY <1>1, AsPromisedStep DEF PromiseInv, RunnersOwn
<1> QED
  BY <1>1, <1>2, PromisesSame

LEMMA PromotePromises ==
    ASSUME TypeOK, NumberInv, PromiseInv, NEW r \in Runs, Promote(r)
    PROVE  PromiseInv'
<1>1. /\ UNCHANGED <<runSeq, overtaken, log>> /\ rpc[r] = "new" /\ rpc'[r] = "promoted"
      /\ \A q \in Runs : q # r => rpc'[q] = rpc[q] /\ promised'[q] = promised[q]
      /\ promised'[r] = NextNumber /\ given' = NextNumber
  BY DEF Promote, RunGoto, TypeOK, session, store, history
<1>2. /\ runSeq \in Nat /\ given \in Nat /\ \A q \in Runs : promised[q] \in Nat
      /\ NextNumber \in Nat /\ NextNumber > runSeq /\ NextNumber > given
  BY NextNumberIs DEF TypeOK
<1>3. \A q \in Runs : rpc[q] \in OnTheWay =>
          q # r /\ promised[q] <= given /\ promised[q] < NextNumber
  BY <1>1, <1>2 DEF PromiseInv, PromisedOnce, OnTheWay
<1>4. PromisedOnce'
  <2>1. ASSUME NEW q \in Runs, rpc'[q] \in OnTheWay PROVE promised'[q] <= given'
    BY <1>1, <1>2, <1>3, <2>1
  <2>2. ASSUME NEW q \in Runs, rpc'[q] \in OnTheWay, NEW p \in Runs, rpc'[p] \in OnTheWay,
               promised'[p] = promised'[q]
        PROVE  p = q
    <3>1. CASE p # r /\ q # r
      BY <1>1, <2>2, <3>1 DEF PromiseInv, PromisedOnce
    <3>2. CASE p = r /\ q # r
      BY <1>1, <1>2, <1>3, <2>2, <3>2
    <3>3. CASE p # r /\ q = r
      BY <1>1, <1>2, <1>3, <2>2, <3>3
    <3> QED
      BY <3>1, <3>2, <3>3
  <2> QED
    BY <2>1, <2>2 DEF PromisedOnce
<1>5. ASSUME overtaken = {} PROVE ToCome' /\ KeptNow' /\ AsPromised'
  <2>1. ToCome /\ KeptNow /\ AsPromised
    BY <1>5 DEF PromiseInv
  <2>2. ToCome'
    BY <1>1, <1>2, <2>1 DEF ToCome
  <2>3. KeptNow'
    BY <1>1, <2>1 DEF KeptNow, NoNumber
  <2>4. \A i \in 1..Len(log) : log[i].type = "run.started" => log[i].run \in Runs \ {r}
    BY <1>1, EntryTypes DEF NumberInv, OwnLate, RunnersOwn, Late, Begun
  <2>5. AsPromised'
    BY <1>1, <2>1, <2>4 DEF AsPromised
  <2> QED
    BY <2>2, <2>3, <2>5
<1> QED
  BY <1>1, <1>4, <1>5 DEF PromiseInv

\* The run that begins takes its number when no lower one is still on the way.
LEMMA BeginPromises ==
    ASSUME TypeOK, HolderOK, PromiseInv, NEW r \in Runs, BeginStatus(r)
    PROVE  PromiseInv'
<1>1. /\ UNCHANGED <<promised, given, log>> /\ rpc[r] = "begin" /\ rpc'[r] = "record status"
      /\ \A q \in Runs : q # r => rpc'[q] = rpc[q]
      /\ Overtakes(r)
  BY DEF BeginStatus, RunGoto, TypeOK, ledger, store
<1>2. PromisedOnce'
  BY <1>1 DEF PromiseInv, PromisedOnce, OnTheWay
<1>3. ASSUME overtaken' = {} PROVE ToCome' /\ KeptNow' /\ AsPromised'
  <2>1. overtaken = {} /\ \A q \in Runs : ~(rpc[q] = "promoted" /\ promised[q] < promised[r])
    BY <1>1, <1>3 DEF Overtakes
  <2>2. /\ ToCome /\ KeptNow /\ AsPromised /\ runSeq \in Nat
        /\ \A q \in Runs : promised[q] \in Nat
    BY <2>1 DEF PromiseInv, TypeOK
  <2>3. runSeq' = promised[r]
    <3>1. promised[r] > runSeq
      BY <1>1, <2>2 DEF ToCome, OnTheWay
    <3> QED
      BY <3>1, BeginsAbove
  <2>4. \A q \in Runs : rpc'[q] \in OnTheWay => rpc[q] = "promoted" /\ q # r
    BY <1>1 DEF OnTheWay, HolderOK
  <2>5. ASSUME NEW q \in Runs, rpc'[q] \in OnTheWay PROVE promised[q] > promised[r]
    <3>1. promised[q] # promised[r]
      BY <1>1, <2>4, <2>5 DEF PromiseInv, PromisedOnce, OnTheWay
    <3> QED
      BY <2>1, <2>2, <2>4, <2>5, <3>1
  <2>6. ToCome'
    BY <1>1, <2>3, <2>5 DEF ToCome
  <2>7. \A q \in Runs : rpc'[q] \notin NoNumber => q = r
    BY <1>1 DEF HolderOK, NoNumber
  <2>8. KeptNow'
    BY <1>1, <2>3, <2>7 DEF KeptNow
  <2>9. AsPromised'
    BY <1>1, <2>2 DEF AsPromised
  <2> QED
    BY <2>6, <2>8, <2>9
<1> QED
  BY <1>2, <1>3 DEF PromiseInv

LEMMA PromiseStep == ThreadInv /\ NumberInv /\ PromiseInv /\ [Next]_vars => PromiseInv'
<1> SUFFICES ASSUME ThreadInv, NumberInv, PromiseInv, [Next]_vars PROVE PromiseInv'
  OBVIOUS
<1>0. TypeOK /\ TargetOK /\ HolderOK /\ (overtaken = {} => AsPromised)
  BY DEF ThreadInv, TypeInv, PromiseInv
<1>1. ASSUME NEW r \in Runs, RunStep(r) PROVE PromiseInv'
  <2>0. Moves(r)
    BY <1>0, <1>1, RunMoves
  <2>1. CASE Promote(r)
    BY <1>0, <2>1, PromotePromises
  <2>2. CASE PromoteFails(r)
    <3>1. /\ UNCHANGED <<promised, runSeq, overtaken, log>> /\ rpc'[r] = "done"
          /\ given' \in {given, NextNumber}
      BY <1>0, <2>2 DEF PromoteFails, RunGoto, TypeOK, session, store, history
    <3>2. /\ runSeq \in Nat /\ given \in Nat /\ NextNumber \in Nat /\ NextNumber > given
          /\ \A q \in Runs : promised[q] \in Nat
      BY <1>0, NextNumberIs DEF TypeOK
    <3>3. \A q \in Runs : promised[q] <= given => promised[q] <= given'
      BY <3>1, <3>2
    <3>4. PromisedOnce'
      BY <2>0, <3>1, <3>3 DEF PromiseInv, PromisedOnce, Moves, OnTheWay
    <3>5. overtaken = {} => ToCome' /\ KeptNow' /\ AsPromised'
      BY <2>0, <3>1 DEF PromiseInv, ToCome, KeptNow, AsPromised, Moves, OnTheWay, NoNumber
    <3> QED
      BY <3>1, <3>4, <3>5 DEF PromiseInv
  <2>3. CASE BeginStatus(r)
    BY <1>0, <2>3, BeginPromises
  <2>4. CASE Start(r) \/ Refuse(r) \/ SetActive(r) \/ ObserveEnd(r) \/ FinishRun(r)
    <3>1. /\ UNCHANGED <<promised, runSeq, given, overtaken, log>>
          /\ \/ rpc[r] = "promoted" /\ rpc'[r] \in {"begin", "done"}
             \/ rpc[r] \notin NoNumber /\ rpc'[r] \notin OnTheWay
      BY <1>0, <2>4
      DEF Start, Refuse, SetActive, ObserveEnd, FinishRun, RunGoto, TypeOK, session, store, ledger,
          history, aside, NoNumber, OnTheWay
    <3>2. overtaken = {} => AsPromised'
      BY <1>0, <3>1 DEF AsPromised
    <3> QED
      BY <1>0, <2>0, <3>1, <3>2, PromisesSame DEF Moves, OnTheWay, NoNumber
  <2>5. ASSUME NEW type \in EventTypes, NEW from, NEW to, Route(type, from, to),
               RunRecord(r, type, from, to)
        PROVE  PromiseInv'
    BY <1>0, <2>5, RunRecordPromises
  <2>6. CASE RecordBeginStatus(r)
    BY <1>0, <2>5, <2>6, RunRecordsAre DEF Route, EventTypes
  <2>7. CASE RecordStart(r)
    BY <1>0, <2>5, <2>7, RunRecordsAre DEF Route, EventTypes
  <2>8. CASE RecordProgress(r)
    BY <1>0, <2>5, <2>8, RunRecordsAre DEF Route, EventTypes
  <2>9. CASE RecordCompleted(r)
    BY <1>0, <2>5, <2>9, RunRecordsAre DEF Route, EventTypes, Terminals, Ending
  <2>10. CASE RecordFailed(r)
    BY <1>0, <2>5, <2>10, RunRecordsAre DEF Route, EventTypes, Terminals, Ending
  <2>11. CASE RecordEndStatus(r)
    BY <1>0, <2>5, <2>11, RunRecordsAre DEF Route, EventTypes
  <2> QED
    BY <1>1, <2>1, <2>2, <2>3, <2>4, <2>6, <2>7, <2>8, <2>9, <2>10, <2>11 DEF RunStep
<1>2. ASSUME NEW a \in Aborters, AbortStep(a) \/ WaitTimeout(a) PROVE PromiseInv'
  <2>1. CASE \/ CheckRunning(a) \/ SnapshotActive(a) \/ ObserveAbort(a) \/ CancelThread(a)
             \/ WaitDone(a) \/ WaitTimeout(a)
    <3>1. UNCHANGED <<promised, runSeq, given, overtaken, log, rpc>>
      BY <2>1 DEF CheckRunning, SnapshotActive, ObserveAbort, CancelThread, WaitDone, WaitTimeout,
                  session, store, ledger, history, aside
    <3>2. overtaken = {} => AsPromised'
      BY <1>0, <3>1 DEF AsPromised
    <3> QED
      BY <1>0, <3>1, <3>2, PromisesSame
  <2>2. CASE RecordAbortFailed(a)
    BY <1>0, <2>2, AbortRecordsAre, AbortRecordPromises DEF EventTypes, Terminals, RunnersOwn
  <2>3. CASE RecordAbortStatus(a)
    BY <1>0, <2>3, AbortRecordsAre, AbortRecordPromises DEF EventTypes, RunnersOwn
  <2> QED
    BY <1>2, <2>1, <2>2, <2>3 DEF AbortStep
<1>3. CASE Crash
  <2>1. /\ UNCHANGED <<promised, log, overtaken>>
        /\ \A r \in Runs : rpc'[r] \in {"new", "done"}
    BY <1>3 DEF Crash, history
  <2> QED
    BY <1>0, <2>1 DEF PromiseInv, PromisedOnce, ToCome, KeptNow, AsPromised, OnTheWay, NoNumber
<1>4. CASE UNCHANGED vars
  <2>1. UNCHANGED <<promised, runSeq, given, overtaken, log, rpc>>
    BY <1>4 DEF vars, session, store, ledger, history
  <2>2. overtaken = {} => AsPromised'
    BY <1>0, <2>1 DEF AsPromised
  <2> QED
    BY <1>0, <2>1, <2>2, PromisesSame
<1> QED
  BY <1>1, <1>2, <1>3, <1>4 DEF Next, Terminated

\* Runs and run numbers are one to one in what the runners record: the number given
\* out by promoteInput is the one beginRunStatusWithContextEpoch takes, or a later
\* one if the run was overtaken, none is given to two runs and none changes during a
\* run, aborts, failed appends and the number that a restart reads back from the log
\* (replaySessionStatus) included.
THEOREM OneNumberPerRun == Spec => []RunNumbersHold
<1>1. Init => NumberInv /\ PromiseInv
  <2> SUFFICES ASSUME Init PROVE NumberInv /\ PromiseInv
    OBVIOUS
  <2>1. 1..Len(log) = {} /\ \A r \in Runs : rpc[r] = "new"
    BY EmptySeq DEF Init
  <2>2. NumberInv
    BY <2>1 DEF NumberInv, Highest, OwnLate, OwnNumber, OneNumberEach, NoNumber
  <2>3. PromiseInv
    BY <2>1 DEF PromiseInv, PromisedOnce, ToCome, KeptNow, AsPromised, OnTheWay, NoNumber
  <2> QED
    BY <2>2, <2>3
<1>2. NumberInv /\ PromiseInv => RunNumbersHold
  BY DEF NumberInv, PromiseInv, RunNumbersHold
<1> QED
  BY <1>1, <1>2, ThreadInit, ThreadStep, NumberStep, PromiseStep, PTL DEF Spec

-----------------------------------------------------------------------------
(* How a run is closed, as long as nothing fails: what is on record is what *)
(* the validator has observed, at most one terminal event of a run; a run   *)
(* that is over is terminal, and a terminal run has its event on record, or *)
(* has its writer.                                                          *)
Agreed == faults = 0 => \A t \in EventTypes, r \in Runs : Logged(t, r) <=> Observed(t, r)

EndsOnce ==
    faults = 0 => \A i, j \in 1..Len(log) :
        log[i].run = log[j].run /\ log[i].type \in Terminals /\ log[j].type \in Terminals => i = j

Over(r) ==
    rpc[r] \in {"record end status", "returned"} \/ (rpc[r] = "done" /\ Observed("run.started", r))

OverIsTerminal == faults = 0 /\ crashes = 0 => \A r \in Runs : Over(r) => r \in terminal

HasWriter(r) == rpc[r] \in Ending \/ \E a \in Aborters : apc[a] = "record" /\ target[a] = r

TerminalIsWritten ==
    faults = 0 /\ crashes = 0 => \A r \in terminal \ early : Ended(r) \/ HasWriter(r)

ClosedInv == Agreed /\ EndsOnce /\ OverIsTerminal /\ TerminalIsWritten

\* What a step may do to faults: nothing, or one more, which is not none.
LEMMA NoFault ==
    ASSUME TypeOK, faults' = faults \/ faults' = faults + 1, faults' = 0
    PROVE  faults' = faults
<1>1. faults \in Nat
  BY DEF TypeOK
<1> QED
  BY <1>1

LEMMA AgreedStep ==
    ASSUME TypeOK, Agreed, NEW type \in EventTypes, NEW r \in Runs, faults' = 0 => faults = 0,
           \/ OneMore(type, r) /\ Observing(type, r)
           \/ UNCHANGED <<log, lifecycle>>
           \/ faults' # 0
    PROVE  Agreed'
<1> SUFFICES ASSUME faults' = 0, NEW t \in EventTypes, NEW q \in Runs
             PROVE  Logged(t, q)' <=> Observed(t, q)'
  BY DEF Agreed
<1>0. Logged(t, q) <=> Observed(t, q)
  BY DEF Agreed
<1>1. CASE OneMore(type, r) /\ Observing(type, r)
  BY <1>0, <1>1, LoggedMore, ObservedMore
<1>2. CASE UNCHANGED <<log, lifecycle>>
  BY <1>0, <1>2, LoggedSame, ObservedSame
<1> QED
  BY <1>1, <1>2

LEMMA EndsOnceStep ==
    ASSUME TypeOK, Agreed, EndsOnce, NEW type \in EventTypes, NEW r \in Runs, faults' = 0 => faults = 0,
           \/ OneMore(type, r) /\ LifecycleAllows(type, r)
           \/ log' = log
           \/ faults' # 0
    PROVE  EndsOnce'
<1> SUFFICES ASSUME faults' = 0 PROVE EndsOnce'
  BY DEF EndsOnce
<1>0. faults = 0
  OBVIOUS
<1>1. CASE log' = log
  BY <1>0, <1>1 DEF EndsOnce
<1>2. CASE OneMore(type, r) /\ LifecycleAllows(type, r)
  <2> DEFINE n == Len(log) + 1
  <2>1. /\ \A i \in 1..Len(log') : i \in 1..Len(log) \/ i = n
        /\ \A i \in 1..Len(log) : log'[i] = log[i]
        /\ log'[n].type = type /\ log'[n].run = r
    <3>1. log'[n] = [type |-> type, run |-> r, seq |-> runSeq]
      BY <1>2 DEF OneMore
    <3>2. /\ \A i \in 1..Len(log') : i \in 1..Len(log) \/ i = n
          /\ \A i \in 1..Len(log) : log'[i] = log[i]
      BY <1>2 DEF OneMore
    <3> HIDE DEF n
    <3>3. log'[n].type = type /\ log'[n].run = r
      BY <3>1
    <3> QED
      BY <3>2, <3>3
  <2> HIDE DEF n
  <2>2. type \in Terminals => \A i \in 1..Len(log) : ~(log[i].run = r /\ log[i].type \in Terminals)
    <3>1. \A t \in Terminals : ~(type \in Terminals /\ Logged(t, r))
      BY <1>0, <1>2 DEF LifecycleAllows, Agreed, EventTypes
    <3> QED
      BY <3>1 DEF Logged
  <2>3. ASSUME NEW i \in 1..Len(log'), NEW j \in 1..Len(log'), log'[i].run = log'[j].run,
               log'[i].type \in Terminals, log'[j].type \in Terminals
        PROVE  i = j
    <3>1. CASE i \in 1..Len(log) /\ j \in 1..Len(log)
      <4>1. log'[i] = log[i] /\ log'[j] = log[j]
        BY <2>1, <3>1
      <4> QED
        BY <1>0, <2>3, <3>1, <4>1 DEF EndsOnce
    <3>2. CASE i \in 1..Len(log) /\ j = n
      <4>1. log'[i] = log[i] /\ log'[j].type = type /\ log'[j].run = r
        BY <2>1, <3>2
      <4> QED
        BY <2>2, <2>3, <3>2, <4>1
    <3>3. CASE i = n /\ j \in 1..Len(log)
      <4>1. log'[j] = log[j] /\ log'[i].type = type /\ log'[i].run = r
        BY <2>1, <3>3
      <4> QED
        BY <2>2, <2>3, <3>3, <4>1
    <3> QED
      BY <2>1, <2>3, <3>1, <3>2, <3>3
  <2> QED
    BY <2>3 DEF EndsOnce
<1> QED
  BY <1>1, <1>2

LEMMA RunRecordClosed ==
    ASSUME WriterInv, ClosedInv, NEW r \in Runs, NEW type \in EventTypes, NEW from, NEW to,
           Route(type, from, to), RunRecord(r, type, from, to)
    PROVE  ClosedInv'
<1>0. TypeOK /\ OneWriter /\ StartObserved
  BY DEF WriterInv, WriterParts, ThreadInv, TypeInv
<1>1. /\ rpc[r] = from /\ Moves(r) /\ UNCHANGED <<terminal, crashes, early, apc, target>>
      /\ LifecycleAllows(type, r) /\ (faults' = faults \/ faults' = faults + 1)
  BY <1>0, RunnersAllowed DEF RunRecord, Moves, Accepted, Refused, history
<1>3. ASSUME faults' = 0
      PROVE  faults = 0 /\ OneMore(type, r) /\ Observing(type, r) /\ rpc'[r] = to
  <2>1. faults' = faults
    BY <1>0, <1>1, <1>3, NoFault
  <2>2. ~Refused(type, r)
    <3>1. faults \in Nat
      BY <1>0 DEF TypeOK
    <3>2. faults' # faults + 1
      BY <2>1, <3>1
    <3> QED
      BY <1>1, <3>2 DEF Refused
  <2> QED
    BY <1>1, <1>3, <2>1, <2>2 DEF RunRecord, Accepted
<1>2. Agreed' /\ EndsOnce'
  BY <1>0, <1>1, <1>3, AgreedStep, EndsOnceStep DEF ClosedInv
<1>4. OverIsTerminal'
  <2> SUFFICES ASSUME faults' = 0, crashes' = 0, NEW q \in Runs, Over(q)' PROVE q \in terminal
    BY <1>1 DEF OverIsTerminal
  <2>1. CASE q # r
    <3>1. Observed("run.started", q)' <=> Observed("run.started", q)
      BY <1>3, <2>1, ObservedMore
    <3> QED
      BY <1>1, <1>3, <2>1, <3>1 DEF ClosedInv, OverIsTerminal, Over, Moves
  <2>2. CASE q = r
    <3>1. from \in Ending \/ from = "record end status"
      BY <1>3, <2>2 DEF Route, Over
    <3> QED
      BY <1>0, <1>1, <1>3, <2>2, <3>1 DEF ClosedInv, OverIsTerminal, Over, OneWriter
  <2> QED
    BY <2>1, <2>2
<1>5. TerminalIsWritten'
  <2> SUFFICES ASSUME faults' = 0, crashes' = 0, NEW q \in terminal \ early
               PROVE  Ended(q)' \/ HasWriter(q)'
    BY <1>1 DEF TerminalIsWritten
  <2>0. q \in Runs
    BY <1>0 DEF TypeOK
  <2>1. \A p \in Runs : Ended(p)' <=> Ended(p) \/ (type \in Terminals /\ p = r)
    <3>1. Observing(type, r)
      BY <1>3
    <3> QED
      BY <3>1, ObservedMore
  <2>2. Ended(q) \/ HasWriter(q)
    BY <1>1, <1>3 DEF ClosedInv, TerminalIsWritten
  <2>3. CASE q # r
    <3>1. HasWriter(q) => HasWriter(q)'
      BY <1>1, <2>0, <2>3 DEF HasWriter, Moves
    <3> QED
      BY <2>0, <2>1, <2>2, <3>1
  <2>4. CASE q = r
    <3>1. from \in Ending => type \in Terminals
      BY DEF Route, Ending
    <3>2. HasWriter(q) => from \in Ending \/ HasWriter(q)'
      BY <1>1, <2>4 DEF HasWriter
    <3> QED
      BY <2>0, <2>1, <2>2, <2>4, <3>1, <3>2
  <2> QED
    BY <2>3, <2>4
<1> QED
  BY <1>2, <1>4, <1>5 DEF ClosedInv

LEMMA AbortRecordClosed ==
    ASSUME WriterInv, ClosedInv, NEW a \in Aborters, NEW type \in EventTypes, NEW from, NEW to,
           target[a] \in Runs, AbortRecord(a, type, from, to), type # "run.started",
           from = "record" => type = "run.failed"
    PROVE  ClosedInv'
<1>0. TypeOK /\ OneWriter
  BY DEF WriterInv, WriterParts, ThreadInv, TypeInv
<1>1. /\ apc[a] = from /\ UNCHANGED <<rpc, terminal, crashes, target>> /\ early \subseteq early'
      /\ \A b \in Aborters : b # a => apc'[b] = apc[b]
      /\ Logged("run.started", target[a]) \/ target[a] \in early'
      /\ faults' = faults \/ faults' = faults + 1
  BY DEF AbortRecord, Accepted, Refused
<1>3. ASSUME faults' = 0
      PROVE  /\ faults = 0
             /\ \/ /\ OneMore(type, target[a]) /\ Observing(type, target[a])
                   /\ LifecycleAllows(type, target[a])
                \/ UNCHANGED <<log, lifecycle>> /\ ~LifecycleAllows(type, target[a])
  <2>1. faults' = faults
    BY <1>0, <1>1, <1>3, NoFault
  <2>2. faults' # faults + 1
    <3>1. faults \in Nat
      BY <1>0 DEF TypeOK
    <3> QED
      BY <2>1, <3>1
  <2> QED
    BY <1>1, <1>3, <2>1, <2>2 DEF AbortRecord, Accepted, Refused
<1>2. Agreed' /\ EndsOnce'
  BY <1>0, <1>3, AgreedStep, EndsOnceStep DEF ClosedInv
<1>4. OverIsTerminal'
  <2> SUFFICES ASSUME faults' = 0, crashes' = 0, NEW q \in Runs, Over(q)' PROVE q \in terminal
    BY <1>1 DEF OverIsTerminal
  <2>1. Observed("run.started", q)' => Observed("run.started", q)
    <3>1. CASE Observing(type, target[a])
      <4>1. Observed("run.started", q)' <=>
              Observed("run.started", q) \/ ("run.started" = type /\ q = target[a])
        BY <3>1, ObservedMore
      <4> QED
        BY <4>1
    <3>2. CASE lifecycle' = lifecycle
      BY <3>2, ObservedSame
    <3> QED
      BY <1>3, <3>1, <3>2
  <2> QED
    BY <1>1, <1>3, <2>1 DEF ClosedInv, OverIsTerminal, Over
<1>5. TerminalIsWritten'
  <2> SUFFICES ASSUME faults' = 0, crashes' = 0, NEW q \in terminal \ early'
               PROVE  Ended(q)' \/ HasWriter(q)'
    BY <1>1 DEF TerminalIsWritten
  <2>0. q \in Runs /\ q \in terminal \ early
    BY <1>0, <1>1 DEF TypeOK
  <2>1. Ended(q) \/ HasWriter(q)
    BY <1>1, <1>3, <2>0 DEF ClosedInv, TerminalIsWritten
  <2>2. \A p \in Runs : Ended(p) => Ended(p)'
    <3>1. CASE Observing(type, target[a])
      BY <3>1, ObservedMore
    <3>2. CASE lifecycle' = lifecycle
      BY <3>2, ObservedSame
    <3> QED
      BY <1>3, <3>1, <3>2
  <2>3. CASE from # "record" \/ target[a] # q
    <3>1. HasWriter(q) => HasWriter(q)'
      BY <1>1, <2>3 DEF HasWriter
    <3> QED
      BY <2>0, <2>1, <2>2, <3>1
  <2>4. CASE from = "record" /\ target[a] = q
    <3>1. type = "run.failed" /\ type \in Terminals
      BY <2>4 DEF Terminals
    <3>2. CASE Observing(type, target[a])
      <4>1. \A p \in Runs : Ended(p)' <=> Ended(p) \/ (type \in Terminals /\ p = target[a])
        BY <3>2, ObservedMore
      <4> QED
        BY <2>0, <2>4, <3>1, <4>1
    <3>3. CASE ~LifecycleAllows(type, target[a])
      <4>0. Logged("run.started", q)
        BY <1>1, <2>4
      <4>1. Observed("run.started", q)
        BY <1>3, <2>0, <4>0 DEF ClosedInv, Agreed, EventTypes
      <4>2. Ended(q)
        BY <2>4, <3>3, <4>1 DEF LifecycleAllows, Ended
      <4> QED
        BY <2>0, <2>2, <4>2
    <3> QED
      BY <1>3, <3>2, <3>3
  <2> QED
    BY <2>3, <2>4
<1> QED
  BY <1>2, <1>4, <1>5 DEF ClosedInv

\* A step that records nothing, and takes no run away from its writer.
LEMMA ClosedSame ==
    ASSUME TypeOK, ClosedInv, terminal \subseteq terminal',
           UNCHANGED <<log, lifecycle, faults, crashes, early>>,
           \A r \in Runs : Over(r)' => Over(r) \/ r \in terminal,
           \A r \in terminal : HasWriter(r) => HasWriter(r)',
           \A r \in terminal' \ terminal : r \in Runs /\ HasWriter(r)'
    PROVE  ClosedInv'
<1>1. \A r \in Runs : Ended(r)' <=> Ended(r)
  BY ObservedSame
<1>2. Agreed' /\ EndsOnce'
  BY LoggedSame, ObservedSame DEF ClosedInv, Agreed, EndsOnce
<1>3. OverIsTerminal'
  BY DEF ClosedInv, OverIsTerminal
<1>4. TerminalIsWritten'
  <2> SUFFICES ASSUME faults = 0, crashes = 0, NEW r \in terminal' \ early
               PROVE  Ended(r)' \/ HasWriter(r)'
    BY DEF TerminalIsWritten
  <2>1. CASE r \in terminal
    BY <1>1, <2>1 DEF ClosedInv, TerminalIsWritten, TypeOK
  <2>2. CASE r \notin terminal
    BY <2>2
  <2> QED
    BY <2>1, <2>2
<1> QED
  BY <1>2, <1>3, <1>4 DEF ClosedInv

LEMMA ClosedStep == WriterInv /\ ClosedInv /\ [Next]_vars => ClosedInv'
<1> SUFFICES ASSUME WriterInv, ClosedInv, [Next]_vars PROVE ClosedInv'
  OBVIOUS
<1>0. TypeOK /\ TargetOK /\ OneWriter
  BY DEF WriterInv, WriterParts, ThreadInv, TypeInv
<1>01. \A q \in Runs : Observed("run.started", q) => rpc[q] \notin NotBegun
  BY DEF WriterInv, WriterParts, LogBegun, EventTypes
<1>1. ASSUME NEW r \in Runs, RunStep(r) PROVE ClosedInv'
  <2>0. Moves(r)
    BY <1>0, <1>1, RunMoves
  <2>1. CASE \/ Promote(r) \/ Start(r) \/ Refuse(r) \/ BeginStatus(r) \/ SetActive(r)
             \/ FinishRun(r)
    <3>1. /\ UNCHANGED <<log, lifecycle, faults, crashes, early, terminal>>
          /\ rpc[r] \notin Ending
          /\ \/ rpc'[r] \notin {"record end status", "returned", "done"}
             \/ rpc[r] = "returned" \/ rpc[r] = "promoted"
      BY <1>0, <2>1
      DEF Promote, Start, Refuse, BeginStatus, SetActive, FinishRun, RunGoto, TypeOK, session, store,
          bounds, history, aside, Ending
    <3>2. \A q \in Runs : HasWriter(q) => HasWriter(q)'
      BY <2>0, <3>1 DEF HasWriter, Moves
    <3>3. \A q \in Runs : Over(q)' => Over(q)
      <4>1. \A q \in Runs : Observed("run.started", q)' <=> Observed("run.started", q)
        BY <3>1, ObservedSame
      <4>2. rpc[r] = "promoted" => rpc'[r] \notin {"record end status", "returned"}
        BY <1>0, <2>1
        DEF Promote, Start, Refuse, BeginStatus, SetActive, FinishRun, RunGoto, TypeOK
      <4>3. Over(r)' => Over(r)
        BY <1>01, <3>1, <4>1, <4>2 DEF Over, NotBegun
      <4> QED
        BY <2>0, <4>1, <4>3 DEF Moves, Over
    <3>4. terminal \subseteq Runs
      BY <1>0 DEF TypeOK
    <3> QED
      BY <1>0, <3>1, <3>2, <3>3, <3>4, ClosedSame
  <2>2. CASE ObserveEnd(r)
    <3>1. /\ UNCHANGED <<log, lifecycle, faults, crashes, early>> /\ rpc[r] \notin Ending
          /\ \/ rpc'[r] = "returned" /\ r \in terminal /\ terminal' = terminal
             \/ rpc'[r] \in Ending /\ terminal' = terminal \union {r}
      BY <1>0, <2>2 DEF ObserveEnd, RunGoto, TypeOK, store, bounds, history, aside, Ending, Duplicate
    <3>2. \A q \in Runs : HasWriter(q) => HasWriter(q)'
      BY <2>0, <3>1 DEF HasWriter, Moves
    <3>3. \A q \in Runs : Over(q)' => Over(q) \/ q \in terminal
      <4>1. \A q \in Runs : Observed("run.started", q)' <=> Observed("run.started", q)
        BY <3>1, ObservedSame
      <4> QED
        BY <2>0, <3>1, <4>1 DEF Moves, Over, Ending
    <3>4. terminal \subseteq Runs
      BY <1>0 DEF TypeOK
    <3>5. \A q \in terminal' \ terminal : q \in Runs /\ HasWriter(q)'
      BY <3>1 DEF HasWriter
    <3> QED
      BY <1>0, <3>1, <3>2, <3>3, <3>4, <3>5, ClosedSame
  <2>10. CASE PromoteFails(r)
    <3>1. faults' = faults + 1 /\ faults \in Nat
      BY <1>0, <2>10 DEF PromoteFails, TypeOK
    <3>2. faults' # 0
      BY <3>1
    <3> QED
      BY <3>2 DEF ClosedInv, Agreed, EndsOnce, OverIsTerminal, TerminalIsWritten
  <2>3. ASSUME NEW type \in EventTypes, NEW from, NEW to, Route(type, from, to),
               RunRecord(r, type, from, to)
        PROVE  ClosedInv'
    BY <2>3, RunRecordClosed
  <2>4. CASE RecordBeginStatus(r)
    BY <1>0, <2>3, <2>4, RunRecordsAre DEF Route, EventTypes
  <2>5. CASE RecordStart(r)
    BY <1>0, <2>3, <2>5, RunRecordsAre DEF Route, EventTypes
  <2>6. CASE RecordProgress(r)
    BY <1>0, <2>3, <2>6, RunRecordsAre DEF Route, EventTypes
  <2>7. CASE RecordCompleted(r)
    BY <1>0, <2>3, <2>7, RunRecordsAre DEF Route, EventTypes, Terminals, Ending
  <2>8. CASE RecordFailed(r)
    BY <1>0, <2>3, <2>8, RunRecordsAre DEF Route, EventTypes, Terminals, Ending
  <2>9. CASE RecordEndStatus(r)
    BY <1>0, <2>3, <2>9, RunRecordsAre DEF Route, EventTypes
  <2> QED
    BY <1>1, <2>1, <2>2, <2>4, <2>5, <2>6, <2>7, <2>8, <2>9, <2>10 DEF RunStep
<1>2. ASSUME NEW a \in Aborters, AbortStep(a) \/ WaitTimeout(a) PROVE ClosedInv'
  <2>1. CASE CheckRunning(a) \/ SnapshotActive(a) \/ CancelThread(a) \/ WaitDone(a) \/ WaitTimeout(a)
    <3>1. /\ UNCHANGED <<log, lifecycle, rpc, terminal, faults, crashes, early>>
          /\ apc[a] # "record"
          /\ \A b \in Aborters : b # a => apc'[b] = apc[b] /\ target'[b] = target[b]
      BY <1>0, <2>1
      DEF CheckRunning, SnapshotActive, CancelThread, WaitDone, WaitTimeout, AbortGoto, TypeOK,
          session, store, bounds, history, aside
    <3>2. \A q \in Runs : HasWriter(q) => HasWriter(q)'
      BY <3>1 DEF HasWriter
    <3>3. terminal \subseteq Runs
      BY <1>0 DEF TypeOK
    <3>4. \A q \in Runs : Over(q)' => Over(q)
      BY <3>1, ObservedSame DEF Over
    <3> QED
      BY <1>0, <3>1, <3>2, <3>3, <3>4, ClosedSame
  <2>2. CASE ObserveAbort(a)
    <3>1. /\ UNCHANGED <<log, lifecycle, rpc, faults, crashes, early, target>>
          /\ apc[a] = "observe"
          /\ \A b \in Aborters : b # a => apc'[b] = apc[b]
          /\ \/ terminal' = terminal
             \/ terminal' = terminal \union {target[a]} /\ apc'[a] = "record" /\ target[a] \in Runs
      BY <1>0, <2>2 DEF ObserveAbort, AbortGoto, TypeOK, TargetOK, store, bounds, history, aside
    <3>2. \A q \in Runs : HasWriter(q) => HasWriter(q)'
      BY <3>1 DEF HasWriter
    <3>3. terminal \subseteq Runs
      BY <1>0 DEF TypeOK
    <3>4. \A q \in terminal' \ terminal : q \in Runs /\ HasWriter(q)'
      BY <3>1 DEF HasWriter
    <3>5. terminal \subseteq terminal'
      BY <3>1
    <3>6. \A q \in Runs : Over(q)' => Over(q)
      BY <3>1, ObservedSame DEF Over
    <3> QED
      BY <1>0, <3>1, <3>2, <3>3, <3>4, <3>5, <3>6, ClosedSame
  <2>3. CASE RecordAbortFailed(a)
    BY <1>0, <2>3, AbortRecordsAre, AbortRecordClosed DEF EventTypes, Terminals
  <2>4. CASE RecordAbortStatus(a)
    BY <1>0, <2>4, AbortRecordsAre, AbortRecordClosed DEF EventTypes
  <2> QED
    BY <1>2, <2>1, <2>2, <2>3, <2>4 DEF AbortStep
<1>3. CASE Crash
  <2>1. log' = log /\ faults' = faults /\ crashes' = crashes + 1
    BY <1>3 DEF Crash
  <2>2. crashes' # 0
    <3>1. crashes \in Nat
      BY <1>0 DEF TypeOK
    <3> QED
      BY <2>1, <3>1
  <2>3. Agreed'
    <3>1. \A t \in EventTypes, r \in Runs : Observed(t, r)' <=> Logged(t, r)
      BY <1>3 DEF Crash, Observed, Logged
    <3>2. \A t \in EventTypes, r \in Runs : Logged(t, r)' <=> Logged(t, r)
      BY <2>1, LoggedSame
    <3> QED
      BY <3>1, <3>2 DEF Agreed
  <2>4. EndsOnce'
    BY <2>1 DEF ClosedInv, EndsOnce
  <2> QED
    BY <2>2, <2>3, <2>4 DEF ClosedInv, OverIsTerminal, TerminalIsWritten
<1>4. CASE UNCHANGED vars
  <2>1. UNCHANGED <<log, lifecycle, faults, crashes, early, terminal, rpc, apc, target>>
    BY <1>4 DEF vars, session, store, history, aborter, bounds
  <2>2. \A q : HasWriter(q) => HasWriter(q)'
    BY <2>1 DEF HasWriter
  <2>3. \A q \in Runs : Over(q)' => Over(q)
    BY <2>1, ObservedSame DEF Over
  <2> QED
    BY <1>0, <2>1, <2>2, <2>3, ClosedSame
<1> QED
  BY <1>1, <1>2, <1>3, <1>4 DEF Next, Terminated

\* A run whose run.started is recorded is closed by exactly one terminal event, its
\* own or that of abortActiveRun, unless an append failed, the gateway died, or the
\* abort came before run.started.
THEOREM StartedIsClosed == Spec => []ClosedUnlessEarly
<1>1. Init => ClosedInv
  <2> SUFFICES ASSUME Init PROVE ClosedInv
    OBVIOUS
  <2>1. 1..Len(log) = {} /\ \A t, q : ~Observed(t, q)
    BY EmptySeq DEF Init, Observed
  <2> QED
    BY <2>1 DEF Init, ClosedInv, Agreed, EndsOnce, OverIsTerminal, TerminalIsWritten, Over, Logged
<1>2. WriterInv /\ ClosedInv => ClosedUnlessEarly
  <2> SUFFICES ASSUME WriterInv, ClosedInv, NEW r \in Runs \ early, rpc[r] = "done",
                      faults + crashes = 0, Logged("run.started", r), ~Reporting(r)
               PROVE  Closed(r)
    BY DEF ClosedUnlessEarly
  <2>1. faults = 0 /\ crashes = 0
    <3>1. faults \in Nat /\ crashes \in Nat
      BY DEF WriterInv, ThreadInv, TypeInv, TypeOK
    <3> QED
      BY <3>1
  <2>2. r \in terminal
    BY <2>1 DEF ClosedInv, OverIsTerminal, Over, Agreed, EventTypes
  <2>3. ~HasWriter(r)
    BY DEF HasWriter, Reporting, Ending
  <2>4. Ended(r)
    BY <2>1, <2>2, <2>3 DEF ClosedInv, TerminalIsWritten
  <2>5. PICK i \in 1..Len(log) : log[i].run = r /\ log[i].type \in Terminals
    <3>1. PICK t \in Terminals : Observed(t, r)
      BY <2>4 DEF Ended
    <3>2. Logged(t, r)
      BY <2>1, <3>1 DEF ClosedInv, Agreed, EventTypes
    <3> QED
      BY <3>1, <3>2 DEF Logged
  <2>6. TerminalIn(r) = {i}
    BY <2>1, <2>5 DEF ClosedInv, EndsOnce, TerminalIn
  <2> QED
    BY <2>6 DEF Closed
<1> QED
  BY <1>1, <1>2, WriterInit, WriterStep, ClosedStep, PTL DEF Spec
=============================================================================
