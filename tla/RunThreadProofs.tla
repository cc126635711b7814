--------------------------- MODULE RunThreadProofs ---------------------------
(***************************************************************************)
(* For any sets of calls: the type invariant of RunThread, that one run at *)
(* a time holds the thread, that a cancelled run is rolled back and that   *)
(* one nobody cancelled keeps what was answered, and that RunThread        *)
(* implements RunSlot.  The induction needs what TLC only hints  *)
(* at: the copy a run started from is still the transcript when it ends    *)
(* (Fresh), and every turn in the transcript belongs to a run that ended   *)
(* (OnlyEnded).                                                            *)
(***************************************************************************)
EXTENDS RunThread, TLAPS

\* A canceller past its critical section holds a cancel function.
TargetOK ==
    \A k \in Cancellers : kpc[k] \notin {"new", "none"} => target[k] \in Callers

\* The thread's three fields agree.
FieldsAgree == idle = cancel /\ (running <=> cancel # Nil)

\* Nobody but the holder changes the transcript, so the holder's copy of it,
\* and what it made of that copy, are up to date.
Fresh ==
    \A c \in Callers :
      /\ pc[c] \in {"running", "returned"} => base[c] = messages
      /\ pc[c] \in {"returned", "finishing"} => next[c] \in Slot!Outcomes(c)
      /\ pc[c] \in {"returned", "finishing"} /\ c \in hit =>
            IF pc[c] = "returned" THEN c \in cancelled ELSE next[c] = messages

OnlyEnded ==
    \A i \in 1..Len(messages) : messages[i][1] \in Ended

\* A call that has not had its run cannot have been noted as cancelled in it.
HitHeld ==
    \A c \in hit : pc[c] \in {"returned", "finishing", "closing", "done"}

\* Channels are closed by the run that made them, after it let go.
ClosedEnded ==
    /\ closed \subseteq Ended
    /\ \A c \in Callers : pc[c] = "closing" => chan[c] = c

\* A run's context ends only through its own caller, or through a canceller that
\* copied that very run's cancel function.
CancelsItsOwn == \A c \in cancelled : CancelledOnPurpose(c)

\* The way of an answer into the transcript: what the runner returned, what
\* RunMessage decided to keep, and what the transcript holds from then on.
Answering ==
    \A c \in answered :
      /\ pc[c] \in {"returned", "finishing", "closing", "done"}
      /\ pc[c] = "returned" => /\ verdict[c] = "ok"
                              /\ next[c] = messages \o <<Prompt(c)>> \o <<Answer(c)>>
      /\ pc[c] = "finishing" =>
            \/ CancelledOnPurpose(c)
            \/ next[c] = messages \o <<Prompt(c)>> \o <<Answer(c)>>

IInv == /\ TypeOK /\ TargetOK /\ OneRun /\ FieldsAgree /\ Fresh /\ OnlyEnded /\ HitHeld
        /\ RolledBack /\ ClosedEnded /\ EndedMeansSettled
        /\ CancelsItsOwn /\ Answering /\ AnsweredIsKept

-----------------------------------------------------------------------------
\* The empty transcript is one.
LEMMA EmptyTranscript == <<>> \in Transcripts
BY DEF Transcripts

\* Adding a call's prompt, or its answer, to a transcript gives a transcript.
LEMMA TurnTypes ==
    ASSUME NEW t \in Transcripts, NEW c \in Callers
    PROVE  /\ t \o <<Prompt(c)>> \in Transcripts
           /\ t \o <<Answer(c)>> \in Transcripts
BY DEF Transcripts, Prompt, Answer

\* Steps of the actions keep every variable in its type.
LEMMA TypeStep == TypeOK /\ TargetOK /\ [Next]_vars => (TypeOK /\ TargetOK)'
<1> SUFFICES ASSUME TypeOK, TargetOK, [Next]_vars PROVE (TypeOK /\ TargetOK)'
  OBVIOUS
<1> USE DEF TypeOK, TargetOK, Goto, thread, caller, canceller, history
<1>1. ASSUME NEW c \in Callers, CallerStep(c) PROVE (TypeOK /\ TargetOK)'
  <2>1. CASE StartRun(c)
    BY <2>1 DEF StartRun
  <2>2. CASE StartRefused(c)
    BY <2>2 DEF StartRefused
  <2>3. CASE TakeWaitChannel(c)
    BY <2>3 DEF TakeWaitChannel
  <2>4. CASE Wake(c)
    BY <2>4 DEF Wake
  <2>5. CASE GiveUp(c)
    BY <2>5 DEF GiveUp
  <2>6. CASE Decide(c)
    <3>1. base[c] \in Transcripts
      OBVIOUS
    <3>2. base[c] \o <<Prompt(c)>> \in Transcripts
      BY <3>1, TurnTypes
    <3>3. QED
      BY <2>6, <3>1, <3>2, EmptyTranscript DEF Decide
  <2>7. CASE Finish(c)
    BY <2>7, EmptyTranscript DEF Finish
  <2>8. CASE CloseIdle(c)
    BY <2>8 DEF CloseIdle
  <2>9. QED
    BY <1>1, <2>1, <2>2, <2>3, <2>4, <2>5, <2>6, <2>7, <2>8 DEF CallerStep
<1>2. ASSUME NEW c \in Callers, RunnerReturn(c) PROVE (TypeOK /\ TargetOK)'
  <2>1. base[c] \in Transcripts
    OBVIOUS
  <2>2. base[c] \o <<Prompt(c)>> \in Transcripts
    BY <2>1, TurnTypes
  <2>3. base[c] \o <<Prompt(c)>> \o <<Answer(c)>> \in Transcripts
    BY <2>2, TurnTypes
  <2>4. \A v \in Verdicts : RunnerReturns(c, v) \subseteq Transcripts
    BY <2>1, <2>2, <2>3 DEF RunnerReturns, Verdicts
  <2>5. PICK v \in Verdicts, m \in Transcripts :
           next' = [next EXCEPT ![c] = m] /\ verdict' = [verdict EXCEPT ![c] = v]
    BY <1>2, <2>4 DEF RunnerReturn
  <2>6. next' \in [Callers -> Transcripts]
        /\ verdict' \in [Callers -> Verdicts \union {"none"}]
    BY <2>5
  <2>7. /\ pc' = [pc EXCEPT ![c] = "returned"]
        /\ hit' = hit \union (cancelled \intersect {c})
        /\ answered' \in {answered, answered \union {c}}
        /\ UNCHANGED <<thread, base, chan, closed, parentDone, cancelled, canceller>>
    BY <1>2 DEF RunnerReturn
  <2>8. QED
    BY <2>6, <2>7
<1>3. ASSUME NEW c \in Callers, ParentDone(c) PROVE (TypeOK /\ TargetOK)'
  BY <1>3 DEF ParentDone
<1>4. ASSUME NEW k \in Cancellers, CancellerStep(k) \/ WaitTimeout(k) PROVE (TypeOK /\ TargetOK)'
  <2>1. CASE Snapshot(k)
    BY <2>1 DEF Snapshot
  <2>2. CASE CallCancel(k)
    BY <2>2 DEF CallCancel
  <2>3. CASE SeeIdle(k)
    BY <2>3 DEF SeeIdle
  <2>4. CASE WaitTimeout(k)
    BY <2>4 DEF WaitTimeout
  <2>5. QED
    BY <1>4, <2>1, <2>2, <2>3, <2>4 DEF CancellerStep
<1>5. CASE UNCHANGED vars \/ Terminated
  BY <1>5 DEF vars, Terminated
<1>6. QED
  BY <1>1, <1>2, <1>3, <1>4, <1>5 DEF Next

\* A new thread has its types.
LEMMA TypeInit == Init => TypeOK /\ TargetOK
<1> SUFFICES ASSUME Init PROVE TypeOK /\ TargetOK
  OBVIOUS
<1>1. messages \in Transcripts /\ base \in [Callers -> Transcripts]
      /\ next \in [Callers -> Transcripts]
  BY EmptyTranscript DEF Init
<1>2. pc \in [Callers -> {"new"}] /\ verdict \in [Callers -> {"none"}]
      /\ chan \in [Callers -> {Nil}] /\ kpc \in [Cancellers -> {"new"}]
      /\ target \in [Cancellers -> {Nil}]
  BY DEF Init
<1>3. QED
  BY <1>1, <1>2 DEF Init, TypeOK, TargetOK, Verdicts

\* Every variable of RunThread keeps its type, for any sets of calls.
THEOREM TypeCorrect == Spec => []TypeOK
<1>1. QED
  BY TypeInit, TypeStep, PTL DEF Spec

-----------------------------------------------------------------------------
\* What a run leaves behind holds nothing but the old transcript and its turn.
LEMMA OutcomeEntries ==
    ASSUME TypeOK, NEW c \in Callers, NEW t \in Slot!Outcomes(c), NEW i \in 1..Len(t)
    PROVE  t[i][1] = c \/ (i \in 1..Len(messages) /\ t[i] = messages[i])
<1>1. messages \in Transcripts /\ messages \o <<Prompt(c)>> \in Transcripts
  BY TurnTypes DEF TypeOK
<1>2. ASSUME NEW m \in Transcripts, NEW e, NEW j \in 1..Len(m \o <<e>>)
      PROVE  (m \o <<e>>)[j] = e \/ (j \in 1..Len(m) /\ (m \o <<e>>)[j] = m[j])
  BY DEF Transcripts
<1>3. Prompt(c)[1] = c /\ Answer(c)[1] = c
  BY DEF Prompt, Answer
<1>4. CASE t = messages
  BY <1>4
<1>5. CASE t = messages \o <<Prompt(c)>>
  BY <1>1, <1>2, <1>3, <1>5
<1>6. CASE t = messages \o <<Prompt(c)>> \o <<Answer(c)>>
  BY <1>1, <1>2, <1>3, <1>6
<1>7. QED
  BY <1>4, <1>5, <1>6 DEF Slot!Outcomes, Slot!Prompt, Slot!Answer, Prompt, Answer

\* Who holds the thread, and whether its fields agree.
LEMMA OneRunStep == IInv /\ [Next]_vars => (OneRun /\ FieldsAgree)'
<1> SUFFICES ASSUME IInv, [Next]_vars PROVE (OneRun /\ FieldsAgree)'
  OBVIOUS
<1>0. TypeOK /\ OneRun /\ FieldsAgree
  BY DEF IInv
<1> USE <1>0 DEF TypeOK, OneRun, FieldsAgree, Holding, Goto, thread, caller, canceller, history
<1>1. ASSUME NEW c \in Callers, CallerStep(c) PROVE (OneRun /\ FieldsAgree)'
  <2>1. CASE StartRun(c)
    BY <2>1, NilAssumption DEF StartRun
  <2>2. CASE StartRefused(c)
    BY <2>2 DEF StartRefused
  <2>3. CASE TakeWaitChannel(c)
    BY <2>3 DEF TakeWaitChannel
  <2>4. CASE Wake(c)
    BY <2>4 DEF Wake
  <2>5. CASE GiveUp(c)
    BY <2>5 DEF GiveUp
  <2>6. CASE Decide(c)
    BY <2>6 DEF Decide
  <2>7. CASE Finish(c)
    BY <2>7, NilAssumption DEF Finish
  <2>8. CASE CloseIdle(c)
    BY <2>8 DEF CloseIdle
  <2>9. QED
    BY <1>1, <2>1, <2>2, <2>3, <2>4, <2>5, <2>6, <2>7, <2>8 DEF CallerStep
<1>2. ASSUME NEW c \in Callers, RunnerReturn(c) PROVE (OneRun /\ FieldsAgree)'
  BY <1>2 DEF RunnerReturn
<1>3. ASSUME NEW c \in Callers, ParentDone(c) PROVE (OneRun /\ FieldsAgree)'
  BY <1>3 DEF ParentDone
<1>4. ASSUME NEW k \in Cancellers, CancellerStep(k) \/ WaitTimeout(k) PROVE (OneRun /\ FieldsAgree)'
  BY <1>4 DEF CancellerStep, Snapshot, CallCancel, SeeIdle, WaitTimeout
<1>5. CASE UNCHANGED vars \/ Terminated
  BY <1>5 DEF vars, Terminated
<1>6. QED
  BY <1>1, <1>2, <1>3, <1>4, <1>5 DEF Next

\* What channels and cancellers know of runs that ended.
LEMMA ClosedStep == IInv /\ [Next]_vars => (ClosedEnded /\ EndedMeansSettled)'
<1> SUFFICES ASSUME IInv, [Next]_vars PROVE (ClosedEnded /\ EndedMeansSettled)'
  OBVIOUS
<1>0. TypeOK /\ TargetOK /\ OneRun /\ FieldsAgree /\ ClosedEnded /\ EndedMeansSettled
  BY DEF IInv
<1> USE <1>0 DEF TypeOK, TargetOK, OneRun, Holding, ClosedEnded, EndedMeansSettled, Ended, Goto,
      thread, caller, canceller, history
<1>1. ASSUME NEW c \in Callers, CallerStep(c) PROVE (ClosedEnded /\ EndedMeansSettled)'
  <2>1. CASE StartRun(c)
    BY <2>1 DEF StartRun
  <2>2. CASE StartRefused(c)
    BY <2>2 DEF StartRefused
  <2>3. CASE TakeWaitChannel(c)
    BY <2>3 DEF TakeWaitChannel
  <2>4. CASE Wake(c)
    BY <2>4 DEF Wake
  <2>5. CASE GiveUp(c)
    BY <2>5 DEF GiveUp
  <2>6. CASE Decide(c)
    BY <2>6 DEF Decide
  <2>7. CASE Finish(c)
    BY <2>7 DEF Finish, FieldsAgree
  <2>8. CASE CloseIdle(c)
    BY <2>8, NilAssumption DEF CloseIdle
  <2>9. QED
    BY <1>1, <2>1, <2>2, <2>3, <2>4, <2>5, <2>6, <2>7, <2>8 DEF CallerStep
<1>2. ASSUME NEW c \in Callers, RunnerReturn(c) PROVE (ClosedEnded /\ EndedMeansSettled)'
  BY <1>2 DEF RunnerReturn
<1>3. ASSUME NEW c \in Callers, ParentDone(c) PROVE (ClosedEnded /\ EndedMeansSettled)'
  BY <1>3 DEF ParentDone
<1>4. ASSUME NEW k \in Cancellers, CancellerStep(k) \/ WaitTimeout(k) PROVE (ClosedEnded /\ EndedMeansSettled)'
  BY <1>4 DEF CancellerStep, Snapshot, CallCancel, SeeIdle, WaitTimeout
<1>5. CASE UNCHANGED vars \/ Terminated
  BY <1>5 DEF vars, Terminated
<1>6. QED
  BY <1>1, <1>2, <1>3, <1>4, <1>5 DEF Next

\* Only a run that began is noted as cancelled in it.
LEMMA HitStep == IInv /\ [Next]_vars => HitHeld'
<1> SUFFICES ASSUME IInv, [Next]_vars PROVE HitHeld'
  OBVIOUS
<1>0. TypeOK /\ HitHeld
  BY DEF IInv
<1> USE <1>0 DEF TypeOK, HitHeld, Goto, thread, caller, canceller, history
<1>1. ASSUME NEW c \in Callers, CallerStep(c) PROVE HitHeld'
  <2>1. CASE StartRun(c)
    BY <2>1 DEF StartRun
  <2>2. CASE StartRefused(c)
    BY <2>2 DEF StartRefused
  <2>3. CASE TakeWaitChannel(c)
    BY <2>3 DEF TakeWaitChannel
  <2>4. CASE Wake(c)
    BY <2>4 DEF Wake
  <2>5. CASE GiveUp(c)
    BY <2>5 DEF GiveUp
  <2>6. CASE Decide(c)
    BY <2>6 DEF Decide
  <2>7. CASE Finish(c)
    BY <2>7 DEF Finish
  <2>8. CASE CloseIdle(c)
    BY <2>8 DEF CloseIdle
  <2>9. QED
    BY <1>1, <2>1, <2>2, <2>3, <2>4, <2>5, <2>6, <2>7, <2>8 DEF CallerStep
<1>2. ASSUME NEW c \in Callers, RunnerReturn(c) PROVE HitHeld'
  BY <1>2 DEF RunnerReturn
<1>3. ASSUME NEW c \in Callers, ParentDone(c) PROVE HitHeld'
  BY <1>3 DEF ParentDone
<1>4. ASSUME NEW k \in Cancellers, CancellerStep(k) \/ WaitTimeout(k) PROVE HitHeld'
  BY <1>4 DEF CancellerStep, Snapshot, CallCancel, SeeIdle, WaitTimeout
<1>5. CASE UNCHANGED vars \/ Terminated
  BY <1>5 DEF vars, Terminated
<1>6. QED
  BY <1>1, <1>2, <1>3, <1>4, <1>5 DEF Next

\* The copy the active run works on stays the transcript.
LEMMA FreshStep == IInv /\ [Next]_vars => Fresh'
<1> SUFFICES ASSUME IInv, [Next]_vars PROVE Fresh'
  OBVIOUS
<1>0. TypeOK /\ OneRun /\ FieldsAgree /\ Fresh /\ HitHeld
  BY DEF IInv
<1> USE <1>0 DEF TypeOK, OneRun, FieldsAgree, Fresh, HitHeld, Holding, Goto, thread,
      caller, canceller, history
<1>s. UNCHANGED messages => \A d \in Callers : Slot!Outcomes(d)' = Slot!Outcomes(d)
  BY DEF Slot!Outcomes, Slot!Prompt, Slot!Answer
<1>1. ASSUME NEW c \in Callers, CallerStep(c) PROVE Fresh'
  <2>1. CASE StartRun(c)
    BY <2>1, <1>s DEF StartRun
  <2>2. CASE StartRefused(c)
    BY <2>2, <1>s DEF StartRefused
  <2>3. CASE TakeWaitChannel(c)
    BY <2>3, <1>s DEF TakeWaitChannel
  <2>4. CASE Wake(c)
    BY <2>4, <1>s DEF Wake
  <2>5. CASE GiveUp(c)
    BY <2>5, <1>s DEF GiveUp
  <2>6. CASE Decide(c)
    <3>1. base[c] \in Slot!Outcomes(c) /\ base[c] \o <<Prompt(c)>> \in Slot!Outcomes(c)
      BY <2>6 DEF Decide, Slot!Outcomes, Slot!Prompt, Prompt
    <3>2. next'[c] \in Slot!Outcomes(c)
      BY <2>6, <3>1 DEF Decide
    <3>3. c \in hit => next'[c] = messages
      BY <2>6 DEF Decide, Interrupted
    <3>4. QED
      BY <2>6, <1>s, <3>2, <3>3 DEF Decide
  <2>7. CASE Finish(c)
    BY <2>7 DEF Finish
  <2>8. CASE CloseIdle(c)
    BY <2>8, <1>s DEF CloseIdle
  <2>9. QED
    BY <1>1, <2>1, <2>2, <2>3, <2>4, <2>5, <2>6, <2>7, <2>8 DEF CallerStep
<1>2. ASSUME NEW c \in Callers, RunnerReturn(c) PROVE Fresh'
  <2>1. \A v \in Verdicts : RunnerReturns(c, v) \subseteq Slot!Outcomes(c)
    BY <1>2 DEF RunnerReturn, RunnerReturns, Verdicts, Slot!Outcomes, Slot!Prompt,
         Slot!Answer, Prompt, Answer
  <2>2. next'[c] \in Slot!Outcomes(c)
    BY <1>2, <2>1 DEF RunnerReturn
  <2>3. \A d \in Callers \ {c} : next'[d] = next[d]
    BY <1>2 DEF RunnerReturn
  <2>4. QED
    BY <1>2, <1>s, <2>2, <2>3 DEF RunnerReturn
<1>3. ASSUME NEW c \in Callers, ParentDone(c) PROVE Fresh'
  BY <1>3, <1>s DEF ParentDone
<1>4. ASSUME NEW k \in Cancellers, CancellerStep(k) \/ WaitTimeout(k) PROVE Fresh'
  BY <1>4, <1>s DEF CancellerStep, Snapshot, CallCancel, SeeIdle, WaitTimeout
<1>5. CASE UNCHANGED vars \/ Terminated
  BY <1>5, <1>s DEF vars, Terminated
<1>6. QED
  BY <1>1, <1>2, <1>3, <1>4, <1>5 DEF Next

\* Whose turns the transcript holds.
LEMMA TurnsStep == IInv /\ [Next]_vars => (OnlyEnded /\ RolledBack)'
<1> SUFFICES ASSUME IInv, [Next]_vars PROVE (OnlyEnded /\ RolledBack)'
  OBVIOUS
<1>0. TypeOK /\ OneRun /\ HitHeld /\ OnlyEnded /\ RolledBack
  BY DEF IInv
<1> USE <1>0 DEF OnlyEnded, RolledBack
<1>t. pc \in [Callers -> {"new", "queueing", "queued", "running", "returned", "finishing",
                          "closing", "done"}] /\ hit \subseteq Callers
  BY DEF TypeOK
<1>q. ASSUME UNCHANGED messages, Ended \subseteq Ended', hit' \intersect Ended' \subseteq hit \intersect Ended
      PROVE  (OnlyEnded /\ RolledBack)'
  BY <1>q
<1>1. ASSUME NEW c \in Callers, CallerStep(c) PROVE (OnlyEnded /\ RolledBack)'
  <2>1. CASE StartRun(c) \/ StartRefused(c) \/ TakeWaitChannel(c) \/ Wake(c) \/ GiveUp(c)
             \/ Decide(c) \/ CloseIdle(c)
    <3>1. UNCHANGED <<messages, hit>>
      BY <2>1 DEF StartRun, StartRefused, TakeWaitChannel, Wake, GiveUp, Decide, CloseIdle, thread,
           history
    <3>2. Ended \subseteq Ended' /\ hit \intersect Ended' \subseteq Ended
      BY <2>1, <1>t DEF StartRun, StartRefused, TakeWaitChannel, Wake, GiveUp, Decide, CloseIdle,
           Goto, Ended, HitHeld
    <3>3. QED
      BY <3>1, <3>2, <1>q
  <2>2. CASE Finish(c)
    <3>1. messages' \in Slot!Outcomes(c) /\ (c \in hit => messages' = messages)
      BY <2>2 DEF Finish, Fresh, IInv, Slot!Outcomes
    <3>2. Ended' = Ended \union {c} /\ c \notin Ended /\ UNCHANGED hit
      BY <2>2, <1>t DEF Finish, Goto, Ended, history
    <3>3. \A i \in 1..Len(messages') :
             messages'[i][1] = c \/ (i \in 1..Len(messages) /\ messages'[i] = messages[i])
      BY <3>1, OutcomeEntries
    <3>4. OnlyEnded'
      BY <3>2, <3>3
    <3>5. RolledBack'
      BY <3>1, <3>2, <3>3
    <3>6. QED
      BY <3>4, <3>5
  <2>3. QED
    BY <1>1, <2>1, <2>2 DEF CallerStep
<1>2. ASSUME NEW c \in Callers, RunnerReturn(c) PROVE (OnlyEnded /\ RolledBack)'
  <2>1. UNCHANGED messages /\ Ended' = Ended /\ hit' \intersect Ended \subseteq hit
    BY <1>2, <1>t DEF RunnerReturn, Goto, Ended, thread
  <2>2. QED
    BY <2>1, <1>q
<1>3. CASE UNCHANGED <<messages, pc, hit>>
  BY <1>3, <1>q DEF Ended
<1>4. ASSUME NEW c \in Callers, ParentDone(c) PROVE UNCHANGED <<messages, pc, hit>>
  BY <1>4 DEF ParentDone, thread, caller, history
<1>5. ASSUME NEW k \in Cancellers, CancellerStep(k) \/ WaitTimeout(k)
      PROVE  UNCHANGED <<messages, pc, hit>>
  BY <1>5 DEF CancellerStep, Snapshot, CallCancel, SeeIdle, WaitTimeout, thread, caller,
       history
<1>6. CASE UNCHANGED vars \/ Terminated
  BY <1>6, <1>3 DEF vars, Terminated
<1>7. QED
  BY <1>1, <1>2, <1>3, <1>4, <1>5, <1>6 DEF Next

\* Who was cancelled stays cancelled on purpose.
LEMMA CancelStep ==
    IInv /\ [Next]_vars =>
      CancelsItsOwn' /\ \A c \in Callers : CancelledOnPurpose(c) => CancelledOnPurpose(c)'
<1> SUFFICES ASSUME IInv, [Next]_vars
             PROVE  /\ CancelsItsOwn'
                    /\ \A c \in Callers : CancelledOnPurpose(c) => CancelledOnPurpose(c)'
  OBVIOUS
<1>0. TypeOK /\ CancelsItsOwn
  BY DEF IInv
<1> DEFINE Goal == /\ CancelsItsOwn'
                   /\ \A c \in Callers : CancelledOnPurpose(c) => CancelledOnPurpose(c)'
<1> USE DEF CancelsItsOwn, CancelledOnPurpose
<1>t. kpc \in [Cancellers -> {"new", "none", "cancel", "cancel_and_wait",
                             "cancelled", "waiting", "ended", "timeout"}]
      /\ target \in [Cancellers -> Callers \union {Nil}]
  BY <1>0 DEF TypeOK
<1>1. ASSUME NEW c \in Callers, CallerStep(c) \/ RunnerReturn(c) PROVE Goal
  BY <1>0, <1>1 DEF CallerStep, StartRun, StartRefused, TakeWaitChannel, Wake, GiveUp, Decide,
              Finish, CloseIdle, RunnerReturn, canceller
<1>2. ASSUME NEW c \in Callers, ParentDone(c) PROVE Goal
  BY <1>0, <1>2 DEF ParentDone, canceller
<1>3. ASSUME NEW k \in Cancellers, Snapshot(k) PROVE Goal
  BY <1>0, <1>t, <1>3 DEF Snapshot
<1>4. ASSUME NEW k \in Cancellers, CallCancel(k) PROVE Goal
  BY <1>0, <1>t, <1>4 DEF CallCancel
<1>5. ASSUME NEW k \in Cancellers, SeeIdle(k) \/ WaitTimeout(k) PROVE Goal
  BY <1>0, <1>t, <1>5 DEF SeeIdle, WaitTimeout
<1>6. CASE UNCHANGED vars \/ Terminated
  BY <1>0, <1>6 DEF vars, Terminated
<1>7. QED
  BY <1>1, <1>2, <1>3, <1>4, <1>5, <1>6 DEF Next, CancellerStep

\* A turn that is in the transcript stays there when a run adds its own.
LEMMA TurnStays ==
    ASSUME TypeOK, NEW c, HasTurn(c), NEW d \in Callers, messages' \in Slot!Outcomes(d)
    PROVE  HasTurn(c)'
<1>1. messages \in Transcripts /\ messages \o <<Prompt(d)>> \in Transcripts
  BY TurnTypes DEF TypeOK
<1>2. ASSUME NEW m \in Transcripts, NEW e, NEW j \in 1..Len(m)
      PROVE  j \in 1..Len(m \o <<e>>) /\ (m \o <<e>>)[j] = m[j]
  BY DEF Transcripts
<1>3. PICK i \in 1..Len(messages) : /\ i + 1 \in 1..Len(messages)
                                    /\ messages[i] = Prompt(c) /\ messages[i + 1] = Answer(c)
  BY DEF HasTurn
<1>4. ASSUME NEW j \in 1..Len(messages)
      PROVE  j \in 1..Len(messages') /\ messages'[j] = messages[j]
  <2>1. CASE messages' = messages
    BY <2>1
  <2>2. CASE messages' = messages \o <<Prompt(d)>>
    BY <2>2, <1>1, <1>2
  <2>3. CASE messages' = messages \o <<Prompt(d)>> \o <<Answer(d)>>
    BY <2>3, <1>1, <1>2
  <2>4. QED
    BY <2>1, <2>2, <2>3 DEF Slot!Outcomes, Slot!Prompt, Slot!Answer, Prompt, Answer
<1>5. QED
  BY <1>3, <1>4 DEF HasTurn, Prompt, Answer

\* A whole turn at the end of a transcript is one.
LEMMA TurnAtEnd ==
    ASSUME NEW m \in Transcripts, NEW c \in Callers,
           messages' = m \o <<Prompt(c)>> \o <<Answer(c)>>
    PROVE  HasTurn(c)'
<1>1. /\ Len(messages') = Len(m) + 2 /\ Len(m) \in Nat
      /\ messages'[Len(m) + 1] = Prompt(c) /\ messages'[Len(m) + 2] = Answer(c)
  BY DEF Transcripts
<1>2. Len(m) + 1 \in 1..Len(messages') /\ (Len(m) + 1) + 1 \in 1..Len(messages')
      /\ (Len(m) + 1) + 1 = Len(m) + 2
  BY <1>1
<1>3. QED
  BY <1>1, <1>2 DEF HasTurn, Prompt, Answer

\* An answer is carried into the transcript and stays there.
LEMMA AnswerStep == IInv /\ [Next]_vars => (Answering /\ AnsweredIsKept)'
<1> SUFFICES ASSUME IInv, [Next]_vars PROVE (Answering /\ AnsweredIsKept)'
  OBVIOUS
<1>0. TypeOK /\ OneRun /\ Answering /\ AnsweredIsKept /\ CancelsItsOwn
  BY DEF IInv
<1>p. \A c \in Callers : CancelledOnPurpose(c) => CancelledOnPurpose(c)'
  BY CancelStep
<1>t. pc \in [Callers -> {"new", "queueing", "queued", "running", "returned", "finishing",
                          "closing", "done"}]
      /\ next \in [Callers -> Transcripts] /\ base \in [Callers -> Transcripts]
      /\ verdict \in [Callers -> Verdicts \union {"none"}] /\ messages \in Transcripts
      /\ answered \subseteq Callers /\ cancelled \subseteq Callers
  BY <1>0 DEF TypeOK
<1>m. UNCHANGED messages => \A c : HasTurn(c)' = HasTurn(c)
  BY DEF HasTurn, Prompt, Answer
<1>n. \A c : Prompt(c)' = Prompt(c) /\ Answer(c)' = Answer(c)
  BY DEF Prompt, Answer
\* A step that leaves the transcript and every answered run alone.
<1>q. ASSUME UNCHANGED <<messages, answered, verdict, next>>,
             \A d \in answered : pc'[d] = pc[d] \/ (d \in Ended /\ pc'[d] \in {"closing", "done"})
      PROVE  (Answering /\ AnsweredIsKept)'
  BY <1>0, <1>p, <1>t, <1>m, <1>n, <1>q DEF Answering, AnsweredIsKept, Ended
<1>1. ASSUME NEW c \in Callers, CallerStep(c) PROVE (Answering /\ AnsweredIsKept)'
  <2>1. CASE StartRun(c) \/ StartRefused(c) \/ TakeWaitChannel(c) \/ Wake(c) \/ GiveUp(c)
             \/ CloseIdle(c)
    <3>1. UNCHANGED <<messages, answered, verdict, next>>
      BY <2>1 DEF StartRun, StartRefused, TakeWaitChannel, Wake, GiveUp, CloseIdle, thread, history
    <3>2. \A d \in answered :
             pc'[d] = pc[d] \/ (d \in Ended /\ pc'[d] \in {"closing", "done"})
      BY <2>1, <1>0, <1>t DEF StartRun, StartRefused, TakeWaitChannel, Wake, GiveUp, CloseIdle,
           Goto, Answering, Ended
    <3>3. QED
      BY <3>1, <3>2, <1>q
  <2>2. CASE Decide(c)
    <3>1. /\ pc[c] = "returned" /\ pc' = [pc EXCEPT ![c] = "finishing"]
          /\ verdict' = [verdict EXCEPT ![c] = "none"]
          /\ UNCHANGED <<messages, answered>>
          /\ \A d \in Callers \ {c} : next'[d] = next[d]
      BY <2>2, <1>t DEF Decide, Goto, thread, history
    <3>2. ASSUME c \in answered, ~CancelledOnPurpose(c)
          PROVE  next'[c] = messages \o <<Prompt(c)>> \o <<Answer(c)>>
      <4>1. verdict[c] = "ok" /\ next[c] = messages \o <<Prompt(c)>> \o <<Answer(c)>>
        BY <1>0, <3>1, <3>2 DEF Answering
      <4>2. ~Interrupted(c)
        BY <1>0, <3>2, <4>1 DEF Interrupted, CancelsItsOwn
      <4>3. next[c] # <<>>
        BY <4>1, <1>t DEF Transcripts
      <4>4. next'[c] = next[c]
        BY <2>2, <4>2, <4>3, <1>t DEF Decide
      <4>5. QED
        BY <4>1, <4>4
    <3>3. Answering'
      BY <1>0, <1>p, <1>t, <1>n, <3>1, <3>2 DEF Answering
    <3>4. AnsweredIsKept'
      BY <1>0, <1>p, <1>t, <1>m, <3>1 DEF AnsweredIsKept, Ended
    <3>5. QED
      BY <3>3, <3>4
  <2>3. CASE Finish(c)
    <3>1. /\ pc[c] = "finishing" /\ pc' = [pc EXCEPT ![c] = "closing"]
          /\ next' = [next EXCEPT ![c] = <<>>]
          /\ UNCHANGED <<verdict, answered>>
      BY <2>3 DEF Finish, Goto, history
    <3>2. \A d \in Callers \ {c} : pc[d] \notin Holding
      BY <1>0, <3>1 DEF OneRun, Holding
    <3>3. messages' \in Slot!Outcomes(c)
      BY <2>3 DEF Finish, Fresh, IInv, Slot!Outcomes
    <3>4. ASSUME c \in answered, ~CancelledOnPurpose(c) PROVE HasTurn(c)'
      <4>1. next[c] = messages \o <<Prompt(c)>> \o <<Answer(c)>>
        BY <1>0, <3>1, <3>4 DEF Answering
      <4>2. next[c] # <<>>
        BY <4>1, <1>t DEF Transcripts
      <4>3. messages' = messages \o <<Prompt(c)>> \o <<Answer(c)>>
        BY <2>3, <4>1, <4>2 DEF Finish
      <4>4. QED
        BY <4>3, <1>t, TurnAtEnd
    <3>5. \A d : HasTurn(d) => HasTurn(d)'
      BY <1>0, <3>3, TurnStays
    <3>6. Answering'
      BY <1>0, <1>t, <3>1, <3>2 DEF Answering, Holding
    <3>7. AnsweredIsKept'
      BY <1>0, <1>p, <1>t, <3>1, <3>4, <3>5 DEF AnsweredIsKept, Ended
    <3>8. QED
      BY <3>6, <3>7
  <2>4. QED
    BY <1>1, <2>1, <2>2, <2>3 DEF CallerStep
<1>2. ASSUME NEW c \in Callers, RunnerReturn(c) PROVE (Answering /\ AnsweredIsKept)'
  <2>1. PICK v \in Verdicts : \E m \in RunnerReturns(c, v) :
           /\ next' = [next EXCEPT ![c] = m]
           /\ verdict' = [verdict EXCEPT ![c] = v]
           /\ answered' = IF v = "ok" THEN answered \union {c} ELSE answered
    BY <1>2 DEF RunnerReturn
  <2>2. /\ pc[c] = "running" /\ pc' = [pc EXCEPT ![c] = "returned"] /\ UNCHANGED messages
    BY <1>2 DEF RunnerReturn, Goto, thread
  <2>3. c \notin answered /\ base[c] = messages
    BY <1>0, <2>2 DEF Answering, IInv, Fresh
  <2>4. v = "ok" => next'[c] = messages \o <<Prompt(c)>> \o <<Answer(c)>> /\ verdict'[c] = "ok"
    <3>1. RunnerReturns(c, "ok") = {messages \o <<Prompt(c)>> \o <<Answer(c)>>}
      BY <2>3 DEF RunnerReturns
    <3>2. QED
      BY <1>t, <2>1, <3>1
  <2>5. \A d \in Callers \ {c} : next'[d] = next[d] /\ verdict'[d] = verdict[d] /\ pc'[d] = pc[d]
    BY <1>t, <2>1, <2>2
  <2>6. Answering'
    <3>1. pc'[c] = "returned" /\ answered' \subseteq answered \union {c}
          /\ (c \in answered' => v = "ok")
      BY <1>t, <2>1, <2>2, <2>3
    <3>2. ASSUME NEW d \in answered', d # c
          PROVE  /\ d \in answered /\ d \in Callers \ {c}
                 /\ CancelledOnPurpose(d) => CancelledOnPurpose(d)'
      BY <1>p, <1>t, <3>1, <3>2
    <3>3. QED
      BY <1>0, <1>n, <2>2, <2>4, <2>5, <3>1, <3>2 DEF Answering
  <2>7. AnsweredIsKept'
    BY <1>0, <1>p, <1>t, <1>m, <2>1, <2>2, <2>5 DEF AnsweredIsKept, Ended
  <2>8. QED
    BY <2>6, <2>7
<1>3. CASE UNCHANGED <<messages, answered, verdict, next, pc>>
  BY <1>3, <1>q
<1>4. ASSUME NEW c \in Callers, ParentDone(c) PROVE (Answering /\ AnsweredIsKept)'
  BY <1>4, <1>3 DEF ParentDone, thread, caller, history
<1>5. ASSUME NEW k \in Cancellers, CancellerStep(k) \/ WaitTimeout(k)
      PROVE  (Answering /\ AnsweredIsKept)'
  BY <1>5, <1>3 DEF CancellerStep, Snapshot, CallCancel, SeeIdle, WaitTimeout, thread, caller,
       history
<1>6. CASE UNCHANGED vars \/ Terminated
  BY <1>6, <1>3 DEF vars, Terminated
<1>7. QED
  BY <1>1, <1>2, <1>4, <1>5, <1>6 DEF Next

-----------------------------------------------------------------------------
\* A new thread satisfies the inductive invariant.
LEMMA IInvInit == Init => IInv
<1> SUFFICES ASSUME Init PROVE IInv
  OBVIOUS
<1>1. TypeOK /\ TargetOK
  BY TypeInit
<1>2. OneRun /\ FieldsAgree /\ HitHeld /\ ClosedEnded /\ EndedMeansSettled
  BY NilAssumption DEF Init, OneRun, FieldsAgree, HitHeld, ClosedEnded, EndedMeansSettled, Holding
<1>3. Fresh /\ OnlyEnded /\ RolledBack /\ CancelsItsOwn /\ Answering /\ AnsweredIsKept
  BY DEF Init, Fresh, OnlyEnded, RolledBack, CancelsItsOwn, Answering, AnsweredIsKept
<1>4. QED
  BY <1>1, <1>2, <1>3 DEF IInv

\* The inductive invariant holds in every behaviour.
LEMMA Inductive == Spec => []IInv
<1>1. IInv /\ [Next]_vars => IInv'
  BY TypeStep, OneRunStep, ClosedStep, HitStep, FreshStep, TurnsStep,
     CancelStep, AnswerStep DEF IInv
<1>2. QED
  BY <1>1, IInvInit, PTL DEF Spec

\* At most one run holds a session's thread, and Cancel reaches that run only.
THEOREM MutualExclusion == Spec => []OneRun
<1>1. IInv => OneRun
  BY DEF IInv
<1>2. QED
  BY <1>1, Inductive, PTL

\* A run nobody cancelled, and whose runner had answered, keeps its turn.
THEOREM AnswersStay == Spec => []AnsweredIsKept
<1>1. IInv => AnsweredIsKept
  BY DEF IInv
<1>2. QED
  BY <1>1, Inductive, PTL

\* A run cancelled before its runner returned leaves no message behind.
THEOREM CancellationRollsBack == Spec => []RolledBack
<1>1. IInv => RolledBack
  BY DEF IInv
<1>2. QED
  BY <1>1, Inductive, PTL

\* A CancelAndWait that reports success has waited for its run to let go.
THEOREM CancelAndWaitSettles == Spec => []EndedMeansSettled
<1>1. IInv => EndedMeansSettled
  BY DEF IInv
<1>2. QED
  BY <1>1, Inductive, PTL

\* Every step of RunThread is a step of the abstract slot, or leaves it alone.
THEOREM Refinement == Spec => ImplementsRunSlot
<1>1. Init => Slot!Init
  BY DEF Init, Slot!Init, Ended
<1>2. IInv /\ [Next]_vars => [Slot!Next]_(Slot!svars)
  <2> SUFFICES ASSUME IInv, [Next]_vars PROVE Slot!Next \/ UNCHANGED Slot!svars
    OBVIOUS
  <2>0. TypeOK /\ OneRun /\ FieldsAgree
    BY DEF IInv
  <2>t. pc \in [Callers -> {"new", "queueing", "queued", "running", "returned", "finishing",
                            "closing", "done"}]
    BY <2>0 DEF TypeOK
  <2>q. UNCHANGED <<messages, cancel, Ended>> => UNCHANGED Slot!svars
    BY DEF Slot!svars
  <2>1. ASSUME NEW c \in Callers, CallerStep(c) PROVE Slot!Next \/ UNCHANGED Slot!svars
    <3>1. CASE StartRun(c)
      BY <2>0, <2>t, <3>1 DEF StartRun, Goto, FieldsAgree, Slot!Next, Slot!Begin, Ended
    <3>2. CASE Finish(c)
      <4>1. messages' \in Slot!Outcomes(c)
        BY <3>2 DEF Finish, Fresh, IInv, Slot!Outcomes
      <4>2. cancel = c /\ cancel' = Nil /\ Ended' = Ended \union {c}
        BY <2>0, <2>t, <3>2 DEF Finish, Goto, OneRun, Holding, Ended
      <4>3. QED
        BY <4>1, <4>2 DEF Slot!Next, Slot!End
    <3>3. CASE GiveUp(c) \/ (StartRefused(c) /\ pc'[c] = "done")
      <4>1. cancel # c /\ c \notin Ended /\ Ended' = Ended \union {c} /\ UNCHANGED <<messages, cancel>>
        <5>1. /\ pc' = [pc EXCEPT ![c] = "done"] /\ pc[c] \in {"new", "queued"}
              /\ UNCHANGED <<messages, cancel>>
          BY <2>t, <3>3 DEF GiveUp, StartRefused, Goto, thread
        <5>2. cancel # c
          BY <2>0, <5>1, NilAssumption DEF OneRun, FieldsAgree, Holding
        <5>3. QED
          BY <2>t, <5>1, <5>2 DEF Ended
      <4>2. QED
        BY <4>1 DEF Slot!Next, Slot!Refuse
    <3>4. CASE StartRefused(c) /\ pc'[c] # "done"
      BY <2>t, <2>q, <3>4 DEF StartRefused, Goto, Ended, thread
    <3>5. CASE TakeWaitChannel(c) \/ Wake(c) \/ Decide(c) \/ CloseIdle(c)
      BY <2>t, <2>q, <3>5 DEF TakeWaitChannel, Wake, Decide, CloseIdle, Goto, Ended, thread
    <3>6. QED
      BY <2>1, <3>1, <3>2, <3>3, <3>4, <3>5 DEF CallerStep
  <2>2. ASSUME NEW c \in Callers, RunnerReturn(c) \/ ParentDone(c) PROVE UNCHANGED Slot!svars
    BY <2>t, <2>q, <2>2 DEF RunnerReturn, ParentDone, Goto, Ended, thread, caller
  <2>3. ASSUME NEW k \in Cancellers, CancellerStep(k) \/ WaitTimeout(k) PROVE UNCHANGED Slot!svars
    BY <2>q, <2>3 DEF CancellerStep, Snapshot, CallCancel, SeeIdle, WaitTimeout, Ended, thread, caller
  <2>4. CASE UNCHANGED vars \/ Terminated
    BY <2>q, <2>4 DEF vars, Terminated, Ended
  <2>5. QED
    BY <2>1, <2>2, <2>3, <2>4 DEF Next
<1>3. QED
  BY <1>1, <1>2, Inductive, PTL DEF Spec, ImplementsRunSlot, Slot!Spec
=============================================================================
