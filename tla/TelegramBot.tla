----------------------------- MODULE TelegramBot ------------------------------
(***************************************************************************)
(* The Telegram adapter (internal/telegrambot): the poller, which admits   *)
(* each update to the gateway and acknowledges it, the goroutine of each   *)
(* admitted prompt, which runs it, and the state file that both write as a *)
(* whole and that a restart reads.  One chat; the gateway is its ledger of *)
(* session inputs, as module SessionInputs has it.                         *)
(*                                                                         *)
(* An update is a prompt, a command that takes the chat's mutex ("locked") *)
(* or /cancel, which does not.                                             *)
(***************************************************************************)
EXTENDS Naturals, Sequences, FiniteSets

CONSTANTS
    MaxUpdates, \* bound: updates the user sends
    MaxFaults,  \* bound: calls of the gateway and saves that fail
    MaxLate,    \* bound: interrupted runs that take more than 5 s to stop
    MaxCrashes, \* bound: restarts of the adapter
    MaxQuestions    \* bound: questions that runs ask the user

ASSUME BoundsAssumption ==
    /\ MaxUpdates \in Nat /\ MaxFaults \in Nat /\ MaxLate \in Nat /\ MaxCrashes \in Nat
    /\ MaxQuestions \in Nat

VARIABLES
    kind,           \* the updates that the user has sent: what each is
    input,          \* the gateway's ledger: "none", "admitted", "promoted", "closed"
    requests,       \* the run requests that the gateway is working on
    question,       \* the run that waits in ask_user for an answer
    questions,
    disk,           \* the state file: Offset and PendingInputID
    offset, pending,    \* the same in memory
    poller, batch, seen, awaited,   \* the poller, its updates and its local variables
    latest,         \* inputSeq of the chat
    pc, seq,        \* the goroutine of each prompt, its inputSeq
    cancelled,      \* the goroutines whose context is cancelled
    owner, current, \* who has the chat's mutex, and whose cancel is registered
    faults, lates, crashes,
    missed          \* history: prompts that could not be admitted, or were to be answers

world == <<kind, question, questions>>
gateway == <<input, requests>>
state == <<disk, offset, pending>>
polling == <<poller, batch, seen, awaited, latest>>
handlers == <<pc, seq, cancelled, owner, current>>
bounds == <<faults, lates, crashes>>
vars == <<world, gateway, state, polling, handlers, bounds, missed>>

Updates == 1..MaxUpdates
Kinds == {"prompt", "locked", "cancel"}
Nobody == 0

Init == /\ kind = <<>>
        /\ input = [u \in Updates |-> "none"] /\ requests = {}
        /\ question = Nobody /\ questions = 0
        /\ disk = [offset |-> 1, pending |-> Nobody] /\ offset = 1 /\ pending = Nobody
        /\ poller = "poll" /\ batch = <<>> /\ seen = Nobody /\ awaited = Nobody /\ latest = 0
        /\ pc = [u \in Updates |-> "none"] /\ seq = [u \in Updates |-> 0]
        /\ cancelled = {} /\ owner = Nobody /\ current = Nobody
        /\ faults = 0 /\ lates = 0 /\ crashes = 0 /\ missed = {}

-----------------------------------------------------------------------------
Fault == faults < MaxFaults /\ faults' = faults + 1

\* Every save writes the whole state, and one that fails leaves the file alone.
Save(o, p) ==
    /\ offset' = o /\ pending' = p
    /\ \/ disk' = [offset |-> o, pending |-> p] /\ UNCHANGED faults
       \/ Fault /\ UNCHANGED disk

\* Mutant: whatever is pending is cleared.
ClearAny(u) == Save(offset, Nobody)

\* clearPendingInput.
ClearPending(u) ==
    IF pending = u THEN Save(offset, Nobody) ELSE UNCHANGED <<state, faults>>

-----------------------------------------------------------------------------
\* The gateway: a run request promotes an admitted input once, and its run ends, but not
\* while it waits for an answer.
GatewayBegins(u) ==
    /\ u \in requests /\ input[u] = "admitted"
    /\ input' = [input EXCEPT ![u] = "promoted"]
    /\ UNCHANGED <<world, requests, state, polling, handlers, bounds, missed>>

GatewayEnds(u) ==
    /\ u \in requests /\ input[u] # "admitted" /\ question # u
    /\ input' = [input EXCEPT ![u] = "closed"]
    /\ requests' = requests \ {u}
    /\ UNCHANGED <<world, state, polling, handlers, bounds, missed>>

\* ask_user: a session has one question at a time, and no question a time of its own.
RunAsks(u) ==
    /\ u \in requests /\ input[u] = "promoted"
    /\ question = Nobody /\ questions < MaxQuestions
    /\ question' = u /\ questions' = questions + 1
    /\ UNCHANGED <<kind, gateway, state, polling, handlers, bounds, missed>>

QuestionEnds ==
    /\ question # Nobody /\ question' = Nobody
    /\ UNCHANGED <<kind, questions, gateway, state, polling, handlers, bounds, missed>>

\* The adapter no longer waits for the run: its context is cancelled, and the question
\* withdrawn.
QuestionWithdrawn(u) == question = u /\ pc[u] # "run" /\ QuestionEnds

UserSends ==
    /\ Len(kind) < MaxUpdates
    /\ \E k \in Kinds : kind' = Append(kind, k)
    /\ UNCHANGED <<question, questions, gateway, state, polling, handlers, bounds, missed>>

-----------------------------------------------------------------------------
\* GetUpdates from the offset on.
Poll ==
    /\ poller = "poll" /\ offset <= Len(kind)
    /\ batch' = [i \in 1..(Len(kind) + 1 - offset) |-> offset + i - 1]
    /\ poller' = "update"
    /\ UNCHANGED <<world, gateway, state, seen, awaited, latest, handlers, bounds, missed>>

Update == Head(batch)
At(label, type) == poller = label /\ kind[Update] = type

\* The poller is done with the update.
NextUpdate == /\ batch' = Tail(batch)
              /\ poller' = IF Len(batch) = 1 THEN "poll" ELSE "update"
              /\ seen' = Nobody /\ awaited' = Nobody

\* ackOffset.
Later(u) == IF u >= offset THEN u + 1 ELSE offset
Ack == Save(Later(Update), pending)

\* /cancel, and the commands that wait for the chat's mutex.
CancelCommand ==
    /\ At("update", "cancel")
    /\ cancelled' = cancelled \union ({current} \ {Nobody})
    /\ Ack /\ NextUpdate
    /\ UNCHANGED <<world, gateway, latest, pc, seq, owner, current, lates, crashes, missed>>

LockedCommand ==
    /\ At("update", "locked") /\ owner = Nobody
    /\ Ack /\ NextUpdate
    /\ UNCHANGED <<world, gateway, latest, handlers, lates, crashes, missed>>

\* answerPendingUserInput: the gateway takes a prompt as the answer to the question that
\* a run waits with, or refuses it (empty, or over 2000 characters).
Asked == question # Nobody
AnswerIsTaken == question' = Nobody
AnswerIsRefused == UNCHANGED question

\* The update is acknowledged if the answer is taken and the adapter is told so; else the
\* poller comes by it again, and again asks the gateway.
AnswerQuestion ==
    /\ At("update", "prompt") /\ Asked
    /\ \/ AnswerIsTaken /\ Ack
       \/ AnswerIsRefused /\ UNCHANGED <<state, faults>>
       \/ AnswerIsTaken /\ Fault /\ UNCHANGED state
    /\ missed' = missed \union {Update}
    /\ NextUpdate
    /\ UNCHANGED <<kind, questions, gateway, latest, handlers, lates, crashes>>

\* interruptActiveRunForInput: the new input is the latest one, and then the
\* registered run is cancelled and waited for, 5 s at most.
MarkLatest ==
    /\ At("update", "prompt")
    /\ latest' = latest + 1
    /\ poller' = "cancel"
    /\ UNCHANGED <<world, gateway, state, batch, seen, awaited, handlers, bounds, missed>>

CancelActive ==
    /\ poller = "cancel"
    /\ awaited' = current
    /\ cancelled' = cancelled \union ({current} \ {Nobody})
    /\ poller' = "await"
    /\ UNCHANGED <<world, gateway, state, batch, seen, latest, pc, seq, owner, current, bounds, missed>>

RunDone ==
    /\ poller = "await"
    /\ \/ awaited \notin {u \in Updates : pc[u] # "done"} /\ UNCHANGED lates
       \/ lates < MaxLate /\ lates' = lates + 1
    /\ poller' = "read"
    /\ UNCHANGED <<world, gateway, state, batch, seen, awaited, latest, handlers, faults, crashes, missed>>

\* resolveRunState reads the chat's state and writes it.
ReadChat ==
    /\ poller = "read"
    /\ seen' = pending
    /\ poller' = "write"
    /\ UNCHANGED <<world, gateway, state, batch, awaited, latest, handlers, bounds, missed>>

WriteChat ==
    /\ poller = "write"
    /\ Save(offset, seen)
    /\ poller' = "admit"
    /\ UNCHANGED <<world, gateway, batch, seen, awaited, latest, handlers, lates, crashes, missed>>

\* Mutant: the admission is taken for granted.
AdmitUnasked ==
    /\ poller = "admit"
    /\ poller' = IF input[Update] \in {"none", "admitted"} THEN "save" ELSE "skip"
    /\ UNCHANGED <<world, gateway, state, batch, seen, awaited, latest, handlers, bounds, missed>>

\* AdmitSessionInput, of the update's own input id.
Admit ==
    /\ poller = "admit"
    /\ input' = [input EXCEPT ![Update] = IF @ = "none" THEN "admitted" ELSE @]
    /\ poller' = IF input'[Update] = "admitted" THEN "save" ELSE "skip"
    /\ missed' = missed \ {Update}
    /\ UNCHANGED <<world, requests, state, batch, seen, awaited, latest, handlers, bounds>>

\* The admission fails, for the gateway or only for the adapter, or an attachment
\* cannot be loaded: the update is not acknowledged.
AdmitFails ==
    /\ poller = "admit" /\ Fault
    /\ UNCHANGED input \/ input' = [input EXCEPT ![Update] = IF @ = "none" THEN "admitted" ELSE @]
    /\ missed' = missed \union {Update}
    /\ NextUpdate
    /\ UNCHANGED <<world, requests, state, latest, handlers, lates, crashes>>

\* A duplicate that has left the admitted state: no run.
SkipDuplicate ==
    /\ poller = "skip"
    /\ Save(Later(Update), IF pending = Update THEN Nobody ELSE pending)
    /\ NextUpdate
    /\ UNCHANGED <<world, gateway, latest, handlers, lates, crashes, missed>>

\* setChatStateStrict: the pending input is on disk before the update is
\* acknowledged; if it cannot be, the input is closed as preflight_failed, unless
\* that fails too.
SavePending ==
    /\ poller = "save"
    /\ pending' = Update /\ UNCHANGED offset
    /\ \/ /\ disk' = [offset |-> offset, pending |-> Update]
          /\ poller' = "ack"
          /\ UNCHANGED <<input, batch, seen, awaited, faults>>
       \/ /\ Fault /\ UNCHANGED disk
          /\ UNCHANGED input \/ input' = [input EXCEPT ![Update] = "closed"]
          /\ NextUpdate
    /\ UNCHANGED <<world, requests, latest, handlers, lates, crashes, missed>>

\* The acknowledgement, and the prompt's goroutine.
AckAndRun ==
    /\ poller = "ack"
    /\ Ack /\ NextUpdate
    /\ pc' = [pc EXCEPT ![Update] = "lock"]
    /\ seq' = [seq EXCEPT ![Update] = latest]
    /\ UNCHANGED <<world, gateway, latest, cancelled, owner, current, lates, crashes, missed>>

-----------------------------------------------------------------------------
\* handleMessageWithAdmission.
Goto(u, label) == pc' = [pc EXCEPT ![u] = label]
Superseded(u) == latest # seq[u]
HandlerFrame == UNCHANGED <<world, polling, seq, lates, crashes, missed>>

\* A question that a run has asked since takes the prompt as its answer, or refuses it:
\* it does not get a run of its own, and it stays pending.
TakenAsAnswer(u) ==
    /\ pc[u] = "lock" /\ Asked
    /\ AnswerIsTaken \/ AnswerIsRefused
    /\ Goto(u, "done")
    /\ UNCHANGED <<kind, questions, polling, seq, lates, crashes, missed>>
    /\ UNCHANGED <<gateway, state, cancelled, owner, current, faults>>

Lock(u) ==
    /\ pc[u] = "lock" /\ owner = Nobody
    /\ owner' = u
    /\ Goto(u, IF Superseded(u) THEN "drop" ELSE "register")
    /\ HandlerFrame /\ UNCHANGED <<gateway, state, cancelled, current, faults>>

\* Mutant: nobody looks again after the registration.
RegisterAndStart(u) ==
    /\ pc[u] = "register"
    /\ current' = u
    /\ Goto(u, "start")
    /\ HandlerFrame /\ UNCHANGED <<gateway, state, cancelled, owner, faults>>

\* setCancelWithDone.
Register(u) ==
    /\ pc[u] = "register"
    /\ current' = u
    /\ Goto(u, "check")
    /\ HandlerFrame /\ UNCHANGED <<gateway, state, cancelled, owner, faults>>

\* The second look at inputSeq; then the catch-up with the session's events, which
\* may save the chat's state, as it was at the admission.
Check(u) ==
    /\ pc[u] = "check"
    /\ IF Superseded(u) THEN Goto(u, "drop") /\ UNCHANGED <<state, faults>>
       ELSE Goto(u, "recheck") /\ (Save(offset, u) \/ UNCHANGED <<state, faults>>)
    /\ HandlerFrame /\ UNCHANGED <<gateway, cancelled, owner, current>>

\* The third look; then the message that will show the run.
Recheck(u) ==
    /\ pc[u] = "recheck"
    /\ Goto(u, IF Superseded(u) THEN "drop" ELSE "start")
    /\ HandlerFrame /\ UNCHANGED <<gateway, state, cancelled, owner, current, faults>>

\* Mutant: that return leaves the mutex locked.
GiveUpLocked(u) ==
    /\ pc[u] \in {"check", "recheck"} /\ ~Superseded(u) /\ Fault
    /\ Goto(u, "done")
    /\ HandlerFrame /\ UNCHANGED <<gateway, state, cancelled, owner, current>>

\* The session cannot be caught up with, or that message not be sent: nothing runs.
GiveUp(u) ==
    /\ pc[u] \in {"check", "recheck"} /\ ~Superseded(u) /\ Fault
    /\ Goto(u, "end")
    /\ HandlerFrame /\ UNCHANGED <<gateway, state, cancelled, owner, current>>

\* RunSession, with the goroutine's context.
Start(u) ==
    /\ pc[u] = "start"
    /\ IF u \in cancelled THEN Goto(u, "stop") /\ UNCHANGED requests
       ELSE Goto(u, "run") /\ requests' = requests \union {u}
    /\ HandlerFrame /\ UNCHANGED <<input, state, cancelled, owner, current, faults>>

\* emitEvent: an event about a question, or the end of the run, saves the state as it
\* was at the admission.
RunSaves(u) ==
    /\ pc[u] = "run" /\ ~Superseded(u)
    /\ Save(offset, u)
    /\ HandlerFrame /\ UNCHANGED <<gateway, pc, cancelled, owner, current>>

RunReturns(u) ==
    /\ pc[u] = "run" /\ (u \in cancelled \/ u \notin requests)
    /\ Goto(u, "stop")
    /\ HandlerFrame /\ UNCHANGED <<gateway, state, cancelled, owner, current, faults>>

\* The state is saved, if the run has had events, as it was at the admission.
Stop(u) ==
    /\ pc[u] = "stop"
    /\ Save(offset, u) \/ UNCHANGED <<state, faults>>
    /\ Goto(u, "drop")
    /\ HandlerFrame /\ UNCHANGED <<gateway, cancelled, owner, current>>

Drop(u) ==
    /\ pc[u] = "drop"
    /\ ClearPending(u)
    /\ Goto(u, "end")
    /\ HandlerFrame /\ UNCHANGED <<gateway, cancelled, owner, current>>

\* After its last messages: clearCancelIfCurrent, and the mutex.
End(u) ==
    /\ pc[u] = "end"
    /\ owner' = Nobody
    /\ current' = IF current = u THEN Nobody ELSE current
    /\ cancelled' = cancelled \ {u}
    /\ Goto(u, "done")
    /\ HandlerFrame /\ UNCHANGED <<gateway, state, faults>>

-----------------------------------------------------------------------------
Crash ==
    /\ crashes < MaxCrashes /\ poller # "boot"
    /\ crashes' = crashes + 1
    /\ poller' = "boot" /\ batch' = <<>> /\ seen' = Nobody /\ awaited' = Nobody /\ latest' = 0
    /\ pc' = [u \in Updates |-> "none"] /\ seq' = [u \in Updates |-> 0]
    /\ cancelled' = {} /\ owner' = Nobody /\ current' = Nobody
    /\ offset' = disk.offset /\ pending' = disk.pending
    /\ UNCHANGED <<world, gateway, disk, faults, lates, missed>>

\* reconcilePendingInputsOnStartup: the pending input is closed, or the adapter
\* does not start.
Boot ==
    /\ poller = "boot"
    /\ IF pending = Nobody THEN poller' = "poll" /\ UNCHANGED <<input, state, faults>>
       ELSE /\ input' = [input EXCEPT ![pending] = "closed"]
            /\ pending' = Nobody /\ disk' = [disk EXCEPT !.pending = Nobody]
            /\ poller' = "poll"
            /\ UNCHANGED <<offset, faults>>
    /\ UNCHANGED <<world, requests, batch, seen, awaited, latest, handlers, lates, crashes, missed>>

BootFails ==
    /\ poller = "boot" /\ pending # Nobody /\ Fault
    /\ UNCHANGED input \/ input' = [input EXCEPT ![pending] = "closed"]
    /\ UNCHANGED <<world, requests, state, polling, handlers, lates, crashes, missed>>

PollerStep ==
    \/ Poll \/ CancelCommand \/ LockedCommand \/ AnswerQuestion
    \/ MarkLatest \/ CancelActive \/ RunDone \/ ReadChat \/ WriteChat
    \/ Admit \/ AdmitFails \/ SkipDuplicate \/ SavePending \/ AckAndRun
    \/ Boot \/ BootFails

HandlerStep(u) ==
    \/ TakenAsAnswer(u) \/ Lock(u) \/ Register(u) \/ Check(u) \/ Recheck(u) \/ GiveUp(u)
    \/ Start(u) \/ RunSaves(u) \/ RunReturns(u) \/ Stop(u) \/ Drop(u) \/ End(u)

GatewayStep(u) == GatewayBegins(u) \/ GatewayEnds(u) \/ QuestionWithdrawn(u)

\* QuestionEnds: another client of the session answers or rejects the question.
Next ==
    \/ UserSends \/ PollerStep \/ Crash \/ QuestionEnds
    \/ \E u \in Updates : HandlerStep(u) \/ GatewayStep(u) \/ RunAsks(u)

Spec == Init /\ [][Next]_vars

\* The goroutines are scheduled, and the gateway's runs end once they wait for no answer;
\* nobody has to answer.
FairSpec ==
    /\ Spec
    /\ WF_vars(PollerStep)
    /\ \A u \in Updates : WF_vars(HandlerStep(u)) /\ WF_vars(GatewayStep(u))

-----------------------------------------------------------------------------
\* Every variable has its type.
TypeOK ==
    /\ kind \in Seq(Kinds) /\ Len(kind) <= MaxUpdates
    /\ input \in [Updates -> {"none", "admitted", "promoted", "closed"}]
    /\ requests \subseteq Updates /\ question \in 0..MaxUpdates /\ questions \in 0..MaxQuestions
    /\ offset \in 1..(MaxUpdates + 1) /\ pending \in 0..MaxUpdates
    /\ disk \in [offset : 1..(MaxUpdates + 1), pending : 0..MaxUpdates]
    /\ poller \in {"poll", "update", "cancel", "await", "read", "write", "admit", "skip",
                   "save", "ack", "boot"}
    /\ batch \in Seq(Updates) /\ seen \in 0..MaxUpdates /\ awaited \in 0..MaxUpdates
    /\ latest \in Nat
    /\ pc \in [Updates -> {"none", "lock", "register", "check", "recheck", "start", "run",
                           "stop", "drop", "end", "done"}]
    /\ seq \in [Updates -> Nat]
    /\ cancelled \subseteq Updates /\ owner \in 0..MaxUpdates /\ current \in 0..MaxUpdates
    /\ missed \subseteq Updates
    /\ faults \in 0..MaxFaults /\ lates \in 0..MaxLate /\ crashes \in 0..MaxCrashes

\* A prompt that is acknowledged and still to be run, and that no newer one has
\* superseded, is the pending input in the state file: a restart knows of it.  So
\* long as every interrupted run has stopped in time: one that has not may write
\* the state of its own admission over the newer one.
AckedIsKept ==
    lates = 0 =>
        \A u \in Updates :
            /\ pc[u] \in {"lock", "register", "check", "recheck", "start"}
            /\ ~Superseded(u)
            => disk.pending = u

\* Once a newer prompt has interrupted what was registered, no older one goes on
\* with a context that lives: it is not registered yet and will find itself
\* superseded, or it is cancelled.
OldNeverRuns ==
    poller # "cancel" =>
        \A u \in Updates : pc[u] \in {"start", "run"} /\ Superseded(u) => u \in cancelled

\* No acknowledgement passes a prompt that the gateway does not know, unless it was
\* to be the answer to a question or its own admission has failed: then the next
\* update of the batch may pass it.
AckedIsAdmitted ==
    \A u \in Updates : u < offset /\ kind[u] = "prompt" => input[u] # "none" \/ u \in missed

\* Once no run waits for an answer any more, every update that the user has sent is
\* acknowledged, again and again: an interrupted run, a command that waits for the
\* mutex, an answer that was refused, a duplicate, a failure or a restart does not stop
\* the poller for good.  A run that waits for ever does: a command that needs the mutex
\* of that run holds up the poller, behind which neither an answer nor /cancel is read,
\* and an answer that is refused is polled again without end.
UpdatesAreConsumed == <>[](question = Nobody) => []<>(offset > Len(kind))
=============================================================================
