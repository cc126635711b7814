------------------------------ MODULE RunThread ------------------------------
(***************************************************************************)
(* internal/gateway/run_thread.go: the lock that lets one run at a time    *)
(* work on a session's transcript.  Callers are RunMessage calls, each with*)
(* a prompt and a context of its own; Cancellers are Cancel and            *)
(* CancelAndWait calls.  Each step is one critical section of s.mu, one    *)
(* channel operation or one return of the runner, so every interleaving of *)
(* the Go code's goroutines is a behaviour.  The cancel function and the   *)
(* idle channel of a run are named by the call that made them.             *)
(***************************************************************************)
EXTENDS Naturals, Sequences

CONSTANTS Callers,      \* calls of RunMessage
          Cancellers,   \* calls of Cancel or CancelAndWait
          Policies,     \* the InputPolicy values a thread may be made with
          Nil           \* Go's nil

ASSUME PoliciesAssumption ==
    Policies \subseteq {"reject_while_active", "queue_while_active"}
ASSUME NilAssumption == Nil \notin Callers

VARIABLES
    inputPolicy,\* runThread.inputPolicy
    messages,   \* runThread.messages
    running,    \* runThread.running
    cancel,     \* runThread.cancel: the call whose context it cancels
    idle,       \* runThread.idle: the call that made the channel
    closed,     \* the idle channels that have been closed
    parentDone, \* callers whose own context has ended
    cancelled,  \* callers whose run context (a child of it) has ended
    pc,         \* where each RunMessage call is
    base,       \* the copy of messages its run started from
    next,       \* the messages its runner returned, then those it will keep
    verdict,    \* how its runner ended
    chan,       \* the channel it waits for, or will close
    kpc,        \* where each Cancel or CancelAndWait call is
    target,     \* the run whose cancel function it copied
    hit,        \* history: the runs cancelled before their runner returned
    answered    \* history: the runs whose runner came back with an answer

thread == <<inputPolicy, messages, running, cancel, idle>>
caller == <<pc, base, next, verdict, chan>>
canceller == <<kpc, target>>
history == <<hit, answered>>
vars == <<inputPolicy, messages, running, cancel, idle, closed, parentDone, cancelled, pc,
          base, next, verdict, chan, kpc, target, hit, answered>>

Prompt(c) == <<c, "prompt">>
Answer(c) == <<c, "answer">>

\* The runner's (messages, error): an answer; a failure after the prompt; a
\* user_prompt_submit hook that blocked the prompt (a PromptBlockedError, which
\* discards it) or that failed, both of which return the messages without the
\* prompt; or context.Canceled or DeadlineExceeded, with whatever had been
\* produced by then.  That last error need not be the run's context's: a
\* provider returns DeadlineExceeded for its own RequestTimeout.
Verdicts == {"ok", "failed", "blocked", "hook_failed", "canceled"}

RunnerReturns(c, v) ==
    LET asked == base[c] \o <<Prompt(c)>>
        full  == asked \o <<Answer(c)>>
    IN  CASE v = "ok" -> {full}
          [] v = "failed" -> {asked}
          [] v \in {"blocked", "hook_failed"} -> {base[c]}
          [] v = "canceled" -> {asked, full}

-----------------------------------------------------------------------------
Init == /\ inputPolicy \in Policies
        /\ messages = <<>> /\ running = FALSE /\ cancel = Nil /\ idle = Nil
        /\ closed = {} /\ parentDone = {} /\ cancelled = {} /\ hit = {}
        /\ answered = {}
        /\ pc = [c \in Callers |-> "new"]
        /\ base = [c \in Callers |-> <<>>]
        /\ next = [c \in Callers |-> <<>>]
        /\ verdict = [c \in Callers |-> "none"]
        /\ chan = [c \in Callers |-> Nil]
        /\ kpc = [k \in Cancellers |-> "new"]
        /\ target = [k \in Cancellers |-> Nil]

Goto(c, label) == pc' = [pc EXCEPT ![c] = label]

\* Mutant: a startRun that does not look at running.
StartRunUnchecked(c) ==
    /\ pc[c] = "new"
    /\ running' = TRUE /\ cancel' = c /\ idle' = c
    /\ base' = [base EXCEPT ![c] = messages]
    /\ Goto(c, "running")
    /\ UNCHANGED <<inputPolicy, messages, next, verdict, chan, closed, parentDone,
                   cancelled, history, canceller>>

\* startRun on an idle thread.
StartRun(c) ==
    /\ pc[c] = "new" /\ ~running
    /\ running' = TRUE /\ cancel' = c /\ idle' = c
    /\ base' = [base EXCEPT ![c] = messages]
    /\ Goto(c, "running")
    /\ UNCHANGED <<inputPolicy, messages, next, verdict, chan, closed, parentDone,
                   cancelled, history, canceller>>

\* startRun on a busy thread: refused with ErrBusy, or about to queue.
StartRefused(c) ==
    /\ pc[c] = "new" /\ running
    /\ Goto(c, IF inputPolicy = "queue_while_active" THEN "queueing" ELSE "done")
    /\ UNCHANGED <<thread, base, next, verdict, chan, closed,
                   parentDone, cancelled, history, canceller>>

\* Mutant: a caller that waits on the channel it finds, nil or not.
TakeAnyChannel(c) ==
    /\ pc[c] = "queueing"
    /\ Goto(c, "queued") /\ chan' = [chan EXCEPT ![c] = idle]
    /\ UNCHANGED <<thread, base, next, verdict, closed, parentDone,
                   cancelled, history, canceller>>

\* activeWaitChannel: nil sends the caller round the loop again.
TakeWaitChannel(c) ==
    /\ pc[c] = "queueing"
    /\ IF running THEN Goto(c, "queued") /\ chan' = [chan EXCEPT ![c] = idle]
                  ELSE Goto(c, "new") /\ UNCHANGED chan
    /\ UNCHANGED <<thread, base, next, verdict, closed, parentDone,
                   cancelled, history, canceller>>

\* The select in waitStartRun: the channel closes, or the context ends.  A
\* select with both branches ready takes either.
Wake(c) ==
    /\ pc[c] = "queued" /\ chan[c] \in closed
    /\ chan' = [chan EXCEPT ![c] = Nil]
    /\ Goto(c, "new")
    /\ UNCHANGED <<thread, base, next, verdict, closed, parentDone, cancelled,
                   history, canceller>>

GiveUp(c) ==
    /\ pc[c] = "queued" /\ c \in parentDone
    /\ Goto(c, "done")
    /\ UNCHANGED <<thread, base, next, verdict, chan, closed,
                   parentDone, cancelled, history, canceller>>

RunnerReturn(c) ==
    /\ pc[c] = "running"
    /\ \E v \in Verdicts : \E m \in RunnerReturns(c, v) :
         /\ next' = [next EXCEPT ![c] = m]
         /\ verdict' = [verdict EXCEPT ![c] = v]
         /\ answered' = IF v = "ok" THEN answered \union {c} ELSE answered
    /\ Goto(c, "returned")
    /\ hit' = hit \union (cancelled \intersect {c})
    /\ UNCHANGED <<thread, base, chan, closed, parentDone, cancelled,
                   canceller>>

\* Mutant: the check of the run's context forgotten.
InterruptedByError(c) == verdict[c] = "canceled"

\* runInterrupted.
Interrupted(c) == c \in cancelled \/ verdict[c] = "canceled"

\* The three ways RunMessage calls finishRun, which keeps the first argument
\* unless it is empty.  The locals that no later step reads are forgotten.
Decide(c) ==
    LET first  == IF Interrupted(c) THEN base[c] ELSE next[c]
        second == IF Interrupted(c) \/ verdict[c] = "blocked"
                  THEN base[c] ELSE base[c] \o <<Prompt(c)>>
    IN  /\ pc[c] = "returned"
        /\ next' = [next EXCEPT ![c] = IF first # <<>> THEN first ELSE second]
        /\ base' = [base EXCEPT ![c] = <<>>]
        /\ verdict' = [verdict EXCEPT ![c] = "none"]
        /\ Goto(c, "finishing")
        /\ UNCHANGED <<thread, chan, closed, parentDone, cancelled, history, canceller>>

\* finishRun: the critical section, and the close that follows the unlock.
Finish(c) ==
    /\ pc[c] = "finishing"
    /\ messages' = IF next[c] # <<>> THEN next[c] ELSE messages
    /\ next' = [next EXCEPT ![c] = <<>>]
    /\ running' = FALSE /\ cancel' = Nil /\ idle' = Nil
    /\ chan' = [chan EXCEPT ![c] = idle]
    /\ Goto(c, "closing")
    /\ UNCHANGED <<inputPolicy, base, verdict, closed, parentDone, cancelled, history, canceller>>

\* Mutant: a cancelled run that stops before the close.
CloseUnlessCancelled(c) ==
    /\ pc[c] = "closing" /\ c \notin cancelled
    /\ closed' = closed \union ({chan[c]} \ {Nil})
    /\ Goto(c, "done")
    /\ UNCHANGED <<thread, base, next, verdict, chan, parentDone,
                   cancelled, history, canceller>>

CloseIdle(c) ==
    /\ pc[c] = "closing"
    /\ closed' = closed \union ({chan[c]} \ {Nil})
    /\ Goto(c, "done")
    /\ UNCHANGED <<thread, base, next, verdict, chan, parentDone,
                   cancelled, history, canceller>>

-----------------------------------------------------------------------------
\* The caller's own context ends: a client went away, the gateway shuts down.
ParentDone(c) ==
    /\ c \notin parentDone /\ pc[c] # "done"
    /\ parentDone' = parentDone \union {c}
    /\ cancelled' = cancelled \union {c}
    /\ UNCHANGED <<thread, caller, closed, history, canceller>>

\* The critical section of Cancel and of CancelAndWait; nothing to cancel ends
\* the call.
Snapshot(k) ==
    /\ kpc[k] = "new"
    /\ \E label \in {"cancel", "cancel_and_wait"} :
         /\ kpc' = [kpc EXCEPT ![k] = IF cancel = Nil THEN "none" ELSE label]
         /\ target' = [target EXCEPT ![k] = cancel]
    /\ UNCHANGED <<thread, caller, closed, parentDone, cancelled, history>>

\* Mutant: the field called instead of the copy.
CallCancelField(k) ==
    /\ kpc[k] \in {"cancel", "cancel_and_wait"}
    /\ cancelled' = cancelled \union ({cancel} \ {Nil})
    /\ kpc' = [kpc EXCEPT ![k] = IF @ = "cancel" THEN "cancelled" ELSE "waiting"]
    /\ UNCHANGED <<thread, caller, closed, parentDone, history, target>>

\* cancel(), called after the unlock: the run may have ended meanwhile, and
\* another may have begun.
CallCancel(k) ==
    /\ kpc[k] \in {"cancel", "cancel_and_wait"}
    /\ cancelled' = cancelled \union {target[k]}
    /\ kpc' = [kpc EXCEPT ![k] = IF @ = "cancel" THEN "cancelled" ELSE "waiting"]
    /\ UNCHANGED <<thread, caller, closed, parentDone, history, target>>

\* CancelAndWait's select: the run's idle channel closes, or its own context
\* ends first.
SeeIdle(k) ==
    /\ kpc[k] = "waiting" /\ target[k] \in closed
    /\ kpc' = [kpc EXCEPT ![k] = "ended"]
    /\ UNCHANGED <<thread, caller, closed, parentDone, cancelled, history, target>>

WaitTimeout(k) ==
    /\ kpc[k] = "waiting"
    /\ kpc' = [kpc EXCEPT ![k] = "timeout"]
    /\ UNCHANGED <<thread, caller, closed, parentDone, cancelled, history, target>>

CallerStep(c) ==
    \/ StartRun(c) \/ StartRefused(c) \/ TakeWaitChannel(c) \/ Wake(c)
    \/ GiveUp(c) \/ Decide(c) \/ Finish(c) \/ CloseIdle(c)

CancellerStep(k) == Snapshot(k) \/ CallCancel(k) \/ SeeIdle(k)

Stopped == /\ \A c \in Callers : pc[c] = "done"
           /\ \A k \in Cancellers : kpc[k] \in {"none", "cancelled", "ended", "timeout"}

Terminated == Stopped /\ UNCHANGED vars

Next == \/ \E c \in Callers : CallerStep(c) \/ RunnerReturn(c) \/ ParentDone(c)
        \/ \E k \in Cancellers : CancellerStep(k) \/ WaitTimeout(k)
        \/ Terminated

Spec == Init /\ [][Next]_vars

\* The Go scheduler runs every goroutine that can run.  A runner has to come
\* back only once its context is cancelled: a model call or a question to the
\* user may otherwise take for ever.  No timeout is assumed to fire.
Fairness ==
    /\ \A c \in Callers : WF_vars(CallerStep(c))
    /\ \A c \in Callers : WF_vars(RunnerReturn(c) /\ c \in cancelled)
    /\ \A k \in Cancellers : WF_vars(CallCancel(k) \/ SeeIdle(k))

FairSpec == Spec /\ Fairness

-----------------------------------------------------------------------------
Holding == {"running", "returned", "finishing"}
Transcripts == Seq(Callers \X {"prompt", "answer"})
Ended == {c \in Callers : pc[c] \in {"closing", "done"}}

\* Every field and every program counter has its type.
TypeOK ==
    /\ inputPolicy \in Policies
    /\ messages \in Transcripts
    /\ running \in BOOLEAN
    /\ cancel \in Callers \union {Nil} /\ idle \in Callers \union {Nil}
    /\ closed \subseteq Callers /\ parentDone \subseteq Callers
    /\ cancelled \subseteq Callers
    /\ hit \subseteq Callers /\ answered \subseteq Callers
    /\ pc \in [Callers -> {"new", "queueing", "queued", "running", "returned",
                           "finishing", "closing", "done"}]
    /\ base \in [Callers -> Transcripts]
    /\ next \in [Callers -> Transcripts]
    /\ verdict \in [Callers -> Verdicts \union {"none"}]
    /\ chan \in [Callers -> Callers \union {Nil}]
    /\ kpc \in [Cancellers -> {"new", "none", "cancel", "cancel_and_wait",
                               "cancelled", "waiting", "ended", "timeout"}]
    /\ target \in [Cancellers -> Callers \union {Nil}]

\* At most one RunMessage call is between startRun and finishRun, and the
\* thread's cancel function and idle channel are that call's: Cancel reaches
\* the run that is active, and no other.
OneRun ==
    \A c \in Callers : pc[c] \in Holding <=> (running /\ cancel = c /\ idle = c)

\* A run whose context ended before its runner came back, and has finished,
\* leaves neither its prompt nor an answer in the transcript (the cancellation
\* rollback policy of RunMessage), however the runner answered.
RolledBack ==
    \A c \in hit \intersect Ended :
        \A i \in 1..Len(messages) : messages[i][1] # c

\* Those who may cancel the run of c have done so: its caller's context has
\* ended, or a Cancel that copied its cancel function has called it.
CancelledOnPurpose(c) ==
    \/ c \in parentDone
    \/ \E k \in Cancellers :
         target[k] = c /\ kpc[k] \in {"cancelled", "waiting", "ended", "timeout"}

\* The turn of c is in the transcript, its answer right after its prompt.
HasTurn(c) ==
    \E i \in 1..Len(messages) :
        /\ i + 1 \in 1..Len(messages)
        /\ messages[i] = Prompt(c) /\ messages[i + 1] = Answer(c)

\* A turn that was answered is not lost: once the run has ended, and however
\* many runs follow it, prompt and answer are in the transcript, unless its own
\* caller went away or somebody cancelled that very run.  A Cancel that is late
\* with the function it copied does not reach the next run.
AnsweredIsKept ==
    \A c \in answered \intersect Ended : CancelledOnPurpose(c) \/ HasTurn(c)

\* When CancelAndWait reports that the run has ended, that run has let go of
\* the transcript: what it leaves there is settled.
EndedMeansSettled ==
    \A k \in Cancellers : kpc[k] = "ended" => target[k] \in Ended

\* The abstract session slot: the transcript only ever grows by what the run
\* holding the slot adds to it, whole; no run overwrites another's turn.
Slot == INSTANCE RunSlot WITH holder <- cancel, transcript <- messages,
                              over <- Ended
ImplementsRunSlot == Slot!Spec

\* A cancelled run gives the thread back, once the runner heeds its context.
CancelledRunEnds ==
    \A c \in Callers : (pc[c] = "running" /\ c \in cancelled) ~> pc[c] = "done"

\* No queued call is forgotten: if every runner comes back, every call of a
\* queueing thread gets its run or gives up.  No wakeup is lost between the
\* refusal and the wait for the idle channel.
QueueDrains ==
    (\A c \in Callers : pc[c] = "running" ~> pc[c] # "running")
        => (\A c \in Callers : pc[c] \in {"queueing", "queued"} ~> pc[c] = "done")
=============================================================================
