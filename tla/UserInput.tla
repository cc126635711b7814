------------------------------ MODULE UserInput ------------------------------
(***************************************************************************)
(* A question to the user (user_input.go): the ask_user tool of a run      *)
(* leaves its question in Session.pendingInput and waits; a client's       *)
(* answer or reject request takes it from there, and puts it back when the *)
(* answer is not valid.  The runs of the session follow each other, the    *)
(* questions of a run too (ask_user never runs beside another tool call);  *)
(* client requests and aborts come at any time.  A step is one critical    *)
(* section of the session's mutex, one channel operation or one event.     *)
(***************************************************************************)
EXTENDS Naturals

CONSTANTS
    Asks,       \* calls of ask_user, each with a request id of its own
    Clients,    \* answer and reject requests
    MaxRuns,    \* bound: runs of the session
    Nil

ASSUME NilAssumption == Nil \notin Asks
ASSUME RunsAssumption == MaxRuns \in Nat

VARIABLES
    pending,    \* Session.pendingInput
    reply,      \* what is in the buffered reply channel of each question
    ask,        \* where each ask_user call is
    run,        \* the session's run: "none", "running", "cancelled"
    aborting,   \* an aborter has reported run.failed and will cancel the thread
    runs,       \* runs begun so far
    broken,     \* the store rejected an event of this run
    client,     \* where each client request is
    took,       \* the question it has taken
    stale       \* history: a question was put back after its asker had gone

vars == <<pending, reply, ask, run, aborting, runs, broken, client, took, stale>>

-----------------------------------------------------------------------------
Init == /\ pending = Nil /\ run = "none" /\ aborting = FALSE /\ runs = 0
        /\ broken = FALSE /\ stale = FALSE
        /\ reply = [q \in Asks |-> "empty"]
        /\ ask = [q \in Asks |-> "new"]
        /\ client = [k \in Clients |-> "new"]
        /\ took = [k \in Clients |-> Nil]

AskGoto(q, label) == ask' = [ask EXCEPT ![q] = label]
ClientGoto(k, label) == client' = [client EXCEPT ![k] = label]

Asking == {q \in Asks : ask[q] \in {"registered", "waiting", "clearing"}}

BeginRun ==
    /\ run = "none" /\ runs < MaxRuns
    /\ run' = "running" /\ runs' = runs + 1 /\ broken' = FALSE
    /\ UNCHANGED <<pending, reply, ask, aborting, client, took, stale>>

\* askUser registers its question, unless there is one already.  The rejection
\* it then emits has no user_input.requested before it: LifecycleValidator
\* refuses the event, a persistence failure, which forgets the pending question
\* and cancels the run; the run's later events are dropped.
Register(q) ==
    /\ run # "none" /\ Asking = {} /\ ask[q] = "new"
    /\ IF pending = Nil
       THEN pending' = q /\ AskGoto(q, "registered") /\ UNCHANGED <<run, broken>>
       ELSE /\ pending' = IF broken THEN pending ELSE Nil
            /\ AskGoto(q, "refused")
            /\ run' = "cancelled" /\ broken' = TRUE
    /\ UNCHANGED <<reply, aborting, runs, client, took, stale>>

\* The user_input.requested event.
EmitRequested(q) ==
    /\ ask[q] = "registered"
    /\ AskGoto(q, "waiting")
    /\ UNCHANGED <<pending, reply, run, aborting, runs, broken, client, took, stale>>

\* Mutant: a select without the context.
ContextIgnored(q) == FALSE

\* The select of askUser: a resolution, or the end of the context, after which
\* the question is withdrawn if it still is the pending one.
Resolved(q) ==
    /\ ask[q] = "waiting" /\ reply[q] # "empty"
    /\ AskGoto(q, reply[q])
    /\ reply' = [reply EXCEPT ![q] = "empty"]
    /\ UNCHANGED <<pending, run, aborting, runs, broken, client, took, stale>>

ContextDone(q) ==
    /\ ask[q] = "waiting" /\ run = "cancelled"
    /\ AskGoto(q, "clearing")
    /\ UNCHANGED <<pending, reply, run, aborting, runs, broken, client, took, stale>>

\* clearPendingUserInput.
Withdrawn(q) == IF pending = q THEN Nil ELSE pending

ClearPending(q) ==
    /\ ask[q] = "clearing"
    /\ pending' = Withdrawn(q)
    /\ AskGoto(q, "cancelled")
    /\ UNCHANGED <<reply, run, aborting, runs, broken, client, took, stale>>

\* The run ends: its terminal event forgets any pending question, even when the
\* event itself is dropped as a duplicate.
EndRun ==
    /\ run # "none" /\ Asking = {}
    /\ run' = "none"
    /\ pending' = IF broken THEN pending ELSE Nil
    /\ UNCHANGED <<reply, ask, aborting, runs, broken, client, took, stale>>

\* abortActiveRun: the run.failed event forgets the question, the cancellation
\* follows; by then the run may be over and another may have begun.
ReportAbort ==
    /\ run # "none" /\ ~aborting
    /\ aborting' = TRUE
    /\ pending' = Nil
    /\ UNCHANGED <<reply, ask, run, runs, broken, client, took, stale>>

CancelRun ==
    /\ aborting
    /\ aborting' = FALSE
    /\ run' = IF run = "running" THEN "cancelled" ELSE run
    /\ UNCHANGED <<pending, reply, ask, runs, broken, client, took, stale>>

\* The run's own context ends: its client has gone, the gateway stops.
ParentDone ==
    /\ run = "running"
    /\ run' = "cancelled"
    /\ UNCHANGED <<pending, reply, ask, aborting, runs, broken, client, took, stale>>

-----------------------------------------------------------------------------
\* Mutant: the question stays pending while it is taken.
TakeCopy(k) ==
    /\ client[k] = "new"
    /\ \E q \in {p \in Asks : ask[p] # "new"} :
         IF pending = q
         THEN /\ took' = [took EXCEPT ![k] = q]
              /\ \E label \in {"valid", "invalid", "reject"} : ClientGoto(k, label)
         ELSE ClientGoto(k, "unknown") /\ UNCHANGED took
    /\ UNCHANGED <<pending, reply, ask, run, aborting, runs, broken, stale>>

\* takePendingUserInput, for a request id the client has seen.
Take(k) ==
    /\ client[k] = "new"
    /\ \E q \in {p \in Asks : ask[p] # "new"} :
         IF pending = q
         THEN /\ pending' = Nil
              /\ took' = [took EXCEPT ![k] = q]
              /\ \E label \in {"valid", "invalid", "reject"} : ClientGoto(k, label)
         ELSE ClientGoto(k, "unknown") /\ UNCHANGED <<pending, took>>
    /\ UNCHANGED <<reply, ask, run, aborting, runs, broken, stale>>

\* The answer or the rejection goes into the question's channel, of capacity 1.
Send(k) ==
    /\ client[k] \in {"valid", "reject"} /\ reply[took[k]] = "empty"
    /\ reply' = [reply EXCEPT ![took[k]] = IF client[k] = "valid" THEN "answered" ELSE "rejected"]
    /\ ClientGoto(k, "accepted")
    /\ UNCHANGED <<pending, ask, run, aborting, runs, broken, took, stale>>

\* Mutant: an invalid answer uses the question up.
NotPutBack(k) == pending

\* An answer that is not valid: restorePendingUserInput.
PutBack(k) == IF pending = Nil THEN took[k] ELSE pending

Restore(k) ==
    /\ client[k] = "invalid"
    /\ pending' = PutBack(k)
    /\ stale' = (stale \/ took[k] \notin Asking)
    /\ ClientGoto(k, "invalid answer")
    /\ UNCHANGED <<reply, ask, run, aborting, runs, broken, took>>

AskStep(q) == \/ Register(q) \/ EmitRequested(q) \/ Resolved(q) \/ ContextDone(q)
              \/ ClearPending(q)

ClientStep(k) == Take(k) \/ Send(k) \/ Restore(k)

Terminated == run = "none" /\ runs = MaxRuns /\ UNCHANGED vars

Next == \/ BeginRun \/ EndRun \/ ReportAbort \/ CancelRun \/ ParentDone
        \/ \E q \in Asks : AskStep(q)
        \/ \E k \in Clients : ClientStep(k)
        \/ Terminated

Spec == Init /\ [][Next]_vars

\* Goroutines are scheduled.  Nobody has to answer, to ask or to abort.
FairSpec ==
    /\ Spec
    /\ \A q \in Asks : WF_vars(AskStep(q) /\ ask[q] # "new")
    /\ \A k \in Clients : WF_vars(ClientStep(k) /\ client[k] # "new")
    /\ WF_vars(CancelRun)

-----------------------------------------------------------------------------
\* Every variable has its type.
TypeOK ==
    /\ pending \in Asks \union {Nil}
    /\ reply \in [Asks -> {"empty", "answered", "rejected"}]
    /\ ask \in [Asks -> {"new", "registered", "waiting", "clearing", "refused",
                         "answered", "rejected", "cancelled"}]
    /\ run \in {"none", "running", "cancelled"}
    /\ aborting \in BOOLEAN /\ broken \in BOOLEAN /\ stale \in BOOLEAN
    /\ runs \in 0..MaxRuns
    /\ client \in [Clients -> {"new", "valid", "invalid", "reject", "unknown", "accepted",
                               "invalid answer"}]
    /\ took \in [Clients -> Asks \union {Nil}]

\* A question is in one place: it is pending, or one client has taken it, or its
\* one resolution is in the channel.  So no question is resolved twice, and no
\* client blocks on a full channel while it holds a question.
Holders(q) == {k \in Clients : took[k] = q /\ client[k] \in {"valid", "invalid", "reject"}}
OnePlace ==
    \A q \in Asks :
        /\ pending = q => Holders(q) = {} /\ reply[q] = "empty"
        /\ reply[q] # "empty" => Holders(q) = {}
        /\ \A k, l \in Holders(q) : k = l

\* While its run is not being stopped, a waiting question can be answered: it
\* is pending, or taken, or resolved.  (Unless a stale question was put back.)
Answerable ==
    \A q \in Asks :
        /\ ask[q] \in {"registered", "waiting"} /\ run = "running" /\ ~aborting /\ ~stale
        => pending = q \/ Holders(q) # {} \/ reply[q] # "empty"

\* A question is refused as one too many only because of a stale one.
RefusedOnlyIfStale == \A q \in Asks : ask[q] = "refused" => stale

\* A question whose run has been cancelled comes back.
CancelledAskReturns == \A q \in Asks : q \in Asking /\ run = "cancelled" ~> q \notin Asking
=============================================================================
