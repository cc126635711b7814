------------------------------- MODULE AgentRun -------------------------------
(***************************************************************************)
(* The agent's loop over model calls and tool calls                        *)
(* (internal/agent/runtime_loop.go), the execution of the calls of one     *)
(* answer (executeToolCalls and executeParallelToolBatch in agent.go, the  *)
(* attempts in tool_attempt.go), the compaction of the transcript          *)
(* (compaction.go) and the validation of its pairing before every request  *)
(* (transcript_pairing.go), over the consecutive turns of one session.     *)
(*                                                                         *)
(* A message is its role, the call ids of an assistant's message, and the  *)
(* call that a tool's answers.  A tool is "serial", "free" (it may run     *)
(* beside others) or "limited" (beside others, within the bucket of its    *)
(* rate limit key).                                                        *)
(***************************************************************************)
EXTENDS Naturals, Sequences, FiniteSets, SequencesExt, FiniteSetsExt

CONSTANTS
    Limit,      \* MaxParallelTools
    Capacity,   \* of the bucket: the tools' MaxConcurrency
    Keep,       \* ContextCompactKeep
    MaxToolCalls, MaxToolRounds,    \* the limits of a run
    MaxCalls,   \* bound: calls in all answers
    MaxTurns,   \* bound: turns of the session
    MaxIds      \* bound: call ids

ASSUME LimitAssumption == Limit \in Nat /\ Capacity \in Nat \ {0} /\ Keep \in Nat \ {0}

VARIABLES
    messages,   \* the transcript
    base,       \* what it was when the turn began
    turns,
    phase,      \* "idle", "round", "model" or "tools"
    rounds, executed,   \* of this run: its rounds and executedToolCalls
    cancelled,  \* the run's context
    used,       \* the call ids that the run's events have named
    calls,      \* the answer that is being executed
    from, stop, \* the calls from..stop-1 are the serial call or the batch under way
    attempt,    \* where each of them is
    outcome,    \* what its tool came to
    done,       \* the channel of that name
    results,    \* by index: the call that the result there answers
    event,      \* its terminal event
    \* history
    asked,      \* how many calls models have made
    named,      \* how many call ids they have used
    reused      \* a model has used a call id twice

turn == <<base, turns>>
history == <<asked, named, reused>>
answer == <<calls, from, stop, attempt, outcome, done, results, event>>
agentVars == <<messages, turn, phase, rounds, executed, cancelled, used, answer, history>>

Kinds == {"serial", "free", "limited"}

\* Call ids are numbered in the order in which models first use them.
Ids == 1..MaxIds
NoId == 0

Plain(role) == [role |-> role, calls |-> <<>>, of |-> NoId]
Assistant(ids) == [Plain("assistant") EXCEPT !.calls = ids]
ToolResult(id) == [Plain("tool") EXCEPT !.of = id]

-----------------------------------------------------------------------------
\* Compaction.  Mutant: the cut may fall between a call and its result.
CutAnywhere(ms, prefix) ==
    IF Len(ms) - Keep > prefix THEN Len(ms) - Keep ELSE 0

\* compactCutIndex: the number of messages before the kept ones, moved back while
\* the first kept one is a tool result; 0 when nothing is left to compact.
CutIndex(ms, prefix) ==
    LET cuts == {c \in 1..(Len(ms) - Keep) : c > prefix /\ ms[c + 1].role # "tool"}
    IN IF Len(ms) - Keep <= prefix \/ cuts = {} THEN 0 ELSE Max(cuts)

\* protectedPrefix: the leading system messages.
Prefix(ms) == Max({n \in 0..Len(ms) : \A i \in 1..n : ms[i].role = "system"})

\* compactMessages, when the tokens have reached the threshold.
Compacted(ms) ==
    LET prefix == Prefix(ms)
        cut == CutIndex(ms, prefix)
    IN IF Len(ms) < 4 \/ cut = 0 THEN ms
       ELSE SubSeq(ms, 1, prefix) \o <<Plain("summary")>> \o SubSeq(ms, cut + 1, Len(ms))

\* validateTranscriptPairing: one pass with the pending, the seen and the
\* completed call ids.
Scan(state, m) ==
    CASE m.role = "assistant" ->
           [state EXCEPT !.ok = /\ @ /\ state.pending = {}
                                /\ Cardinality(ToSet(m.calls)) = Len(m.calls)
                                /\ ToSet(m.calls) \intersect state.seen = {},
                         !.pending = @ \union ToSet(m.calls),
                         !.seen = @ \union ToSet(m.calls)]
      [] m.role = "tool" ->
           [state EXCEPT !.ok = @ /\ m.of \in state.pending /\ m.of \notin state.completed,
                         !.pending = @ \ {m.of},
                         !.completed = @ \union {m.of}]
      [] OTHER -> [state EXCEPT !.ok = @ /\ state.pending = {}]

Unscanned == [ok |-> TRUE, pending |-> {}, seen |-> {}, completed |-> {}]
Scans(ms) ==
    LET scan[n \in 0..Len(ms)] == IF n = 0 THEN Unscanned ELSE Scan(scan[n - 1], ms[n])
    IN scan
Scanned(ms) == Scans(ms)[Len(ms)]

ValidPairing(ms) == Scanned(ms).ok /\ Scanned(ms).pending = {}

-----------------------------------------------------------------------------
NoAnswer == /\ calls' = <<>> /\ from' = 1 /\ stop' = 1 /\ attempt' = <<>> /\ outcome' = <<>>
            /\ done' = <<>> /\ results' = <<>> /\ event' = <<>>

AgentInit ==
    /\ messages = <<Plain("system")>> /\ base = messages /\ turns = 0
    /\ phase = "idle" /\ rounds = 0 /\ executed = 0 /\ cancelled = FALSE /\ used = {}
    /\ calls = <<>> /\ from = 1 /\ stop = 1 /\ attempt = <<>> /\ outcome = <<>>
    /\ done = <<>> /\ results = <<>> /\ event = <<>>
    /\ asked = 0 /\ named = 0 /\ reused = FALSE

\* RunMessage appends the prompt and calls RunMessages.
BeginTurn ==
    /\ phase = "idle" /\ turns < MaxTurns
    /\ turns' = turns + 1
    /\ base' = messages
    /\ messages' = Append(messages, Plain("user"))
    /\ phase' = "round"
    /\ rounds' = 0 /\ executed' = 0 /\ cancelled' = FALSE /\ used' = {}
    /\ UNCHANGED <<answer, history>>

\* The run returns, with an error or not: a cancelled one leaves nothing behind
\* (module RunThread).
Return(ms) ==
    /\ phase' = "idle"
    /\ messages' = IF cancelled THEN base ELSE ms
    /\ base' = messages'
    /\ rounds' = 0 /\ executed' = 0 /\ cancelled' = FALSE /\ used' = {}
    /\ NoAnswer
    /\ UNCHANGED <<turns, history>>

\* A round: compaction, then the validation of what will be sent.
BeginRound ==
    /\ phase = "round" /\ rounds < MaxToolRounds
    /\ \E ms \in {messages, Compacted(messages)} :
         IF ValidPairing(ms)
         THEN /\ phase' = "model" /\ messages' = ms /\ rounds' = rounds + 1
              /\ UNCHANGED <<turn, executed, cancelled, used, answer, history>>
         ELSE Return(ms)

RoundsExceeded ==
    /\ phase = "round" /\ rounds = MaxToolRounds
    /\ Return(messages)

\* The model call fails, or its calls are not acceptable: a name is missing, an id
\* repeated within the answer, or there are more than the run may execute.
ModelFails ==
    /\ phase = "model"
    /\ Return(messages)

\* An answer without calls is the final one.
FinalAnswer ==
    /\ phase = "model"
    /\ Return(Append(messages, Assistant(<<>>)))

\* An answer with calls.  Every call is requested before the first is executed; an
\* id that this run's events have named already is refused by the event log, which
\* ends the run's context (module SessionEvents).
Answers == UNION {[1..n -> [id : Ids, kind : Kinds]] : n \in 1..(MaxCalls - asked)}
IdsOf(cs) == {cs[i].id : i \in DOMAIN cs}
ValidCalls(cs) == Cardinality(IdsOf(cs)) = Len(cs) /\ Len(cs) <= MaxToolCalls - executed

ModelCallsTools ==
    /\ phase = "model"
    /\ \E cs \in Answers :
         /\ ValidCalls(cs)
         /\ \A i \in DOMAIN cs : cs[i].id <= Max({named} \union {cs[j].id : j \in 1..(i - 1)}) + 1
         /\ asked' = asked + Len(cs)
         /\ named' = Max({named} \union IdsOf(cs))
         /\ calls' = cs
         /\ attempt' = [i \in DOMAIN cs |-> "requested"]
         /\ outcome' = [i \in DOMAIN cs |-> "none"] /\ event' = outcome'
         /\ results' = [i \in DOMAIN cs |-> NoId]
         /\ messages' = Append(messages, Assistant([i \in DOMAIN cs |-> cs[i].id]))
         /\ cancelled' = (cancelled \/ IdsOf(cs) \intersect used # {})
         /\ used' = used \union IdsOf(cs)
         /\ executed' = executed + Len(cs)
         /\ reused' = (reused \/ \E id \in IdsOf(cs), i \in DOMAIN messages :
                                     id \in ToSet(messages[i].calls) \union used)
    /\ from' = 1 /\ stop' = 1 /\ done' = <<>>
    /\ phase' = "tools"
    /\ UNCHANGED <<turn, rounds>>

\* The run's context ends: a cancellation, the client, the gateway.
Cancel ==
    /\ phase # "idle" /\ ~cancelled
    /\ cancelled' = TRUE
    /\ UNCHANGED <<messages, turn, phase, rounds, executed, used, answer, history>>

-----------------------------------------------------------------------------
Frame == UNCHANGED <<messages, turn, phase, rounds, executed, cancelled, used, calls, history>>

\* A step is over when its jobs are all taken, the workers idle and the channel
\* drained, whether or not a result came for every call.
Busy == {i \in DOMAIN calls : attempt[i] \in {"taken", "executing"}}
StepOver == Busy = {} /\ done = <<>> /\ \A i \in from..(stop - 1) : attempt[i] # "started"

\* The calls from i on that may run together: the end of the maximal run.
BatchEnd(i) ==
    Min({j \in i..(Len(calls) + 1) : j > Len(calls) \/ calls[j].kind = "serial"})

\* One call by itself, or a batch: its calls are all announced as started before
\* any worker takes one.
StartStep ==
    /\ phase = "tools" /\ StepOver /\ stop <= Len(calls)
    /\ from' = stop
    /\ IF Limit <= 1 \/ BatchEnd(stop) <= stop + 1
       THEN /\ stop' = stop + 1
            /\ attempt' = [attempt EXCEPT ![stop] = "executing"]
       ELSE /\ stop' = BatchEnd(stop)
            /\ attempt' = [i \in DOMAIN calls |->
                             IF i \in stop..(BatchEnd(stop) - 1) THEN "started" ELSE attempt[i]]
    /\ Frame /\ UNCHANGED <<outcome, done, results, event>>

\* A free worker takes the next job.
TakeJob(i) ==
    /\ attempt[i] = "started" /\ Cardinality(Busy) < Limit
    /\ \A j \in from..(i - 1) : attempt[j] # "started"
    /\ attempt' = [attempt EXCEPT ![i] = "taken"]
    /\ Frame /\ UNCHANGED <<from, stop, outcome, done, results, event>>

\* Mutants: a bucket that nobody empties; one that is not asked for.
RoomLeaked(i) ==
    Cardinality({j \in DOMAIN calls : calls[j].kind = "limited" /\ attempt[j] \in {"executing", "sent", "closed"}})
    < Capacity
RoomAlways(i) == TRUE

\* acquireToolRateBucket.
Room(i) ==
    calls[i].kind = "limited" =>
        Cardinality({j \in Busy : calls[j].kind = "limited" /\ attempt[j] = "executing"}) < Capacity

Acquire(i) ==
    /\ attempt[i] = "taken" /\ Room(i)
    /\ attempt' = [attempt EXCEPT ![i] = "executing"]
    /\ Frame /\ UNCHANGED <<from, stop, outcome, done, results, event>>

\* The result goes into the channel done, which has room for the whole batch.
Sent(i, result) ==
    /\ attempt' = [attempt EXCEPT ![i] = "sent"]
    /\ outcome' = [outcome EXCEPT ![i] = result]
    /\ done' = Append(done, i)
    /\ Frame /\ UNCHANGED <<from, stop, results, event>>

\* AbortBeforeExecute: the context ended while the worker waited for the bucket.
AbortWaiting(i) ==
    /\ attempt[i] = "taken" /\ calls[i].kind = "limited" /\ cancelled
    /\ Sent(i, "aborted")

\* Execute: the tool's output, its error, a denied or invalid call and a hook that
\* fails are all results of a call that has returned; an error while the context is
\* over is an abort.
Execute(i) ==
    /\ attempt[i] = "executing"
    /\ \/ Sent(i, "returned")
       \/ cancelled /\ Sent(i, "aborted")

\* Mutant: results are kept in the order of their arrival.
ByArrival(i) == Min({j \in DOMAIN calls : results[j] = NoId})

\* The collector, of the result of call i.
Slot(i) == i

\* EmitAttemptFinished settles the result's output ref on a copy: if it cannot,
\* the event says failed and the result stays what it was.
Collect ==
    /\ done # <<>>
    /\ LET i == Head(done)
       IN /\ results' = [results EXCEPT ![Slot(i)] = calls[i].id]
          /\ \E e \in {outcome[i]} \union (IF outcome[i] # "aborted" THEN {"unsettled"} ELSE {}) :
               event' = [event EXCEPT ![i] = e]
          /\ attempt' = [attempt EXCEPT ![i] = "closed"]
    /\ done' = Tail(done)
    /\ Frame /\ UNCHANGED <<from, stop, outcome>>

\* appendToolResultMessages.
FinishTools ==
    /\ phase = "tools" /\ StepOver /\ stop > Len(calls)
    /\ messages' = messages \o [i \in DOMAIN calls |-> ToolResult(results[i])]
    /\ phase' = "round"
    /\ NoAnswer
    /\ UNCHANGED <<turn, rounds, executed, cancelled, used, history>>

ToolStep ==
    \/ StartStep \/ Collect \/ FinishTools
    \/ \E i \in DOMAIN calls : TakeJob(i) \/ Acquire(i) \/ AbortWaiting(i) \/ Execute(i)

AgentNext ==
    \/ BeginTurn \/ BeginRound \/ RoundsExceeded
    \/ ModelFails \/ FinalAnswer \/ ModelCallsTools \/ Cancel
    \/ ToolStep

AgentSpec == AgentInit /\ [][AgentNext]_agentVars

\* Goroutines are scheduled, and the tools of Kinds return: they have a timeout or
\* heed the run's context.  (ask_user waits for an answer: module UserInput.)
AgentFairSpec == AgentSpec /\ WF_agentVars(ToolStep)

-----------------------------------------------------------------------------
\* What the providers demand of a request: the results of an assistant's calls
\* come right after it, one for each, and no id is used twice.
ResultsFollow(ms, i) ==
    LET n == Len(ms[i].calls)
    IN /\ i + n <= Len(ms)
       /\ \A k \in 1..n : ms[i + k].role = "tool"
       /\ {ms[i + k].of : k \in 1..n} = ToSet(ms[i].calls)
       /\ Cardinality(ToSet(ms[i].calls)) = n

Paired(ms) ==
    /\ \A i \in DOMAIN ms :
         /\ ms[i].role = "assistant" => ResultsFollow(ms, i)
         /\ ms[i].role = "tool" =>
              \E j \in 1..(i - 1) : ms[j].role = "assistant" /\ i <= j + Len(ms[j].calls)
    /\ \A i, j \in DOMAIN ms : i # j => ToSet(ms[i].calls) \intersect ToSet(ms[j].calls) = {}

\* Whatever is sent to the model is paired; and the transcript is paired between
\* rounds and between turns, through compaction, cancellation, failures and every
\* order of completion, unless a model used a call id twice.  Until then the check
\* before a request refuses nothing, compacted or not: no session is stuck.
TranscriptPaired ==
    /\ phase = "model" => Paired(messages)
    /\ phase \in {"idle", "round"} /\ ~reused => Paired(messages)
    /\ phase = "round" /\ ~reused =>
         \A ms \in {messages, Compacted(messages)} : ValidPairing(ms)

\* When the tools of an answer are done, whatever their order, the transcript has
\* one result for each call, in the order of the calls, and every call has had its
\* terminal event, which says what became of it unless an output ref could not be
\* settled.
ResultsAnswerCalls ==
    [][phase = "tools" /\ phase' = "round" =>
         \A i \in DOMAIN calls :
             /\ messages'[Len(messages) + i].of = calls[i].id
             /\ event[i] \in {outcome[i], "unsettled"} \ {"none"}]_agentVars

\* A serial tool runs alone, and a batch keeps to MaxParallelTools and to the
\* bucket of its rate limit.
ToolsKeepApart ==
    LET running == {i \in DOMAIN calls : attempt[i] = "executing"}
    IN /\ \A i, j \in running : calls[i].kind = "serial" => i = j
       /\ Cardinality(running) <= Max({1, Limit})
       /\ Cardinality({i \in running : calls[i].kind = "limited"}) <= Capacity

\* The execution of an answer's calls comes to an end: no worker, bucket or
\* channel is waited for in vain.
ToolsEnd == phase = "tools" ~> phase # "tools"
=============================================================================
