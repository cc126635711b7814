------------------------------ MODULE RunStream ------------------------------
(***************************************************************************)
(* The live response of POST /v1/sessions/{id}/run and the client that     *)
(* reads it: streamEvents (internal/gateway/response.go) with its bounded  *)
(* buffer and its writer goroutine, decodeEvents (internal/gatewayclient)  *)
(* and the recovery of the TUI's runGateway, which replays the durable log *)
(* from the last sequence number it has seen.                              *)
(*                                                                         *)
(* A durable event is its sequence number; others than the run (session    *)
(* status, abort requests) record events too, which the run's own stream   *)
(* never carries.  The run's emissions are serial: EventEnricher has a     *)
(* mutex.                                                                  *)
(***************************************************************************)
EXTENDS Naturals, Sequences, FiniteSets, SequencesExt

CONSTANTS
    LiveBuffer, \* liveRunStreamBuffer
    MaxEmitted, \* bound: events the run emits
    MaxOthers   \* bound: events that others record meanwhile

ASSUME LiveBufferAssumption == LiveBuffer \in Nat \ {0}

VARIABLES
    recorded,   \* events.jsonl: how many events it has
    mine,       \* those that the run has emitted
    terminal,   \* the run's terminal event in the log, or 0
    stage,      \* the run's goroutine in streamEvents
    event,      \* the event it is emitting
    dropped, lastQueued,    \* droppedEvents, lastQueuedSeq
    buffer,     \* the channel events
    writer,     \* "ready", "writing" or "done" (writerDone is closed)
    hand,       \* what the writer has taken from the channel
    wire,       \* everything the writer has written
    gone,       \* the client has closed the response
    ctxDone,    \* the request's context has ended
    client,     \* where the client is
    read, lastSeq, gaps, failed, shown, \* its progress in wire, LastSeq, StreamGaps, Failed
    others,     \* events recorded by others
    \* history
    cut         \* the end of the stream was given up

gateway == <<recorded, mine, terminal, others>>
emitter == <<stage, event, dropped, lastQueued>>
reader == <<client, read, lastSeq, gaps, failed, shown, gone>>
streamVars == <<gateway, emitter, buffer, writer, hand, wire, ctxDone, reader, cut>>

\* What goes through the channel: an event, or a gateway.stream_gap.
Nothing == [kind |-> "none", seq |-> 0, count |-> 0]
Event(kind, seq) == [kind |-> kind, seq |-> seq, count |-> 1]
Gap(count, after) == [kind |-> "gap", seq |-> after, count |-> count]

-----------------------------------------------------------------------------
StreamInit ==
    /\ recorded = 0 /\ mine = {} /\ terminal = 0 /\ others = 0
    /\ stage = "running" /\ event = Nothing /\ dropped = 0 /\ lastQueued = 0
    /\ buffer = <<>> /\ writer = "ready" /\ hand = Nothing /\ wire = <<>>
    /\ gone = FALSE /\ ctxDone = FALSE
    /\ client = "reading" /\ read = 0 /\ lastSeq = 0 /\ gaps = 0 /\ failed = FALSE
    /\ shown = <<>>
    /\ cut = FALSE

\* Another goroutine records an event; an abort's is the run's terminal event.
OtherRecords ==
    /\ others < MaxOthers
    /\ others' = others + 1 /\ recorded' = recorded + 1
    /\ terminal' \in {terminal}
                     \union (IF terminal = 0 /\ stage = "running" THEN {recorded + 1} ELSE {})
    /\ UNCHANGED <<mine, emitter, buffer, writer, hand, wire, ctxDone, reader, cut>>

\* emit, of an event that observeRunEvent has recorded (what happens when it
\* cannot is in module SessionEvents).  The last one is the terminal event; where an
\* abort has recorded one, streamEvents makes up a run.failed without a sequence
\* number.
Emit ==
    /\ stage = "running"
    /\ \/ /\ Cardinality(mine) < MaxEmitted
          /\ recorded' = recorded + 1 /\ mine' = mine \union {recorded + 1}
          /\ \E kind \in {"progress", "completed", "failed"} :
               /\ kind # "progress" => terminal = 0
               /\ event' = Event(kind, recorded + 1)
               /\ terminal' = IF kind = "progress" THEN terminal ELSE recorded + 1
       \/ /\ terminal # 0
          /\ event' = Event("failed", 0)
          /\ UNCHANGED <<recorded, mine, terminal>>
    /\ stage' = IF dropped > 0 THEN "gap" ELSE "event"
    /\ UNCHANGED <<others, dropped, lastQueued, buffer, writer, hand, wire, ctxDone,
                   reader, cut>>

\* queue: a send that does not wait.
Room == Len(buffer) < LiveBuffer /\ writer # "done" /\ ~ctxDone

\* emitGap: droppedEvents.Swap(0), and the count added back when there is no room.
CountKept == dropped

EmitGap ==
    /\ stage = "gap"
    /\ IF Room THEN buffer' = Append(buffer, Gap(dropped, lastQueued)) /\ dropped' = 0
               ELSE dropped' = CountKept /\ UNCHANGED buffer
    /\ stage' = "event"
    /\ UNCHANGED <<gateway, event, lastQueued, writer, hand, wire, ctxDone, reader, cut>>

EmitEvent ==
    /\ stage = "event"
    /\ IF Room
       THEN /\ buffer' = Append(buffer, event)
            /\ lastQueued' = IF event.seq > 0 THEN event.seq ELSE lastQueued
            /\ UNCHANGED dropped
       ELSE /\ dropped' = dropped + 1
            /\ UNCHANGED <<buffer, lastQueued>>
    /\ stage' = IF event.kind = "progress" THEN "running" ELSE "ending"
    /\ event' = Nothing
    /\ UNCHANGED <<gateway, writer, hand, wire, ctxDone, reader, cut>>

\* Mutant: a final gap that is not sent.
FinalGapSkipped ==
    /\ stage = "ending"
    /\ stage' = "draining"
    /\ UNCHANGED <<gateway, event, dropped, lastQueued, buffer, writer, hand, wire,
                   ctxDone, reader, cut>>

\* Mutant: a final gap that waits for room.
FinalGapWaits ==
    /\ stage = "ending" /\ (dropped = 0 \/ Len(buffer) < LiveBuffer)
    /\ buffer' = IF dropped = 0 THEN buffer ELSE Append(buffer, Gap(dropped, lastQueued))
    /\ dropped' = 0 /\ stage' = "draining"
    /\ UNCHANGED <<gateway, event, lastQueued, writer, hand, wire, ctxDone, reader, cut>>

\* emitGap(true), queueFinalEvent and the close: the gap waits for room until a
\* timer fires, the writer has stopped or the context has ended.
FinalGap ==
    /\ stage = "ending"
    /\ \/ dropped = 0 /\ UNCHANGED <<buffer, cut>>
       \/ /\ dropped > 0 /\ Len(buffer) < LiveBuffer
          /\ buffer' = Append(buffer, Gap(dropped, lastQueued)) /\ UNCHANGED cut
       \/ dropped > 0 /\ cut' = TRUE /\ UNCHANGED buffer
    /\ dropped' = 0 /\ stage' = "draining"
    /\ UNCHANGED <<gateway, event, lastQueued, writer, hand, wire, ctxDone, reader>>

\* waitStreamWriter: the handler returns when the writer has, or after a timer.
Return ==
    /\ stage = "draining"
    /\ cut' = (cut \/ writer # "done")
    /\ stage' = "returned"
    /\ UNCHANGED <<gateway, event, dropped, lastQueued, buffer, writer, hand, wire,
                   ctxDone, reader>>

-----------------------------------------------------------------------------
\* The writer goroutine.  A write may last for ever; it fails once the client
\* has gone or the handler has returned.
WriterTake ==
    /\ writer = "ready"
    /\ IF buffer # <<>>
       THEN hand' = Head(buffer) /\ buffer' = Tail(buffer) /\ writer' = "writing"
       ELSE /\ stage \in {"draining", "returned"}
            /\ writer' = "done" /\ UNCHANGED <<hand, buffer>>
    /\ UNCHANGED <<gateway, emitter, wire, ctxDone, reader, cut>>

WriterWrite ==
    /\ writer = "writing" /\ stage # "returned"
    /\ wire' = Append(wire, hand) /\ hand' = Nothing /\ writer' = "ready"
    /\ UNCHANGED <<gateway, emitter, buffer, ctxDone, reader, cut>>

WriterFails ==
    /\ writer = "writing" /\ (gone \/ stage = "returned")
    /\ writer' = "done" /\ cut' = TRUE
    /\ UNCHANGED <<gateway, emitter, buffer, hand, wire, ctxDone, reader>>

\* The server notices that the client has closed the response.
ContextEnds ==
    /\ gone /\ ~ctxDone
    /\ ctxDone' = TRUE
    /\ UNCHANGED <<gateway, emitter, buffer, writer, hand, wire, reader, cut>>

-----------------------------------------------------------------------------
\* Mutant: a client that does not look for missing numbers.
AnySeq(item) == FALSE

\* decodeEvents: a number that is not the next one.
SeqGap(item) == item.kind # "gap" /\ item.seq > 0 /\ lastSeq > 0 /\ item.seq > lastSeq + 1

\* decodeEvents reads one item.  A missing number is an error: the client closes
\* the response, which ends the request, and goes to recover.
Read ==
    LET item == wire[read + 1]
    IN  /\ client = "reading" /\ read < Len(wire)
        /\ read' = read + 1
        /\ IF SeqGap(item)
           THEN /\ client' = "recovering" /\ gone' = TRUE
                /\ UNCHANGED <<lastSeq, gaps, failed, shown>>
           ELSE /\ gaps' = IF item.kind = "gap" THEN gaps + 1 ELSE gaps
                /\ failed' = (item.kind = "failed" \/ (failed /\ item.kind # "completed"))
                /\ lastSeq' = IF item.kind # "gap" /\ item.seq > lastSeq THEN item.seq ELSE lastSeq
                /\ shown' = IF lastSeq' > lastSeq THEN Append(shown, item.seq) ELSE shown
                /\ UNCHANGED <<client, gone>>
        /\ UNCHANGED <<gateway, emitter, buffer, writer, hand, wire, ctxDone, cut>>

\* The end of the stream: runGateway replays if it has seen a gap, unless the run
\* has failed.
EndOfStream ==
    /\ client = "reading" /\ read = Len(wire) /\ stage = "returned"
    /\ client' = IF gaps > 0 /\ ~failed THEN "recovering" ELSE "done"
    /\ UNCHANGED <<gateway, emitter, buffer, writer, hand, wire, ctxDone, read, lastSeq, gaps,
                   failed, shown, gone, cut>>

\* ReplaySessionEvents(LastSeq): GET /events?after_seq=LastSeq&follow=false.
Replay ==
    /\ client = "recovering"
    /\ shown' = shown \o [i \in 1..(recorded - lastSeq) |-> lastSeq + i]
    /\ lastSeq' = recorded
    /\ client' = "recovered"
    /\ UNCHANGED <<gateway, emitter, buffer, writer, hand, wire, ctxDone, read, gaps, failed,
                   gone, cut>>

EmitStep == Emit \/ EmitGap \/ EmitEvent \/ FinalGap \/ Return
ClientStep == Read \/ EndOfStream \/ Replay

Terminated == stage = "returned" /\ client \in {"done", "recovered"} /\ UNCHANGED streamVars

\* A run that has used up the bound goes no further.
Exhausted ==
    stage = "running" /\ terminal = 0 /\ Cardinality(mine) = MaxEmitted /\ UNCHANGED streamVars

StreamNext ==
    \/ EmitStep \/ OtherRecords
    \/ WriterTake \/ WriterWrite \/ WriterFails \/ ContextEnds
    \/ ClientStep
    \/ Terminated \/ Exhausted

StreamSpec == StreamInit /\ [][StreamNext]_streamVars

\* The run's goroutine and its timers go on.  The writer and the client may
\* stall for ever; so may the run while it has emitted no terminal event.
StreamFairSpec == StreamSpec /\ WF_streamVars(EmitStep /\ (stage = "running" => terminal # 0))

-----------------------------------------------------------------------------
\* What a client shows is the log without a hole, a repetition or a change of
\* order, however the stream drops events and wherever the replay begins.
ShownContiguous == \A i \in 1..Len(shown) : shown[i] = shown[1] + i - 1

\* A client that finds nothing missing has seen every durable event of the run,
\* unless the end of the stream was given up on it or the run has failed.
NothingMissedSilently ==
    client = "done" /\ ~cut /\ ~failed => mine \subseteq Range(shown)

\* The handler returns once the run has ended, however the client stalls.
HandlerReturns == terminal # 0 ~> stage = "returned"
=============================================================================
