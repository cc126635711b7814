----------------------------- MODULE EventFollow -----------------------------
(***************************************************************************)
(* GET /v1/sessions/{id}/events with after_seq: handleSessionEvents        *)
(* (gateway.go) replays the durable log, then follows it, woken by the     *)
(* session's eventHub (session_events.go) and by a ticker.  Recorders      *)
(* append an event to the log and publish it afterwards, each at its own   *)
(* pace, and the hub drops what does not fit a subscriber's channel.       *)
(***************************************************************************)
EXTENDS Naturals, Sequences

CONSTANTS
    MaxEvents,  \* bound: events recorded
    Buffer,     \* eventHubSubscriberBuffer
    MaxCursor   \* bound: the after_seq of the request

ASSUME BoundsAssumption == MaxEvents \in Nat /\ Buffer \in Nat /\ MaxCursor \in 0..MaxEvents

VARIABLES
    log,        \* how many events events.jsonl has
    unpublished,\* those recorded and not yet published
    subscribed, channel,    \* the follower's subscription to the hub
    pc,         \* where the follower is
    after,      \* the after_seq of the request
    cursor,     \* the last sequence number emitted
    upto,       \* where the replay it is emitting ends
    out         \* what it has emitted

recorders == <<log, unpublished>>
hub == <<subscribed, channel>>
follower == <<pc, after, cursor, upto, out>>
vars == <<recorders, hub, follower>>

-----------------------------------------------------------------------------
\* A client asks for what follows an event it has seen: the log has it.
Init == /\ log \in 0..MaxCursor /\ unpublished = {}
        /\ subscribed = FALSE /\ channel = <<>>
        /\ pc = "new" /\ after \in 0..log /\ cursor = after /\ upto = after
        /\ out = <<>>

\* AppendEvent, then Publish: two recorders may publish in either order.
RecordEvent ==
    /\ log < MaxEvents
    /\ log' = log + 1 /\ unpublished' = unpublished \union {log + 1}
    /\ UNCHANGED <<hub, follower>>

Publish ==
    /\ \E n \in unpublished :
         /\ unpublished' = unpublished \ {n}
         /\ channel' = IF subscribed /\ Len(channel) < Buffer THEN Append(channel, n)
                                                               ELSE channel
    /\ UNCHANGED <<log, subscribed, follower>>

\* The initial replay, read before the subscription.
InitialReplay ==
    /\ pc = "new"
    /\ upto' = log /\ pc' = "subscribing"
    /\ UNCHANGED <<recorders, hub, after, cursor, out>>

Subscribe ==
    /\ pc = "subscribing"
    /\ subscribed' = TRUE /\ pc' = "emitting"
    /\ UNCHANGED <<recorders, channel, after, cursor, upto, out>>

\* Mutant: a cursor that stays where the request put it.
CursorStays == cursor
Advanced == cursor + 1

\* emitReplay: a write, which a slow client may hold up.
EmitReplay ==
    /\ pc = "emitting" /\ cursor < upto
    /\ out' = Append(out, cursor + 1) /\ cursor' = Advanced
    /\ UNCHANGED <<recorders, hub, pc, after, upto>>

Replayed ==
    /\ pc = "emitting" /\ cursor = upto
    /\ pc' = "waiting"
    /\ UNCHANGED <<recorders, hub, after, cursor, upto, out>>

\* flushReplay, from the cursor on.
FlushReplay == upto' = log /\ pc' = "emitting" /\ UNCHANGED <<recorders, after, cursor, out>>

\* The select: whatever the live event is, the log is read.
WakeUp ==
    /\ pc = "waiting" /\ channel # <<>>
    /\ channel' = Tail(channel) /\ FlushReplay
    /\ UNCHANGED subscribed

\* Mutant: no ticker.
NoTick == FALSE /\ UNCHANGED vars

Tick ==
    /\ pc = "waiting"
    /\ FlushReplay /\ UNCHANGED hub

\* The client goes away.
Leave ==
    /\ pc \in {"emitting", "waiting"}
    /\ pc' = "left" /\ subscribed' = FALSE /\ channel' = <<>>
    /\ UNCHANGED <<recorders, after, cursor, upto, out>>

FollowStep == InitialReplay \/ Subscribe \/ EmitReplay \/ Replayed

Next == RecordEvent \/ Publish \/ FollowStep \/ WakeUp \/ Tick \/ Leave
        \/ (pc = "left" /\ UNCHANGED vars)

Spec == Init /\ [][Next]_vars

\* The ticker fires, and the client reads while it is there.  Nothing else has to
\* happen: an event may be published late, or into a full channel.
FairSpec == Spec /\ WF_vars(FollowStep) /\ WF_vars(Tick \/ WakeUp)

-----------------------------------------------------------------------------
\* Every variable has its type.
TypeOK ==
    /\ log \in 0..MaxEvents /\ unpublished \subseteq 1..log
    /\ subscribed \in BOOLEAN /\ channel \in Seq(1..log) /\ Len(channel) <= Buffer
    /\ pc \in {"new", "subscribing", "emitting", "waiting", "left"}
    /\ after \in 0..log /\ cursor \in after..upto /\ upto \in 0..log
    /\ out \in Seq(1..log)

\* The follower emits the log from its after_seq on, each event once and in order,
\* whatever the hub drops, repeats or reorders.
FollowsTheLog == out = [i \in 1..(cursor - after) |-> after + i]

\* Every recorded event reaches a client that stays, also one recorded between the
\* initial replay and the subscription, published late, or dropped by the hub.
EventsArrive == \A n \in 1..MaxEvents : log >= n ~> cursor >= n \/ pc = "left"
=============================================================================
