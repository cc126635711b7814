-------------------------- MODULE EventDeliveryProofs --------------------------
(***************************************************************************)
(* The two ways in which a client gets a session's events, for any number  *)
(* of events and any size of the channels: a follower of the log emits it  *)
(* from its cursor on, each event once, in order (EventFollow); a reader   *)
(* of the live stream of a run shows no hole, and knows when it has missed *)
(* something (RunStream).                                                  *)
(***************************************************************************)
EXTENDS EventFollow, RunStream, SequenceTheorems, TLAPS

\* The variables the induction is about: what has been emitted lies between the
\* cursor of the request and the end of the replay, which the log has reached.
Cursors ==
    /\ log \in Nat /\ after \in Nat /\ cursor \in Nat /\ upto \in Nat
    /\ after <= cursor /\ cursor <= upto /\ upto <= log

IInv == Cursors /\ FollowsTheLog

-----------------------------------------------------------------------------
\* The next event after those of a range extends the range.
LEMMA RangeGrows ==
    ASSUME NEW a \in Nat, NEW c \in Nat, a <= c
    PROVE  Append([i \in 1..(c - a) |-> a + i], c + 1) = [i \in 1..((c + 1) - a) |-> a + i]
<1> DEFINE s == [i \in 1..(c - a) |-> a + i]
           t == [i \in 1..((c + 1) - a) |-> a + i]
<1>1. s \in Seq(Nat) /\ Len(s) = c - a
  <2>1. c - a \in Nat
    OBVIOUS
  <2>2. \A i \in 1..(c - a) : a + i \in Nat
    OBVIOUS
  <2>3. QED
    BY <2>1, <2>2
<1>2. /\ DOMAIN Append(s, c + 1) = 1..((c - a) + 1)
      /\ \A i \in 1..(c - a) : Append(s, c + 1)[i] = s[i]
      /\ Append(s, c + 1)[(c - a) + 1] = c + 1
  BY <1>1
<1>3. Append(s, c + 1) = [i \in 1..((c - a) + 1) |-> a + i]
  <2>1. \A i \in 1..((c - a) + 1) : Append(s, c + 1)[i] = a + i
    BY <1>2
  <2>2. Append(s, c + 1) \in Seq(Nat)
    BY <1>1
  <2>3. Append(s, c + 1) = [i \in 1..((c - a) + 1) |-> Append(s, c + 1)[i]]
    BY <1>2, <2>2
  <2>4. QED
    BY <2>1, <2>3
<1>4. (c - a) + 1 = (c + 1) - a
  OBVIOUS
<1>5. QED
  BY <1>3, <1>4

\* A fresh follower has emitted nothing.
LEMMA FollowInit == Init => IInv
<1> SUFFICES ASSUME Init PROVE IInv
  OBVIOUS
<1>1. Cursors
  BY BoundsAssumption DEF Init, Cursors
<1>2. cursor - after = 0 /\ out = <<>>
  BY <1>1 DEF Init, Cursors
<1>3. QED
  BY <1>1, <1>2 DEF IInv, FollowsTheLog

\* Every step keeps the invariant; only EmitReplay extends what has been emitted.
LEMMA FollowStepInv == IInv /\ [Next]_vars => IInv'
<1> SUFFICES ASSUME IInv, [Next]_vars PROVE IInv'
  OBVIOUS
<1>c. Cursors /\ FollowsTheLog
  BY DEF IInv
<1>q. UNCHANGED <<after, cursor, out>> => FollowsTheLog'
  BY <1>c DEF FollowsTheLog
<1>1. CASE EmitReplay
  <2>1. out' = Append(out, cursor + 1) /\ cursor' = cursor + 1 /\ cursor < upto
        /\ UNCHANGED <<log, after, upto>>
    BY <1>1 DEF EmitReplay, Advanced, recorders
  <2>2. Cursors'
    BY <1>c, <2>1 DEF Cursors
  <2>3. FollowsTheLog'
    BY <1>c, <2>1, RangeGrows DEF Cursors, FollowsTheLog
  <2>4. QED
    BY <2>2, <2>3 DEF IInv
<1>2. CASE RecordEvent
  BY <1>2, <1>c, <1>q DEF RecordEvent, follower, hub, Cursors, IInv
<1>3. CASE InitialReplay \/ WakeUp \/ Tick
  BY <1>3, <1>c, <1>q DEF InitialReplay, WakeUp, Tick, FlushReplay, recorders, Cursors, IInv
<1>4. CASE Publish \/ Subscribe \/ Replayed \/ Leave \/ UNCHANGED vars
  BY <1>4, <1>c, <1>q DEF Publish, Subscribe, Replayed, Leave, vars, follower, hub, recorders,
                          Cursors, IInv
<1>5. QED
  BY <1>1, <1>2, <1>3, <1>4 DEF Next, FollowStep

\* handleSessionEvents gives a client the durable log from its after_seq on,
\* without a hole or a repetition, whatever the hub drops or reorders.
THEOREM FollowerSeesTheLog == Spec => []FollowsTheLog
<1>1. IInv => FollowsTheLog
  BY DEF IInv
<1>2. QED
  BY <1>1, FollowInit, FollowStepInv, PTL DEF Spec

-----------------------------------------------------------------------------
\* Numbers up to the end of the log stay so when the log grows.
LEMMA LogGrows ==
    ASSUME NEW m \in Nat, NEW n \in Nat, m <= n, NEW s \in Seq(1..m)
    PROVE  s \in Seq(1..n)
<1>1. \A i \in 1..Len(s) : s[i] \in 1..n
  <2>1. \A i \in 1..Len(s) : s[i] \in 1..m
    BY ElementOfSeq
  <2> QED
    BY <2>1
<1>2. s \in [1..Len(s) -> 1..n]
  <2>1. s \in [1..Len(s) -> 1..m]
    BY LenProperties
  <2> QED
    BY <1>1, <2>1
<1> QED
  BY <1>2, LenProperties, SeqDef

\* A step in which the log does not grow, and the emitted events do not change.
LEMMA SameLogTypes ==
    ASSUME TypeOK, log' = log, UNCHANGED <<after, cursor, out>>,
           unpublished' \subseteq unpublished, subscribed' \in BOOLEAN,
           channel' \in Seq(1..log), Len(channel') <= Buffer,
           pc' \in {"new", "subscribing", "emitting", "waiting", "left"},
           upto' \in {upto, log}
    PROVE  TypeOK'
<1>1. upto' \in 0..log /\ cursor' \in after'..upto'
  BY BoundsAssumption DEF TypeOK
<1> QED
  BY <1>1 DEF TypeOK

LEMMA TypeStep == TypeOK /\ [Next]_vars => TypeOK'
<1> SUFFICES ASSUME TypeOK, [Next]_vars PROVE TypeOK'
  OBVIOUS
<1>0. /\ log \in Nat /\ channel \in Seq(1..log) /\ out \in Seq(1..log)
      /\ Len(channel) \in Nat /\ Len(channel) <= Buffer
      /\ after \in Nat /\ cursor \in Nat /\ upto \in Nat
      /\ after <= cursor /\ cursor <= upto /\ upto <= log
  BY LenProperties DEF TypeOK
<1>1. CASE RecordEvent
  <2>1. /\ log' = log + 1 /\ log' \in 0..MaxEvents /\ log <= log'
        /\ UNCHANGED <<hub, follower>>
    BY <1>0, <1>1, BoundsAssumption DEF RecordEvent, TypeOK
  <2>2. channel' \in Seq(1..log') /\ out' \in Seq(1..log')
    <3> DEFINE n == log'
    <3>1. n \in Nat /\ log <= n
      BY <1>0, <2>1
    <3> HIDE DEF n
    <3>2. channel \in Seq(1..n) /\ out \in Seq(1..n)
      BY <1>0, <3>1, LogGrows
    <3> QED
      BY <2>1, <3>2 DEF n, hub, follower
  <2>3. unpublished' \subseteq 1..log'
    <3>1. unpublished' = unpublished \union {log + 1}
      BY <1>1 DEF RecordEvent
    <3>2. \A i \in 1..log : i \in 1..(log + 1)
      BY <1>0
    <3>3. log + 1 \in 1..(log + 1)
      BY <1>0
    <3> QED
      BY <2>1, <3>1, <3>2, <3>3 DEF TypeOK
  <2>4. after' \in 0..log' /\ cursor' \in after'..upto' /\ upto' \in 0..log'
    BY <1>0, <2>1 DEF follower
  <2> QED
    BY <2>1, <2>2, <2>3, <2>4 DEF TypeOK, hub, follower
<1>2. CASE Publish
  <2>1. PICK n \in unpublished :
             channel' = IF subscribed /\ Len(channel) < Buffer THEN Append(channel, n) ELSE channel
    BY <1>2 DEF Publish
  <2>2. n \in 1..log
    BY <2>1 DEF TypeOK
  <2>3. Append(channel, n) \in Seq(1..log) /\ Len(Append(channel, n)) = Len(channel) + 1
    BY <1>0, <2>2, AppendProperties
  <2>4. Len(channel) < Buffer => Len(Append(channel, n)) <= Buffer
    BY <1>0, <2>3, BoundsAssumption
  <2>5. channel' \in Seq(1..log) /\ Len(channel') <= Buffer
    BY <1>0, <2>1, <2>3, <2>4
  <2>6. /\ unpublished' \subseteq unpublished /\ UNCHANGED <<log, subscribed, follower>>
    BY <1>2 DEF Publish
  <2> QED
    BY <2>5, <2>6, SameLogTypes DEF TypeOK, follower
<1>3. CASE EmitReplay
  <2>1. /\ out' = Append(out, cursor + 1) /\ cursor' = cursor + 1 /\ cursor < upto
        /\ UNCHANGED <<recorders, hub, pc, after, upto>>
    BY <1>3 DEF EmitReplay, Advanced
  <2>2. cursor + 1 \in 1..log /\ cursor' \in after..upto
    BY <1>0, <2>1
  <2>3. out' \in Seq(1..log)
    BY <1>0, <2>1, <2>2, AppendProperties
  <2> QED
    BY <2>1, <2>2, <2>3 DEF TypeOK, recorders, hub
<1>4. CASE WakeUp
  <2>1. channel # <<>> /\ channel' = Tail(channel) /\ subscribed' = subscribed
        /\ upto' = log /\ pc' = "emitting" /\ UNCHANGED <<recorders, after, cursor, out>>
    BY <1>4 DEF WakeUp, FlushReplay
  <2>2. Tail(channel) \in Seq(1..log) /\ Len(Tail(channel)) = Len(channel) - 1
    BY <1>0, <2>1, HeadTailProperties
  <2>3. Len(channel') <= Buffer
    BY <1>0, <2>1, <2>2, BoundsAssumption
  <2> QED
    BY <2>1, <2>2, <2>3, SameLogTypes DEF TypeOK, recorders
<1>5. CASE InitialReplay \/ Subscribe \/ Replayed \/ Tick \/ UNCHANGED vars
  <2>1. subscribed' \in BOOLEAN
    BY <1>5, Zenon DEF InitialReplay, Subscribe, Replayed, Tick, vars, hub, TypeOK
  <2>2. /\ UNCHANGED <<log, unpublished, channel, after, cursor, out>> /\ upto' \in {upto, log}
        /\ pc' \in {"subscribing", "emitting", "waiting", pc}
    BY <1>5 DEF InitialReplay, Subscribe, Replayed, Tick, FlushReplay, vars, hub, recorders, follower
  <2> QED
    BY <1>0, <2>1, <2>2, SameLogTypes DEF TypeOK
<1>6. CASE Leave
  <2>1. <<>> \in Seq(1..log) /\ Len(<<>>) <= Buffer
    BY EmptySeq, BoundsAssumption
  <2>2. /\ UNCHANGED <<log, unpublished, after, cursor, upto, out>> /\ channel' = <<>>
        /\ pc' = "left" /\ subscribed' = FALSE
    BY <1>6 DEF Leave, recorders
  <2>3. subscribed' \in BOOLEAN
    BY <2>2, Zenon
  <2> QED
    BY <2>1, <2>2, <2>3, SameLogTypes
<1> QED
  BY <1>1, <1>2, <1>3, <1>4, <1>5, <1>6 DEF Next, FollowStep, vars

\* Every variable of the log, of the hub and of the follower keeps its type.
THEOREM TypeCorrect == Spec => []TypeOK
<1>1. Init => TypeOK
  <2> SUFFICES ASSUME Init PROVE TypeOK
    OBVIOUS
  <2>1. log \in 0..MaxEvents /\ log \in Nat /\ after \in 0..log
    BY BoundsAssumption DEF Init
  <2>2. cursor \in after..upto /\ upto \in 0..log
    BY <2>1 DEF Init
  <2>3. channel = <<>> /\ out = <<>> /\ <<>> \in Seq(1..log) /\ Len(<<>>) <= Buffer
    BY EmptySeq, BoundsAssumption DEF Init
  <2>4. subscribed \in BOOLEAN
    BY Zenon DEF Init
  <2> QED
    BY <2>1, <2>2, <2>3, <2>4 DEF Init, TypeOK
<1> QED
  BY <1>1, TypeStep, PTL DEF Spec

-----------------------------------------------------------------------------
(* The live stream of a run.                                               *)

\* The durable number of what goes through the stream, or 0: a gap and a made-up
\* run.failed have none.
Num(item) == IF item.kind = "gap" THEN 0 ELSE item.seq

ItemKinds == {"none", "gap", "progress", "completed", "failed"}
Item == [kind : ItemKinds, seq : Nat, count : Nat]

\* The stream's variables, and where the client may be.
StreamTypes ==
    /\ recorded \in Nat /\ mine \subseteq 1..recorded /\ dropped \in Nat /\ lastQueued \in Nat
    /\ event \in Item /\ hand \in Item /\ buffer \in Seq(Item) /\ wire \in Seq(Item)
    /\ read \in 0..Len(wire) /\ gaps \in Nat /\ lastSeq \in 0..recorded
    /\ shown \in Seq(Nat)
    /\ stage \in {"running", "gap", "event", "ending", "draining", "returned"}

\* Every number on its way is in the log.
UpTo(s, n) == \A i \in 1..Len(s) : Num(s[i]) <= n
NumsRecorded ==
    /\ UpTo(wire, recorded) /\ UpTo(buffer, recorded)
    /\ Num(hand) <= recorded /\ Num(event) <= recorded

\* What a client has shown ends with the last number it has seen.
ShownToLastSeq ==
    /\ lastSeq = 0 => shown = <<>>
    /\ lastSeq > 0 => shown # <<>> /\ shown[Len(shown)] = lastSeq

\* The durable numbers that are on their way: in order, none of them twice.
Before(a, b) == Num(b) > 0 => Num(a) < Num(b)

Ordered(s) == \A i, j \in 1..Len(s) : i < j => Before(s[i], s[j])
AllBefore(s, item) == \A i \in 1..Len(s) : Before(s[i], item)
BeforeAll(item, s) == \A i \in 1..Len(s) : Before(item, s[i])

PipeOrdered ==
    /\ Ordered(wire) /\ AllBefore(wire, hand) /\ AllBefore(wire, event)
    /\ Ordered(buffer) /\ BeforeAll(hand, buffer) /\ AllBefore(buffer, event)
    /\ Before(hand, event)
    /\ \A i \in 1..Len(wire) : BeforeAll(wire[i], buffer)

\* Nothing is lost without a trace: an event of the run is on its way, unless a gap
\* is on its way too, or is still to be announced, or the end was given up.
HasGap(s) == \E i \in 1..Len(s) : s[i].kind = "gap"
Holds(s, n) == \E i \in 1..Len(s) : Num(s[i]) = n
NoGap == ~HasGap(wire) /\ ~HasGap(buffer) /\ hand.kind # "gap"
OnItsWay(n) == Holds(wire, n) \/ Holds(buffer, n) \/ Num(hand) = n \/ Num(event) = n
NothingLost == ~cut /\ dropped = 0 /\ NoGap => \A n \in mine : OnItsWay(n)

\* Whose turn it is.
Handover ==
    /\ stage \notin {"gap", "event"} => event = Nothing
    /\ event.kind # "gap"
    /\ stage \in {"draining", "returned"} => dropped = 0
    /\ ~cut /\ writer # "writing" => hand = Nothing
    /\ ~cut /\ stage = "returned" => writer = "done"
    /\ ~cut /\ writer = "done" => buffer = <<>> /\ stage \in {"draining", "returned"}

\* What the client has read it has shown, and it knows whether it has read a gap.
ReadIsShown ==
    /\ client \in {"reading", "done"} =>
         \A k \in 1..read : Num(wire[k]) > 0 => Num(wire[k]) \in Range(shown)
    /\ client = "reading" => lastSeq = 0 \/ \E k \in 1..read : Num(wire[k]) = lastSeq
    /\ client \in {"reading", "done"} /\ gaps = 0 => \A k \in 1..read : wire[k].kind # "gap"
    /\ client = "done" => /\ stage = "returned" /\ (~cut => read = Len(wire))
                          /\ gaps = 0 \/ failed

-----------------------------------------------------------------------------
LEMMA StreamTypesInit == StreamInit => StreamTypes
<1> SUFFICES ASSUME StreamInit PROVE StreamTypes
  OBVIOUS
<1>1. Nothing \in Item
  BY DEF Nothing, Item, ItemKinds
<1>2. <<>> \in Seq(Item) /\ <<>> \in Seq(Nat) /\ Len(<<>>) = 0
  OBVIOUS
<1>3. QED
  BY <1>1, <1>2 DEF StreamInit, StreamTypes

LEMMA StreamTypesStep == StreamTypes /\ NumsRecorded /\ [StreamNext]_streamVars => StreamTypes'
<1> SUFFICES ASSUME StreamTypes, NumsRecorded, [StreamNext]_streamVars PROVE StreamTypes'
  OBVIOUS
<1>0. /\ recorded \in Nat /\ dropped \in Nat /\ lastQueued \in Nat
      /\ lastSeq \in Nat /\ lastSeq <= recorded /\ read \in Nat /\ gaps \in Nat /\ read <= Len(wire)
      /\ event \in Item /\ hand \in Item /\ buffer \in Seq(Item) /\ wire \in Seq(Item)
      /\ shown \in Seq(Nat) /\ Len(wire) \in Nat /\ Len(shown) \in Nat
      /\ Nothing \in Item
  <2>1. wire \in Seq(Item) /\ shown \in Seq(Nat) /\ read \in 0..Len(wire)
    BY DEF StreamTypes
  <2>2. Len(wire) \in Nat /\ Len(shown) \in Nat
    BY <2>1, LenProperties
  <2>3. Nothing \in Item
    BY DEF Nothing, Item, ItemKinds
  <2>4. read \in Nat /\ read <= Len(wire)
    BY <2>1, <2>2
  <2> QED
    BY <2>1, <2>2, <2>3, <2>4 DEF StreamTypes
<1>n. recorded \in Nat /\ dropped \in Nat /\ lastQueued \in Nat /\ mine \subseteq 1..recorded
  BY DEF StreamTypes
<1>1. CASE OtherRecords
  <2>1. recorded' = recorded + 1 /\ UNCHANGED <<mine, stage, emitter, buffer, hand, wire, reader>>
    BY <1>1 DEF OtherRecords, emitter
  <2>2. 1..recorded \subseteq 1..(recorded + 1)
    BY <1>0
  <2>3. recorded' \in Nat /\ mine' \subseteq 1..recorded'
    BY <2>1, <2>2, <1>0 DEF StreamTypes
  <2> QED
    BY <2>1, <2>3 DEF reader, emitter, StreamTypes
<1>e. CASE Emit
  <2>1. /\ UNCHANGED <<dropped, lastQueued, buffer, hand, wire, reader>>
        /\ stage' \in {"gap", "event"}
    BY <1>e DEF Emit
  <2>2. 1..recorded \subseteq 1..(recorded + 1) /\ recorded + 1 \in 1..(recorded + 1)
    BY <1>0
  <2>5. \/ recorded' = recorded + 1 /\ mine' = mine \union {recorded + 1}
        \/ UNCHANGED <<recorded, mine>>
    BY <1>e DEF Emit
  <2>3. recorded' \in Nat /\ recorded <= recorded' /\ mine' \subseteq 1..recorded'
    <3>1. CASE recorded' = recorded + 1 /\ mine' = mine \union {recorded + 1}
      BY <3>1, <2>2, <1>n
    <3>2. CASE UNCHANGED <<recorded, mine>>
      BY <3>2, <1>n
    <3> QED
      BY <2>5, <3>1, <3>2
  <2>4. event' \in Item
    BY <1>e, <1>0 DEF Emit, Event, Item, ItemKinds
  <2> QED
    BY <1>0, <2>1, <2>3, <2>4 DEF reader, StreamTypes
<1>2. CASE EmitStep /\ ~Emit
  <2>1. /\ Gap(dropped, lastQueued) \in Item /\ event.seq \in Nat
    BY <1>0 DEF Gap, Item, ItemKinds
  <2>2. Append(buffer, Gap(dropped, lastQueued)) \in Seq(Item) /\ Append(buffer, event) \in Seq(Item)
    BY <1>0, <2>1, AppendProperties
  <2>4. buffer' \in Seq(Item)
    <3>1. buffer' \in {buffer, Append(buffer, event), Append(buffer, Gap(dropped, lastQueued))}
      BY <1>2 DEF EmitStep, EmitGap, EmitEvent, FinalGap, Return
    <3> QED
      BY <1>0, <2>2, <3>1
  <2>5. /\ dropped' \in {0, dropped, dropped + 1} /\ lastQueued' \in {lastQueued, event.seq}
        /\ event' \in {event, Nothing}
        /\ stage' \in {"running", "event", "ending", "draining", "returned"}
    BY <1>2 DEF EmitStep, EmitGap, EmitEvent, FinalGap, Return, CountKept
  <2>6. dropped' \in Nat /\ lastQueued' \in Nat
    BY <1>n, <2>1, <2>5
  <2>3. UNCHANGED <<gateway, hand, wire, reader>>
    BY <1>2 DEF EmitStep, EmitGap, EmitEvent, FinalGap, Return
  <2> QED
    BY <1>0, <2>3, <2>4, <2>5, <2>6 DEF gateway, reader, StreamTypes
<1>3. CASE WriterTake
  <2>1. hand' \in Item /\ buffer' \in Seq(Item)
    BY <1>3, <1>0, HeadTailProperties DEF WriterTake
  <2> QED
    BY <1>3, <2>1 DEF WriterTake, gateway, emitter, reader, StreamTypes
<1>4. CASE WriterWrite
  <2>1. wire' \in Seq(Item) /\ Len(wire') = Len(wire) + 1 /\ hand' \in Item
    BY <1>4, <1>0, AppendProperties DEF WriterWrite
  <2>2. read' \in 0..Len(wire')
    BY <1>4, <1>0, <2>1 DEF WriterWrite, reader
  <2> QED
    BY <1>4, <2>1, <2>2 DEF WriterWrite, gateway, emitter, reader, StreamTypes
<1>5. CASE Read
  <2> DEFINE item == wire[read + 1]
  <2>1. read + 1 \in 1..Len(wire) /\ UNCHANGED <<gateway, emitter, buffer, hand, wire>>
    BY <1>5, <1>0 DEF Read
  <2>2. item \in Item
    BY <1>0, <2>1, ElementOfSeq
  <2>3. item.seq \in Nat
    BY <2>2 DEF Item
  <2>4. gaps' \in Nat /\ read' \in 0..Len(wire)
    BY <1>5, <1>0, <2>1 DEF Read
  <2>7. item.kind # "gap" => item.seq <= recorded
    BY <2>1, <2>2 DEF NumsRecorded, UpTo, Num
  <2>5. lastSeq' \in 0..recorded
    BY <1>5, <1>0, <2>3, <2>7 DEF Read
  <2>6. shown' \in Seq(Nat)
    <3>1. shown' \in {shown, Append(shown, item.seq)}
      BY <1>5 DEF Read
    <3>2. Append(shown, item.seq) \in Seq(Nat)
      BY <1>0, <2>3, AppendProperties
    <3> QED
      BY <1>0, <3>1, <3>2
  <2> QED
    BY <2>1, <2>4, <2>5, <2>6 DEF gateway, emitter, StreamTypes
<1>6. CASE Replay
  <2> DEFINE missed == [i \in 1..(recorded - lastSeq) |-> lastSeq + i]
  <2>1. shown' = shown \o missed
    BY <1>6 DEF Replay
  <2>2. missed \in Seq(Nat)
    <3>1. recorded - lastSeq \in Nat
      BY <1>0
    <3> QED
      BY <3>1, <1>0
  <2>3. shown' \in Seq(Nat)
    BY <1>0, <2>1, <2>2, ConcatProperties
  <2> QED
    BY <1>6, <1>0, <2>3 DEF Replay, gateway, emitter, StreamTypes
<1>7. CASE EndOfStream \/ WriterFails \/ ContextEnds \/ Terminated \/ Exhausted \/ UNCHANGED streamVars
  BY <1>7 DEF EndOfStream, WriterFails, ContextEnds, Terminated, Exhausted, gateway, emitter, reader,
              streamVars, StreamTypes
<1>8. QED
  BY <1>1, <1>e, <1>2, <1>3, <1>4, <1>5, <1>6, <1>7 DEF StreamNext, ClientStep, EmitStep

\* Lemmas about the lists of what is on its way.
LEMMA NumType == ASSUME NEW item \in Item PROVE Num(item) \in Nat
BY DEF Num, Item

LEMMA Numberless ==
    ASSUME NEW a \in Item, NEW b \in Item, Num(a) = 0
    PROVE  Before(a, b) /\ Before(b, a)
BY NumType DEF Before

LEMMA AppendedItem ==
    ASSUME NEW s \in Seq(Item), NEW e \in Item
    PROVE  /\ \A n \in Nat : UpTo(s, n) /\ Num(e) <= n => UpTo(Append(s, e), n)
           /\ \A x \in Item : AllBefore(s, x) /\ Before(e, x) => AllBefore(Append(s, e), x)
           /\ \A x \in Item : BeforeAll(x, s) /\ Before(x, e) => BeforeAll(x, Append(s, e))
           /\ Ordered(s) /\ AllBefore(s, e) => Ordered(Append(s, e))
           /\ HasGap(Append(s, e)) <=> HasGap(s) \/ e.kind = "gap"
           /\ \A n \in Nat : Holds(Append(s, e), n) <=> Holds(s, n) \/ Num(e) = n
<1>1. /\ Len(s) \in Nat /\ Len(Append(s, e)) = Len(s) + 1
      /\ \A i \in 1..Len(s) : Append(s, e)[i] = s[i]
      /\ Append(s, e)[Len(s) + 1] = e
  BY AppendProperties, LenProperties
<1> DEFINE t == Append(s, e)
<1> HIDE DEF t
<1>2. /\ Len(s) \in Nat /\ Len(t) = Len(s) + 1
      /\ \A i \in 1..Len(t) : (i \in 1..Len(s) /\ t[i] = s[i]) \/ (i = Len(s) + 1 /\ t[i] = e)
      /\ \A i \in 1..Len(s) : i \in 1..Len(t) /\ t[i] = s[i]
      /\ Len(s) + 1 \in 1..Len(t) /\ t[Len(s) + 1] = e
  BY <1>1 DEF t
<1>3. \A n \in Nat : UpTo(s, n) /\ Num(e) <= n => UpTo(t, n)
  BY <1>2 DEF UpTo
<1>4. \A x \in Item : AllBefore(s, x) /\ Before(e, x) => AllBefore(t, x)
  BY <1>2 DEF AllBefore
<1>5. \A x \in Item : BeforeAll(x, s) /\ Before(x, e) => BeforeAll(x, t)
  BY <1>2 DEF BeforeAll
<1>6. Ordered(s) /\ AllBefore(s, e) => Ordered(t)
  BY <1>2 DEF AllBefore, Ordered
<1>7. HasGap(t) <=> HasGap(s) \/ e.kind = "gap"
  BY <1>2 DEF HasGap
<1>8. \A n \in Nat : Holds(t, n) <=> Holds(s, n) \/ Num(e) = n
  BY <1>2 DEF Holds
<1> QED
  BY <1>3, <1>4, <1>5, <1>6, <1>7, <1>8 DEF t

LEMMA TakenItem ==
    ASSUME NEW s \in Seq(Item), s # <<>>
    PROVE  /\ Head(s) \in Item /\ Tail(s) \in Seq(Item)
           /\ \A n \in Nat : UpTo(s, n) => UpTo(Tail(s), n) /\ Num(Head(s)) <= n
           /\ \A x \in Item : AllBefore(s, x) => AllBefore(Tail(s), x) /\ Before(Head(s), x)
           /\ \A x \in Item : BeforeAll(x, s) => BeforeAll(x, Tail(s)) /\ Before(x, Head(s))
           /\ Ordered(s) => Ordered(Tail(s)) /\ BeforeAll(Head(s), Tail(s))
           /\ HasGap(s) <=> HasGap(Tail(s)) \/ Head(s).kind = "gap"
           /\ \A n \in Nat : Holds(s, n) <=> Holds(Tail(s), n) \/ Num(Head(s)) = n
<1> DEFINE t == Tail(s)  e == Head(s)
<1>1. /\ e \in Item /\ t \in Seq(Item) /\ Len(s) \in Nat /\ Len(s) > 0 /\ Len(t) = Len(s) - 1
      /\ \A i \in 1..Len(t) : t[i] = s[i + 1]
      /\ e = s[1]
  BY HeadTailProperties, LenProperties, EmptySeq
<1> HIDE DEF t, e
<1>2. /\ \A i \in 1..Len(s) : (i = 1 /\ s[i] = e) \/ (i - 1 \in 1..Len(t) /\ s[i] = t[i - 1])
      /\ \A i \in 1..Len(t) : i + 1 \in 1..Len(s) /\ t[i] = s[i + 1]
      /\ 1 \in 1..Len(s) /\ e = s[1] /\ Len(t) \in Nat
  BY <1>1
<1>3. \A n \in Nat : UpTo(s, n) => UpTo(t, n) /\ Num(e) <= n
  BY <1>2 DEF UpTo
<1>4. \A x \in Item : AllBefore(s, x) => AllBefore(t, x) /\ Before(e, x)
  BY <1>2 DEF AllBefore
<1>5. \A x \in Item : BeforeAll(x, s) => BeforeAll(x, t) /\ Before(x, e)
  BY <1>2 DEF BeforeAll
<1>6. Ordered(s) => Ordered(t) /\ BeforeAll(e, t)
  <2> SUFFICES ASSUME Ordered(s) PROVE Ordered(t) /\ BeforeAll(e, t)
    OBVIOUS
  <2>1. ASSUME NEW i \in 1..Len(t), NEW j \in 1..Len(t), i < j PROVE Before(t[i], t[j])
    <3>1. i + 1 \in 1..Len(s) /\ j + 1 \in 1..Len(s) /\ i + 1 < j + 1
      BY <1>2, <2>1
    <3> QED
      BY <1>2, <3>1 DEF Ordered
  <2>2. ASSUME NEW j \in 1..Len(t) PROVE Before(e, t[j])
    <3>1. j + 1 \in 1..Len(s) /\ 1 < j + 1
      BY <1>2
    <3> QED
      BY <1>2, <3>1 DEF Ordered
  <2> QED
    BY <2>1, <2>2 DEF Ordered, BeforeAll
<1>7. HasGap(s) <=> HasGap(t) \/ e.kind = "gap"
  <2>1. HasGap(s) => HasGap(t) \/ e.kind = "gap"
    BY <1>2 DEF HasGap
  <2>2. HasGap(t) => HasGap(s)
    BY <1>2 DEF HasGap
  <2>3. e.kind = "gap" => HasGap(s)
    BY <1>2 DEF HasGap
  <2> QED
    BY <2>1, <2>2, <2>3
<1>8. \A n \in Nat : Holds(s, n) <=> Holds(t, n) \/ Num(e) = n
  BY <1>2 DEF Holds
<1> QED
  BY <1>1, <1>3, <1>4, <1>5, <1>6, <1>7, <1>8 DEF t, e

\* The numbers stay in order: the run's next event has the next number of the log,
\* and what passes on keeps its place.
LEMMA PipeInit == StreamInit => NumsRecorded /\ PipeOrdered
BY DEF StreamInit, NumsRecorded, PipeOrdered, UpTo, Ordered, AllBefore, BeforeAll, Before, Num, Nothing

LEMMA PipeStep ==
    StreamTypes /\ NumsRecorded /\ PipeOrdered /\ [StreamNext]_streamVars
        => NumsRecorded' /\ PipeOrdered'
<1> SUFFICES ASSUME StreamTypes, NumsRecorded, PipeOrdered, [StreamNext]_streamVars
             PROVE  NumsRecorded' /\ PipeOrdered'
  OBVIOUS
<1>0. /\ recorded \in Nat /\ event \in Item /\ hand \in Item
      /\ buffer \in Seq(Item) /\ wire \in Seq(Item)
  BY DEF StreamTypes
<1>1. /\ \A i \in 1..Len(wire) : wire[i] \in Item /\ Num(wire[i]) \in Nat
      /\ \A i \in 1..Len(buffer) : buffer[i] \in Item /\ Num(buffer[i]) \in Nat
      /\ Num(hand) \in Nat /\ Num(event) \in Nat
  BY <1>0, NumType, ElementOfSeq
<1>2. Nothing \in Item /\ Num(Nothing) = 0
  BY DEF Nothing, Item, ItemKinds, Num
<1>3. /\ UpTo(wire, recorded) /\ UpTo(buffer, recorded) /\ Num(hand) <= recorded /\ Num(event) <= recorded
      /\ Ordered(wire) /\ AllBefore(wire, hand) /\ AllBefore(wire, event)
      /\ Ordered(buffer) /\ BeforeAll(hand, buffer) /\ AllBefore(buffer, event)
      /\ Before(hand, event)
      /\ \A i \in 1..Len(wire) : BeforeAll(wire[i], buffer)
  BY DEF NumsRecorded, PipeOrdered
\* A numberless item may stand anywhere.
<1>4. ASSUME NEW e \in Item, Num(e) = 0
      PROVE  /\ AllBefore(wire, e) /\ AllBefore(buffer, e) /\ BeforeAll(e, buffer)
             /\ Before(hand, e) /\ Before(e, hand) /\ Before(e, event) /\ Before(event, e)
             /\ Num(e) <= recorded
             /\ \A i \in 1..Len(wire) : Before(wire[i], e)
  BY <1>0, <1>1, <1>4, Numberless DEF AllBefore, BeforeAll
<1>5. CASE OtherRecords
  <2>1. recorded' = recorded + 1 /\ UNCHANGED <<event, buffer, hand, wire>>
    BY <1>5 DEF OtherRecords, emitter
  <2>2. UpTo(wire, recorded + 1) /\ UpTo(buffer, recorded + 1)
    BY <1>0, <1>1, <1>3 DEF UpTo
  <2> QED
    BY <1>0, <1>1, <1>3, <2>1, <2>2 DEF NumsRecorded, PipeOrdered
<1>6. CASE Emit
  <2>1. UNCHANGED <<buffer, hand, wire>>
    BY <1>6 DEF Emit
  <2>2. CASE recorded' = recorded /\ event' = Event("failed", 0)
    <3>1. event' \in Item /\ Num(event') = 0
      BY <2>2 DEF Event, Item, ItemKinds, Num
    <3> QED
      BY <1>3, <1>4, <2>1, <2>2, <3>1 DEF NumsRecorded, PipeOrdered
  <2>3. CASE recorded' = recorded + 1 /\ \E kind \in {"progress", "completed", "failed"} :
                                             event' = Event(kind, recorded + 1)
    <3>1. event' \in Item /\ Num(event') = recorded + 1
      BY <1>0, <2>3 DEF Event, Item, ItemKinds, Num
    <3>2. UpTo(wire, recorded + 1) /\ UpTo(buffer, recorded + 1)
      BY <1>0, <1>1, <1>3 DEF UpTo
    <3>3. AllBefore(wire, event') /\ AllBefore(buffer, event') /\ Before(hand, event')
      BY <1>0, <1>1, <1>3, <3>1 DEF UpTo, AllBefore, Before
    <3> QED
      BY <1>0, <1>1, <1>3, <2>1, <2>3, <3>1, <3>2, <3>3 DEF NumsRecorded, PipeOrdered
  <2> QED
    BY <1>6, <2>2, <2>3 DEF Emit
<1>7. CASE EmitGap \/ FinalGap \/ EmitEvent
  <2>1. UNCHANGED <<recorded, hand, wire>>
    BY <1>7 DEF EmitGap, FinalGap, EmitEvent, gateway
  <2> DEFINE gap == Gap(dropped, lastQueued)
  <2>2. gap \in Item /\ Num(gap) = 0
    BY DEF StreamTypes, Gap, Item, ItemKinds, Num
  <2>3. \/ event' = event /\ buffer' = buffer
        \/ event' = event /\ buffer' = Append(buffer, gap)
        \/ event' = Nothing /\ buffer' = Append(buffer, event)
        \/ event' = Nothing /\ buffer' = buffer
    BY <1>7 DEF EmitGap, FinalGap, EmitEvent
  <2> HIDE DEF gap
  <2>4. ASSUME NEW e \in Item, AllBefore(wire, e), AllBefore(buffer, e), Before(hand, e), Num(e) <= recorded,
               buffer' = Append(buffer, e)
        PROVE  /\ UpTo(buffer', recorded) /\ Ordered(buffer') /\ BeforeAll(hand, buffer')
               /\ \A i \in 1..Len(wire) : BeforeAll(wire[i], buffer')
               /\ \A x \in Item : AllBefore(buffer, x) /\ Before(e, x) => AllBefore(buffer', x)
    <3>1. \A i \in 1..Len(wire) : Before(wire[i], e)
      BY <2>4 DEF AllBefore
    <3> QED
      BY <1>0, <1>1, <1>3, <2>4, <3>1, AppendedItem
  <2>5. CASE event' = event /\ buffer' = buffer
    BY <1>3, <2>1, <2>5 DEF NumsRecorded, PipeOrdered
  <2>6. CASE event' = event /\ buffer' = Append(buffer, gap)
    BY <1>0, <1>3, <1>4, <2>1, <2>2, <2>4, <2>6 DEF NumsRecorded, PipeOrdered
  <2>7. CASE event' = Nothing /\ buffer' = Append(buffer, event)
    <3>1. Before(event, Nothing)
      BY <1>2, <1>4
    <3> QED
      BY <1>0, <1>2, <1>3, <1>4, <2>1, <2>4, <2>7, <3>1 DEF NumsRecorded, PipeOrdered
  <2>8. CASE event' = Nothing /\ buffer' = buffer
    BY <1>2, <1>3, <1>4, <2>1, <2>8 DEF NumsRecorded, PipeOrdered
  <2> QED
    BY <2>3, <2>5, <2>6, <2>7, <2>8
<1>8. CASE WriterTake
  <2>1. UNCHANGED <<recorded, event, wire>>
    BY <1>8 DEF WriterTake, gateway, emitter
  <2>2. CASE buffer # <<>>
    <3>1. hand' = Head(buffer) /\ buffer' = Tail(buffer)
      BY <1>8, <2>2 DEF WriterTake
    <3>2. /\ UpTo(buffer', recorded) /\ Num(hand') <= recorded
          /\ AllBefore(buffer', event) /\ Before(hand', event)
          /\ Ordered(buffer') /\ BeforeAll(hand', buffer')
      BY <1>0, <1>3, <2>2, <3>1, TakenItem
    <3>3. \A i \in 1..Len(wire) : BeforeAll(wire[i], buffer') /\ Before(wire[i], hand')
      BY <1>0, <1>1, <1>3, <2>2, <3>1, TakenItem
    <3>4. AllBefore(wire, hand')
      BY <3>3 DEF AllBefore
    <3> QED
      BY <1>3, <2>1, <3>2, <3>3, <3>4 DEF NumsRecorded, PipeOrdered
  <2>3. CASE buffer = <<>>
    BY <1>3, <1>8, <2>1, <2>3 DEF WriterTake, NumsRecorded, PipeOrdered
  <2> QED
    BY <2>2, <2>3
<1>9. CASE WriterWrite
  <2>1. UNCHANGED <<recorded, event, buffer>> /\ hand' = Nothing /\ wire' = Append(wire, hand)
    BY <1>9 DEF WriterWrite, gateway, emitter
  <2>2. UpTo(wire', recorded) /\ Ordered(wire') /\ AllBefore(wire', event)
    BY <1>0, <1>3, <2>1, AppendedItem
  <2>3. AllBefore(wire', Nothing)
    BY <1>0, <1>2, <1>4, <2>1, AppendedItem
  <2>4. \A i \in 1..Len(wire') : BeforeAll(wire'[i], buffer)
    <3>1. \A i \in 1..Len(wire') : wire'[i] = hand \/ (i \in 1..Len(wire) /\ wire'[i] = wire[i])
      BY <1>0, <2>1, AppendProperties, LenProperties
    <3> QED
      BY <1>3, <3>1
  <2> QED
    BY <1>2, <1>3, <1>4, <2>1, <2>2, <2>3, <2>4 DEF NumsRecorded, PipeOrdered
<1>10. CASE UNCHANGED <<recorded, event, buffer, hand, wire>>
  BY <1>3, <1>10 DEF NumsRecorded, PipeOrdered
<1>11. CASE Return \/ WriterFails \/ ContextEnds \/ ClientStep \/ Terminated \/ Exhausted
            \/ UNCHANGED streamVars
  BY <1>10, <1>11 DEF Return, WriterFails, ContextEnds, ClientStep, Read, EndOfStream, Replay,
                      Terminated, Exhausted, gateway, emitter, streamVars
<1> QED
  BY <1>5, <1>6, <1>7, <1>8, <1>9, <1>11 DEF StreamNext, EmitStep

ShownInv == ShownToLastSeq /\ ShownContiguous

\* Only a read of the next number, and the replay, extend what has been shown.
LEMMA ShownStep ==
    StreamTypes /\ NumsRecorded /\ ShownInv /\ [StreamNext]_streamVars => ShownInv'
<1> SUFFICES ASSUME StreamTypes, NumsRecorded, ShownInv, [StreamNext]_streamVars PROVE ShownInv'
  OBVIOUS
<1>0. /\ recorded \in Nat /\ lastSeq \in Nat /\ lastSeq <= recorded /\ shown \in Seq(Nat)
      /\ Len(shown) \in Nat /\ (shown # <<>> => Len(shown) > 0)
  BY LenProperties, EmptySeq DEF StreamTypes
<1>1. /\ lastSeq = 0 => shown = <<>>
      /\ lastSeq > 0 => shown # <<>> /\ shown[Len(shown)] = lastSeq
      /\ \A i \in 1..Len(shown) : shown[i] = shown[1] + i - 1
  BY DEF ShownInv, ShownToLastSeq, ShownContiguous
<1>2. CASE UNCHANGED <<lastSeq, shown>>
  BY <1>1, <1>2 DEF ShownInv, ShownToLastSeq, ShownContiguous
<1>3. CASE Read
  <2> DEFINE item == wire[read + 1]
  <2>1. item.seq \in Nat
    <3>1. wire \in Seq(Item) /\ Len(wire) \in Nat /\ read \in Nat /\ read < Len(wire)
      BY <1>3, LenProperties DEF Read, StreamTypes
    <3>2. item \in Item
      BY <3>1, ElementOfSeq
    <3> QED
      BY <3>2 DEF Item
  <2>2. CASE item.kind # "gap" /\ item.seq > lastSeq /\ ~SeqGap(item)
    <3>1. lastSeq' = item.seq /\ shown' = Append(shown, item.seq)
      BY <1>0, <1>3, <2>1, <2>2 DEF Read
    <3>2. /\ Len(shown') = Len(shown) + 1 /\ shown' # <<>> /\ shown'[Len(shown) + 1] = item.seq
          /\ \A i \in 1..Len(shown) : shown'[i] = shown[i]
      BY <1>0, <2>1, <3>1, AppendProperties
    <3>3. lastSeq > 0 => item.seq = lastSeq + 1
      BY <1>0, <2>1, <2>2 DEF SeqGap
    <3>4. \A i \in 1..(Len(shown) + 1) : shown'[i] = shown'[1] + i - 1
      <4>1. CASE lastSeq = 0
        <5>1. Len(shown) = 0
          BY <1>1, <4>1
        <5> QED
          BY <2>1, <3>2, <5>1
      <4>2. CASE lastSeq > 0
        <5>1. Len(shown) > 0 /\ shown[Len(shown)] = lastSeq /\ shown'[1] = shown[1] /\ shown[1] \in Nat
          BY <1>0, <1>1, <3>2, <4>2, ElementOfSeq
        <5>2. lastSeq = shown[1] + Len(shown) - 1
          BY <1>0, <1>1, <5>1, SMTT(30)
        <5>3. \A i \in 1..Len(shown) : shown'[i] = shown'[1] + i - 1
          BY <1>1, <3>2, <5>1
        <5>4. shown'[Len(shown) + 1] = shown'[1] + (Len(shown) + 1) - 1
          BY <1>0, <3>2, <3>3, <4>2, <5>1, <5>2
        <5>5. \A i \in 1..(Len(shown) + 1) : i \in 1..Len(shown) \/ i = Len(shown) + 1
          BY <1>0
        <5> QED
          BY <5>3, <5>4, <5>5
      <4> QED
        BY <1>0, <4>1, <4>2
    <3>5. lastSeq' > 0 /\ shown' # <<>> /\ shown'[Len(shown')] = lastSeq'
      BY <1>0, <2>1, <2>2, <3>1, <3>2
    <3>6. \A i \in 1..Len(shown') : shown'[i] = shown'[1] + i - 1
      BY <3>2, <3>4
    <3> QED
      BY <1>0, <3>1, <2>1, <3>5, <3>6, SMTT(30) DEF ShownInv, ShownToLastSeq, ShownContiguous
  <2>3. CASE ~(item.kind # "gap" /\ item.seq > lastSeq /\ ~SeqGap(item))
    <3>1. UNCHANGED <<lastSeq, shown>>
      BY <1>0, <1>3, <2>1, <2>3 DEF Read
    <3> QED
      BY <1>2, <3>1
  <2> QED
    BY <2>2, <2>3
<1>4. CASE Replay
  <2> DEFINE n == recorded - lastSeq
             missed == [i \in 1..n |-> lastSeq + i]
  <2>1. n \in Nat /\ shown' = shown \o missed /\ lastSeq' = recorded
    BY <1>0, <1>4 DEF Replay
  <2> HIDE DEF n
  <2>2. missed \in Seq(Nat) /\ Len(missed) = n /\ \A i \in 1..n : missed[i] = lastSeq + i
    <3>1. \A i \in 1..n : lastSeq + i \in Nat
      BY <1>0, <2>1
    <3>2. missed \in Seq(Nat)
      BY <2>1, <3>1
    <3> QED
      BY <2>1, <3>2
  <2> HIDE DEF missed
  <2>3. /\ shown' \in Seq(Nat) /\ Len(shown') = Len(shown) + n
        /\ \A i \in 1..(Len(shown) + n) :
             shown'[i] = IF i <= Len(shown) THEN shown[i] ELSE missed[i - Len(shown)]
    BY <1>0, <2>1, <2>2, ConcatProperties
  <2>4. CASE lastSeq = 0
    <3>1. Len(shown) = 0
      BY <1>1, <2>4
    <3>2. Len(shown') = n /\ \A i \in 1..n : shown'[i] = i
      BY <1>0, <2>1, <2>2, <2>3, <2>4, <3>1
    <3>3. recorded = n
      BY <1>0, <2>4 DEF n
    <3>4. n = 0 => shown' = <<>>
      BY <2>3, <3>2, EmptySeq
    <3>6. \A i \in 1..n : shown'[i] = shown'[1] + i - 1
      BY <2>1, <3>2
    <3>5. n > 0 => shown' # <<>> /\ shown'[Len(shown')] = n
      BY <2>1, <3>2
    <3> QED
      BY <2>1, <3>2, <3>3, <3>4, <3>5, <3>6 DEF ShownInv, ShownToLastSeq, ShownContiguous
  <2>5. CASE lastSeq > 0
    <3>1. Len(shown) > 0 /\ shown[Len(shown)] = lastSeq /\ shown[1] \in Nat
      BY <1>0, <1>1, <2>5, ElementOfSeq
    <3>2. lastSeq = shown[1] + Len(shown) - 1
      BY <1>0, <1>1, <3>1
    <3>3. shown'[1] = shown[1]
      BY <1>0, <2>1, <2>3, <3>1
    <3>4. \A i \in 1..(Len(shown) + n) : shown'[i] = shown'[1] + i - 1
      <4> SUFFICES ASSUME NEW i \in 1..(Len(shown) + n) PROVE shown'[i] = shown[1] + i - 1
        BY <3>3
      <4>1. CASE i <= Len(shown)
        <5>1. i \in 1..Len(shown)
          BY <1>0, <2>1, <4>1
        <5>2. shown'[i] = shown[i]
          BY <2>3, <4>1
        <5> QED
          BY <1>1, <5>1, <5>2
      <4>2. CASE i > Len(shown)
        <5>1. i - Len(shown) \in 1..n
          BY <1>0, <2>1, <4>2
        <5>2. shown'[i] = lastSeq + (i - Len(shown))
          BY <1>0, <2>2, <2>3, <4>2, <5>1
        <5>3. Len(shown) \in Nat /\ i \in Nat /\ shown[1] \in Nat
          BY <1>0, <2>1, <3>1
        <5> QED
          BY <3>2, <5>2, <5>3
      <4> QED
        BY <1>0, <4>1, <4>2
    <3>5. shown'[Len(shown')] = recorded
      <4>1. Len(shown) + n \in 1..(Len(shown) + n)
        BY <1>0, <2>1, <3>1
      <4>2. shown'[Len(shown) + n] = shown[1] + (Len(shown) + n) - 1
        BY <3>3, <3>4, <4>1
      <4>3. shown[1] + (Len(shown) + n) - 1 = lastSeq + n
        BY <1>0, <2>1, <3>1, <3>2
      <4>4. lastSeq + n = recorded
        BY <1>0 DEF n
      <4> QED
        BY <2>3, <4>2, <4>3, <4>4
    <3>6. shown' # <<>> /\ recorded > 0
      <4>1. Len(shown') # 0
        BY <1>0, <2>1, <2>3, <3>1
      <4> QED
        BY <1>0, <2>5, <4>1
    <3> QED
      BY <1>0, <2>1, <2>3, <3>4, <3>5, <3>6, SMTT(30) DEF ShownInv, ShownToLastSeq, ShownContiguous
  <2> QED
    BY <1>0, <2>4, <2>5
<1>5. CASE ~Read /\ ~Replay
  BY <1>2, <1>5 DEF StreamNext, EmitStep, ClientStep, OtherRecords, Emit, EmitGap, EmitEvent,
                    FinalGap, Return, WriterTake, WriterWrite, WriterFails, ContextEnds,
                    EndOfStream, Terminated, Exhausted, gateway, emitter, reader, streamVars
<1> QED
  BY <1>3, <1>4, <1>5

\* The stages of the handler and of its writer, and what each has in its hands.
LEMMA HandoverStep == StreamTypes /\ Handover /\ [StreamNext]_streamVars => Handover'
<1> SUFFICES ASSUME StreamTypes, Handover, [StreamNext]_streamVars PROVE Handover'
  OBVIOUS
<1> USE DEF Handover
<1>0. dropped \in Nat /\ Nothing.kind # "gap"
  BY DEF StreamTypes, Nothing
<1>1. CASE OtherRecords
  BY <1>1 DEF OtherRecords, emitter
<1>2. CASE Emit
  BY <1>2 DEF Emit, Event
<1>3. CASE EmitGap
  BY <1>3 DEF EmitGap
<1>4. CASE EmitEvent
  BY <1>0, <1>4 DEF EmitEvent
<1>5. CASE FinalGap
  BY <1>5 DEF FinalGap
<1>6. CASE Return
  BY <1>6 DEF Return
<1>7. CASE WriterTake
  BY <1>7 DEF WriterTake, emitter
<1>8. CASE WriterWrite
  BY <1>8 DEF WriterWrite, emitter
<1>9. CASE WriterFails
  BY <1>9 DEF WriterFails, emitter
<1>10. CASE ContextEnds \/ ClientStep \/ Terminated \/ Exhausted \/ UNCHANGED streamVars
  BY <1>10 DEF ContextEnds, ClientStep, Read, EndOfStream, Replay, Terminated, Exhausted, streamVars,
               emitter
<1> QED
  BY <1>1, <1>2, <1>3, <1>4, <1>5, <1>6, <1>7, <1>8, <1>9, <1>10 DEF StreamNext, EmitStep

\* An event is dropped only where a gap takes its place, now or later.
LEMMA LostStep ==
    StreamTypes /\ Handover /\ NothingLost /\ [StreamNext]_streamVars => NothingLost'
<1> SUFFICES ASSUME StreamTypes, Handover, NothingLost, [StreamNext]_streamVars,
                    ~cut', dropped' = 0, NoGap'
             PROVE  \A n \in mine' : OnItsWay(n)'
  BY DEF NothingLost
<1>0. /\ recorded \in Nat /\ dropped \in Nat /\ event \in Item /\ hand \in Item
      /\ buffer \in Seq(Item) /\ wire \in Seq(Item)
      /\ \A n \in mine : n \in Nat /\ n # 0
  BY DEF StreamTypes
<1>1. Num(Nothing) = 0 /\ Nothing.kind # "gap"
  BY DEF Nothing, Num
<1>2. ~cut
  BY DEF StreamNext, EmitStep, ClientStep, OtherRecords, Emit, EmitGap, EmitEvent, FinalGap, Return,
         WriterTake, WriterWrite, WriterFails, ContextEnds, Read, EndOfStream, Replay, Terminated,
         Exhausted, streamVars
<1>3. ASSUME UNCHANGED <<dropped, mine, event, buffer, hand, wire>>
      PROVE  \A n \in mine' : OnItsWay(n)'
  BY <1>2, <1>3 DEF NothingLost, NoGap, OnItsWay
<1>4. CASE Emit
  <2>1. UNCHANGED <<dropped, buffer, hand, wire>> /\ event = Nothing
    BY <1>4 DEF Emit, Handover
  <2>2. \A n \in mine : Holds(wire, n) \/ Holds(buffer, n) \/ Num(hand) = n
    BY <1>0, <1>1, <1>2, <2>1 DEF NothingLost, NoGap, OnItsWay
  <2>3. \A n \in mine' : n \in mine \/ Num(event') = n
    BY <1>4 DEF Emit, Event, Num
  <2> QED
    BY <2>1, <2>2, <2>3 DEF OnItsWay
<1>5. CASE EmitGap
  <2>1. buffer' # Append(buffer, Gap(dropped, lastQueued))
    <3>1. Gap(dropped, lastQueued) \in Item /\ Gap(dropped, lastQueued).kind = "gap"
      BY DEF StreamTypes, Gap, Item, ItemKinds
    <3> QED
      BY <1>0, <3>1, AppendedItem DEF NoGap
  <2> QED
    BY <1>3, <1>5, <2>1 DEF EmitGap, CountKept, gateway
<1>6. CASE EmitEvent
  <2>1. dropped' = dropped /\ buffer' = Append(buffer, event)
    BY <1>0, <1>6 DEF EmitEvent
  <2>2. UNCHANGED <<mine, hand, wire>> /\ event.kind # "gap"
    BY <1>6 DEF EmitEvent, gateway, Handover
  <2>3. NoGap
    BY <1>0, <2>1, <2>2, AppendedItem DEF NoGap
  <2>4. \A n \in mine : OnItsWay(n)
    BY <1>2, <2>1, <2>3 DEF NothingLost
  <2>5. \A n \in mine : Holds(buffer', n) <=> Holds(buffer, n) \/ Num(event) = n
    BY <1>0, <2>1, AppendedItem
  <2> QED
    BY <2>2, <2>4, <2>5 DEF OnItsWay
<1>7. CASE FinalGap
  <2>1. buffer' # Append(buffer, Gap(dropped, lastQueued))
    <3>1. Gap(dropped, lastQueued) \in Item /\ Gap(dropped, lastQueued).kind = "gap"
      BY DEF StreamTypes, Gap, Item, ItemKinds
    <3> QED
      BY <1>0, <3>1, AppendedItem DEF NoGap
  <2> QED
    BY <1>3, <1>7, <2>1 DEF FinalGap, gateway
<1>8. CASE WriterTake
  <2>1. UNCHANGED <<dropped, mine, event, wire>> /\ hand = Nothing
    BY <1>2, <1>8 DEF WriterTake, gateway, emitter, Handover
  <2>2. CASE buffer # <<>>
    <3>1. hand' = Head(buffer) /\ buffer' = Tail(buffer)
      BY <1>8, <2>2 DEF WriterTake
    <3>2. NoGap
      BY <1>0, <1>1, <2>1, <2>2, <3>1, TakenItem DEF NoGap
    <3>3. \A n \in mine : Holds(buffer, n) <=> Holds(buffer', n) \/ Num(hand') = n
      BY <1>0, <2>2, <3>1, TakenItem
    <3>4. \A n \in mine : OnItsWay(n) /\ Num(hand) # n
      BY <1>0, <1>1, <1>2, <2>1, <3>2 DEF NothingLost
    <3> QED
      BY <2>1, <3>3, <3>4 DEF OnItsWay
  <2>3. CASE buffer = <<>>
    BY <1>3, <1>8, <2>1, <2>3 DEF WriterTake
  <2> QED
    BY <2>2, <2>3
<1>9. CASE WriterWrite
  <2>1. UNCHANGED <<dropped, mine, event, buffer>> /\ wire' = Append(wire, hand)
    BY <1>9 DEF WriterWrite, gateway, emitter
  <2>2. NoGap
    BY <1>0, <2>1, AppendedItem DEF NoGap
  <2>3. \A n \in mine : OnItsWay(n) /\ (Holds(wire', n) <=> Holds(wire, n) \/ Num(hand) = n)
    BY <1>0, <1>2, <2>1, <2>2, AppendedItem DEF NothingLost
  <2> QED
    BY <2>1, <2>3 DEF OnItsWay
<1>10. CASE OtherRecords \/ Return \/ WriterFails \/ ContextEnds \/ ClientStep \/ Terminated
            \/ Exhausted \/ UNCHANGED streamVars
  <2>1. UNCHANGED <<dropped, mine, event, buffer, hand, wire>>
    BY <1>10 DEF OtherRecords, Return, WriterFails, ContextEnds, ClientStep, Read, EndOfStream, Replay,
                 Terminated, Exhausted, gateway, emitter, streamVars
  <2> QED
    BY <1>3, <2>1
<1> QED
  BY <1>4, <1>5, <1>6, <1>7, <1>8, <1>9, <1>10 DEF StreamNext, EmitStep

\* The client: a number that it reads for the first time is shown.
LEMMA ReadStep ==
    StreamTypes /\ PipeOrdered /\ Handover /\ ReadIsShown /\ [StreamNext]_streamVars => ReadIsShown'
<1> SUFFICES ASSUME StreamTypes, PipeOrdered, Handover, ReadIsShown, [StreamNext]_streamVars
             PROVE  ReadIsShown'
  OBVIOUS
<1>0. /\ wire \in Seq(Item) /\ Len(wire) \in Nat /\ read \in Nat /\ read <= Len(wire)
      /\ lastSeq \in Nat /\ gaps \in Nat /\ shown \in Seq(Nat)
  BY LenProperties DEF StreamTypes
<1>1. /\ client \in {"reading", "done"} =>
           \A k \in 1..read : Num(wire[k]) > 0 => Num(wire[k]) \in Range(shown)
      /\ client = "reading" => lastSeq = 0 \/ \E k \in 1..read : Num(wire[k]) = lastSeq
      /\ client \in {"reading", "done"} /\ gaps = 0 => \A k \in 1..read : wire[k].kind # "gap"
      /\ client = "done" => /\ stage = "returned" /\ (~cut => read = Len(wire))
                            /\ gaps = 0 \/ failed
  BY DEF ReadIsShown
<1>2. CASE Read
  <2> DEFINE item == wire[read + 1]
  <2>1. read + 1 \in 1..Len(wire) /\ client = "reading" /\ read' = read + 1 /\ wire' = wire
    BY <1>0, <1>2 DEF Read
  <2>2. item \in Item /\ Num(item) \in Nat
    BY <1>0, <2>1, ElementOfSeq, NumType
  <2>3. Num(item) > 0 => Num(item) > lastSeq
    <3>1. CASE lastSeq = 0
      BY <3>1
    <3>2. CASE \E k \in 1..read : Num(wire[k]) = lastSeq
      <4>1. PICK k \in 1..read : Num(wire[k]) = lastSeq
        BY <3>2
      <4>2. k \in 1..Len(wire) /\ k < read + 1
        BY <1>0
      <4>3. Before(wire[k], item)
        BY <2>1, <4>2 DEF PipeOrdered, Ordered
      <4> QED
        BY <4>1, <4>3 DEF Before
    <3> QED
      BY <1>1, <2>1, <3>1, <3>2
  <2>4. CASE SeqGap(item)
    BY <1>2, <2>4 DEF Read, ReadIsShown
  <2>5. CASE ~SeqGap(item)
    <3>1. /\ client' = "reading"
          /\ gaps' = IF item.kind = "gap" THEN gaps + 1 ELSE gaps
          /\ lastSeq' = IF Num(item) > lastSeq THEN Num(item) ELSE lastSeq
          /\ shown' = IF Num(item) > lastSeq THEN Append(shown, Num(item)) ELSE shown
      <4>1. (item.kind # "gap" /\ item.seq > lastSeq) <=> Num(item) > lastSeq
        BY <1>0, <2>2 DEF Num
      <4>2. Num(item) > lastSeq => item.seq = Num(item)
        BY <1>0, <2>2 DEF Num
      <4>3. client' = client /\ gaps' = IF item.kind = "gap" THEN gaps + 1 ELSE gaps
        BY <1>2, <2>5 DEF Read
      <4>4. /\ lastSeq' = IF item.kind # "gap" /\ item.seq > lastSeq THEN item.seq ELSE lastSeq
            /\ shown' = IF lastSeq' > lastSeq THEN Append(shown, item.seq) ELSE shown
        BY <1>2, <2>5 DEF Read
      <4> QED
        BY <1>0, <2>1, <2>2, <4>1, <4>2, <4>3, <4>4
    <3>2. /\ \A n \in Range(shown) : n \in Range(shown')
          /\ Num(item) > lastSeq => Num(item) \in Range(shown')
      <4>1. CASE Num(item) > lastSeq
        <5>1. /\ Len(shown) \in Nat /\ DOMAIN shown = 1..Len(shown) /\ DOMAIN shown' = 1..(Len(shown) + 1)
              /\ shown'[Len(shown) + 1] = Num(item) /\ \A i \in 1..Len(shown) : shown'[i] = shown[i]
          BY <1>0, <2>2, <3>1, <4>1, AppendProperties, LenProperties
        <5> QED
          BY <5>1 DEF Range
      <4>2. CASE ~(Num(item) > lastSeq)
        BY <3>1, <4>2
      <4> QED
        BY <4>1, <4>2
    <3>3. \A k \in 1..read' : k \in 1..read \/ k = read + 1
      BY <1>0, <2>1
    <3>4. \A k \in 1..read' : Num(wire'[k]) > 0 => Num(wire'[k]) \in Range(shown')
      BY <1>1, <2>1, <2>3, <3>2, <3>3
    <3>5. lastSeq' = 0 \/ \E k \in 1..read' : Num(wire'[k]) = lastSeq'
      BY <1>0, <1>1, <2>1, <2>2, <3>1
    <3>6. gaps' = 0 => \A k \in 1..read' : wire'[k].kind # "gap"
      BY <1>0, <1>1, <2>1, <3>1, <3>3
    <3> QED
      BY <3>1, <3>4, <3>5, <3>6 DEF ReadIsShown
  <2> QED
    BY <2>4, <2>5
<1>3. CASE WriterWrite
  <2>1. /\ wire' = Append(wire, hand) /\ stage # "returned"
        /\ UNCHANGED <<client, read, lastSeq, gaps, failed, shown>>
    BY <1>3 DEF WriterWrite, reader
  <2>2. \A k \in 1..read : wire'[k] = wire[k]
    BY <1>0, <2>1, AppendProperties DEF StreamTypes
  <2> QED
    BY <1>1, <2>1, <2>2 DEF ReadIsShown
<1>4. CASE Replay
  BY <1>4 DEF Replay, ReadIsShown
<1>5. CASE EndOfStream
  <2>1. /\ client = "reading" /\ read = Len(wire) /\ stage = "returned"
        /\ client' = IF gaps > 0 /\ ~failed THEN "recovering" ELSE "done"
        /\ UNCHANGED <<stage, wire, read, lastSeq, gaps, failed, shown>>
    BY <1>5 DEF EndOfStream, emitter
  <2> QED
    BY <1>0, <1>1, <2>1 DEF ReadIsShown
<1>6. ASSUME UNCHANGED <<client, wire, read, lastSeq, gaps, failed, shown>>,
             stage = "returned" => stage' = "returned",
             ~cut' => ~cut
      PROVE  ReadIsShown'
  BY <1>1, <1>6 DEF ReadIsShown
<1>7. CASE EmitStep
  <2>1. UNCHANGED <<wire, reader>> /\ stage # "returned"
    BY <1>7 DEF EmitStep, Emit, EmitGap, EmitEvent, FinalGap, Return
  <2>2. ~cut' => ~cut
    BY <1>7 DEF EmitStep, Emit, EmitGap, EmitEvent, FinalGap, Return
  <2> QED
    BY <1>6, <2>1, <2>2 DEF reader
<1>8. CASE OtherRecords \/ WriterTake \/ WriterFails \/ ContextEnds \/ Terminated \/ Exhausted
           \/ UNCHANGED streamVars
  <2>1. UNCHANGED <<client, wire, read, lastSeq, gaps, failed, shown, stage>> /\ (~cut' => ~cut)
    BY <1>8 DEF OtherRecords, WriterTake, WriterFails, ContextEnds, Terminated, Exhausted, streamVars,
                reader, emitter
  <2> QED
    BY <1>6, <2>1
<1> QED
  BY <1>2, <1>3, <1>4, <1>5, <1>7, <1>8 DEF StreamNext, ClientStep

-----------------------------------------------------------------------------
StreamInv == StreamTypes /\ NumsRecorded /\ PipeOrdered /\ ShownInv /\ Handover /\ NothingLost /\ ReadIsShown

LEMMA StreamInvInit == StreamInit => StreamInv
<1> SUFFICES ASSUME StreamInit PROVE StreamInv
  OBVIOUS
<1>1. ShownInv
  BY DEF StreamInit, ShownInv, ShownToLastSeq, ShownContiguous
<1>2. Handover /\ NothingLost /\ ReadIsShown
  BY DEF StreamInit, Handover, NothingLost, ReadIsShown, Nothing
<1> QED
  BY <1>1, <1>2, StreamTypesInit, PipeInit DEF StreamInv

LEMMA StreamInvariant == StreamSpec => []StreamInv
<1>1. StreamInv /\ [StreamNext]_streamVars => StreamInv'
  BY StreamTypesStep, PipeStep, ShownStep, HandoverStep, LostStep, ReadStep DEF StreamInv
<1> QED
  BY <1>1, StreamInvInit, PTL DEF StreamSpec

\* What the TUI shows of a run, live and replayed, has no hole and no repetition
\* and keeps the order, however large the run, the buffer and the others' share.
THEOREM ShownIsContiguous == StreamSpec => []ShownContiguous
<1>1. StreamInv => ShownContiguous
  BY DEF StreamInv, ShownInv
<1> QED
  BY <1>1, StreamInvariant, PTL

\* A client that neither met a gap nor lost the end of the stream has every event
\* that the run recorded.
THEOREM DoneHasSeenAll == StreamSpec => []NothingMissedSilently
<1>1. StreamInv => NothingMissedSilently
  <2> SUFFICES ASSUME StreamInv, client = "done", ~cut, ~failed, NEW n \in mine
               PROVE  n \in Range(shown)
    BY DEF NothingMissedSilently
  <2>1. /\ read = Len(wire) /\ gaps = 0 /\ \A k \in 1..read : wire[k].kind # "gap"
        /\ \A k \in 1..read : Num(wire[k]) > 0 => Num(wire[k]) \in Range(shown)
    BY DEF StreamInv, ReadIsShown
  <2>2. dropped = 0 /\ buffer = <<>> /\ hand = Nothing /\ event = Nothing
    BY DEF StreamInv, ReadIsShown, Handover
  <2>3. NoGap
    BY <2>1, <2>2 DEF NoGap, HasGap, Nothing
  <2>4. OnItsWay(n) /\ n \in Nat /\ n > 0
    BY <2>2, <2>3 DEF StreamInv, NothingLost, StreamTypes
  <2>5. Holds(wire, n)
    BY <2>2, <2>4 DEF OnItsWay, Holds, Nothing, Num
  <2> QED
    BY <2>1, <2>4, <2>5 DEF Holds
<1> QED
  BY <1>1, StreamInvariant, PTL
=============================================================================
