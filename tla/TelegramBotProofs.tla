-------------------------- MODULE TelegramBotProofs ---------------------------
(***************************************************************************)
(* Proofs about the Telegram adapter, for any number of updates, faults,   *)
(* late runs and restarts.                                                 *)
(***************************************************************************)
EXTENDS TelegramBot, SequenceTheorems, TLAPS

-----------------------------------------------------------------------------
(* The batch: the updates that the poller still has are consecutive ones   *)
(* that the user has sent, and it has one whenever it is not polling.      *)
Consecutive(b, n) == \A i \in 1..Len(b) : b[i] = b[1] + i - 1 /\ b[i] <= n

Idle == {"poll", "boot"}

BatchOK ==
    /\ poller \in Idle <=> batch = <<>>
    /\ Consecutive(batch, Len(kind))

StateTypes ==
    /\ offset \in 1..(MaxUpdates + 1) /\ pending \in 0..MaxUpdates
    /\ disk \in [offset : 1..(MaxUpdates + 1), pending : 0..MaxUpdates]
    /\ faults \in 0..MaxFaults

LEMMA BatchSteps ==
    ASSUME NEW b \in Seq(Updates), NEW n \in Nat, b # <<>>, Consecutive(b, n)
    PROVE  /\ Head(b) \in Updates /\ Head(b) <= n
           /\ Tail(b) \in Seq(Updates) /\ Consecutive(Tail(b), n)
           /\ Len(b) = 1 <=> Tail(b) = <<>>
           /\ Tail(b) # <<>> => Head(Tail(b)) = Head(b) + 1
<1> USE DEF Updates
<1>0. Len(b) \in Nat /\ Len(b) # 0 /\ b \in [1..Len(b) -> Updates]
  BY EmptySeq, LenProperties
<1>1. Head(b) = b[1] /\ 1 \in 1..Len(b) /\ Len(b) \in Nat /\ b[1] \in Updates
  <2>1. 1 \in 1..Len(b) /\ Len(b) \in Nat
    BY <1>0
  <2>2. b[1] \in Updates
    BY <1>0, <2>1
  <2> QED
    BY <2>1, <2>2
<1>2. Head(b) \in Updates /\ Head(b) <= n
  BY <1>1 DEF Consecutive
<1>3. Tail(b) \in Seq(Updates) /\ Len(Tail(b)) = Len(b) - 1
      /\ \A i \in 1..Len(Tail(b)) : Tail(b)[i] = b[i + 1]
  OBVIOUS
<1>4. ASSUME NEW i \in 1..Len(Tail(b))
      PROVE  Tail(b)[i] = Tail(b)[1] + i - 1 /\ Tail(b)[i] <= n
  <2>1. i \in Nat /\ 1 \in 1..Len(Tail(b)) /\ i + 1 \in 1..Len(b) /\ 2 \in 1..Len(b)
    BY <1>1, <1>3, <1>4
  <2>2. Tail(b)[i] = b[i + 1] /\ Tail(b)[1] = b[2]
    BY <1>3, <2>1
  <2>3. b[i + 1] = b[1] + (i + 1) - 1 /\ b[i + 1] <= n /\ b[2] = b[1] + 2 - 1
    BY <2>1 DEF Consecutive
  <2> QED
    BY <2>1, <2>2, <2>3, <1>1, SMTT(30)
<1>5. Len(b) = 1 <=> Tail(b) = <<>>
  <2>1. Len(Tail(b)) = 0 <=> Tail(b) = <<>>
    BY <1>3, EmptySeq
  <2> QED
    BY <1>1, <1>3, <2>1
<1>6. ASSUME Tail(b) # <<>> PROVE Head(Tail(b)) = Head(b) + 1
  <2>1. 2 \in 1..Len(b) /\ Head(Tail(b)) = b[2]
    BY <1>1, <1>3, <1>6
  <2>2. b[2] = b[1] + 2 - 1
    BY <2>1 DEF Consecutive
  <2> QED
    BY <2>1, <2>2, <1>1
<1> QED
  BY <1>2, <1>3, <1>4, <1>5, <1>6 DEF Consecutive

\* Whatever is saved, the state keeps its types.
LEMMA SaveTypes ==
    ASSUME StateTypes, NEW o \in 1..(MaxUpdates + 1), NEW p \in 0..MaxUpdates, Save(o, p)
    PROVE  StateTypes'
BY BoundsAssumption DEF StateTypes, Save, Fault

\* An update that is being handled is one the user has sent, and so is the next.
LEMMA Handled ==
    ASSUME TypeOK, BatchOK, poller \notin Idle
    PROVE  /\ Update \in Updates /\ Update <= Len(kind) /\ Len(kind) \in Nat
           /\ Tail(batch) \in Seq(Updates) /\ Consecutive(Tail(batch), Len(kind))
           /\ Len(batch) = 1 <=> Tail(batch) = <<>>
           /\ Tail(batch) # <<>> => Head(Tail(batch)) = Update + 1
           /\ Later(Update) \in 1..(MaxUpdates + 1)
<1>1. Len(kind) \in Nat /\ batch # <<>> /\ batch \in Seq(Updates)
      /\ Consecutive(batch, Len(kind))
  BY DEF TypeOK, BatchOK
<1>2. /\ Update \in Updates /\ Update <= Len(kind)
      /\ Tail(batch) \in Seq(Updates) /\ Consecutive(Tail(batch), Len(kind))
      /\ Len(batch) = 1 <=> Tail(batch) = <<>>
      /\ Tail(batch) # <<>> => Head(Tail(batch)) = Update + 1
  BY <1>1, BatchSteps DEF Update
<1>3. Later(Update) \in 1..(MaxUpdates + 1)
  <2>1. offset \in 1..(MaxUpdates + 1)
    BY DEF TypeOK
  <2> QED
    BY <1>2, <2>1, BoundsAssumption, SMTT(30) DEF Later, Updates
<1> QED
  BY <1>1, <1>2, <1>3

LEMMA NextTypes ==
    ASSUME TypeOK, BatchOK, poller \notin Idle, NextUpdate, UNCHANGED kind
    PROVE  /\ batch' \in Seq(Updates) /\ poller' \in {"poll", "update"}
           /\ seen' \in 0..MaxUpdates /\ awaited' \in 0..MaxUpdates /\ BatchOK'
<1>1. Consecutive(batch, Len(kind))' 
  BY Handled DEF NextUpdate, Consecutive
<1> QED
  BY <1>1, Handled, BoundsAssumption DEF NextUpdate, BatchOK, Idle, Nobody

-----------------------------------------------------------------------------
TypeInv == TypeOK /\ BatchOK

\* A question that a run asks, or that ends, leaves all else as it is.
Elsewhere == UNCHANGED <<kind, gateway, state, polling, handlers, bounds, missed>>

LEMMA Questions ==
    ASSUME UNCHANGED vars \/ QuestionEnds \/ \E u \in Updates : RunAsks(u)
    PROVE  Elsewhere
BY DEF vars, world, QuestionEnds, RunAsks, Elsewhere

\* What the steps of the poller and of the goroutines leave of the types.
LEMMA TypeStep == TypeInv /\ [Next]_vars => TypeInv'
<1> USE DEF Updates, Kinds, Nobody
<1> SUFFICES ASSUME TypeOK, BatchOK, [Next]_vars PROVE TypeOK' /\ BatchOK'
  BY DEF TypeInv
<1>0. StateTypes
  BY DEF TypeOK, StateTypes

<1>1. CASE UserSends
  <2>1. kind' \in Seq(Kinds) /\ Len(kind') <= MaxUpdates /\ Len(kind) <= Len(kind')
    BY <1>1, BoundsAssumption DEF UserSends, TypeOK
  <2>2. TypeOK'
    BY <1>1, <2>1 DEF UserSends, TypeOK, gateway, state, polling, handlers, bounds
  <2>3. Consecutive(batch, Len(kind))'
    <3>1. Len(kind) \in Nat /\ Len(kind') \in Nat /\ batch' = batch
      BY <1>1, <2>1, LenProperties DEF UserSends, TypeOK, polling
    <3>2. batch \in [1..Len(batch) -> Updates]
      BY LenProperties DEF TypeOK
    <3>3. \A i \in 1..Len(batch) : batch[i] \in Nat
      BY <3>2
    <3> QED
      BY <3>1, <3>3, <2>1 DEF BatchOK, Consecutive
  <2> QED
    BY <1>1, <2>2, <2>3 DEF UserSends, BatchOK, polling
<1>2. CASE Poll
  <2>1. offset \in Nat /\ offset >= 1 /\ Len(kind) \in Nat /\ offset <= Len(kind)
        /\ Len(kind) <= MaxUpdates
    BY <1>2 DEF Poll, TypeOK
  <2> DEFINE n == Len(kind) + 1 - offset
  <2>2. n \in Nat /\ n >= 1 /\ \A i \in 1..n : offset + i - 1 \in Updates /\ offset + i - 1 <= Len(kind)
    BY <2>1, BoundsAssumption
  <2>3. batch' \in [1..n -> Updates] /\ \A i \in 1..n : batch'[i] = offset + i - 1
    BY <1>2, <2>2 DEF Poll
  <2>4. kind' = kind /\ poller' = "update"
    BY <1>2 DEF Poll, world
  <2> HIDE DEF n
  <2>5. batch' \in Seq(Updates) /\ Len(batch') = n
    <3>1. batch' \in Seq(Updates)
      BY <2>2, <2>3, SeqDef
    <3>2. Len(batch') \in Nat /\ 1..Len(batch') = 1..n
      BY <2>3, <3>1, LenProperties
    <3> QED
      BY <2>2, <3>1, <3>2
  <2>6. Consecutive(batch, Len(kind))'
    BY <2>1, <2>2, <2>3, <2>4, <2>5 DEF Consecutive
  <2>7. BatchOK'
    BY <2>2, <2>4, <2>5, <2>6, EmptySeq DEF BatchOK, Idle
  <2> QED
    BY <1>2, <2>5, <2>7 DEF Poll, TypeOK, gateway, state, handlers, bounds, world
<1>3. CASE CancelCommand
  <2>1. poller \notin Idle /\ NextUpdate /\ kind' = kind
    BY <1>3 DEF CancelCommand, At, Idle, world
  <2>2. pending \in 0..MaxUpdates /\ Later(Update) \in 1..(MaxUpdates + 1) /\ Update \in Updates
    BY <2>1, Handled DEF TypeOK
  <2>3. StateTypes'
    BY <1>0, <1>3, <2>2, SaveTypes DEF CancelCommand, Ack
  <2>4. cancelled' \subseteq Updates /\ missed' \subseteq Updates
    BY <1>3, <2>2, SMTT(30) DEF CancelCommand, TypeOK, handlers
  <2> QED
    BY <1>3, <2>1, <2>3, <2>4, NextTypes
    DEF CancelCommand, TypeOK, StateTypes, world, gateway, handlers
<1>4. CASE LockedCommand
  <2>1. poller \notin Idle /\ NextUpdate /\ kind' = kind
    BY <1>4 DEF LockedCommand, At, Idle, world
  <2>2. pending \in 0..MaxUpdates /\ Later(Update) \in 1..(MaxUpdates + 1) /\ Update \in Updates
    BY <2>1, Handled DEF TypeOK
  <2>3. StateTypes'
    BY <1>0, <1>4, <2>2, SaveTypes DEF LockedCommand, Ack
  <2>4. cancelled' \subseteq Updates /\ missed' \subseteq Updates
    BY <1>4, <2>2 DEF LockedCommand, TypeOK, handlers
  <2> QED
    BY <1>4, <2>1, <2>3, <2>4, NextTypes
    DEF LockedCommand, TypeOK, StateTypes, world, gateway, handlers
<1>5. CASE AnswerQuestion
  <2>1. poller \notin Idle /\ NextUpdate /\ kind' = kind
    BY <1>5 DEF AnswerQuestion, At, Idle
  <2>2. pending \in 0..MaxUpdates /\ Later(Update) \in 1..(MaxUpdates + 1) /\ Update \in Updates
    BY <2>1, Handled DEF TypeOK
  <2>3. StateTypes'
    <3>1. CASE Ack
      BY <1>0, <2>2, <3>1, SaveTypes DEF Ack
    <3>2. CASE (Fault \/ UNCHANGED faults) /\ UNCHANGED state
      BY <1>0, <3>2, BoundsAssumption DEF Fault, state, StateTypes
    <3> QED
      BY <1>5, <3>1, <3>2 DEF AnswerQuestion
  <2>5. question' \in 0..MaxUpdates /\ questions' = questions
    BY <1>5, BoundsAssumption DEF AnswerQuestion, AnswerIsTaken, AnswerIsRefused, TypeOK
  <2>4. cancelled' \subseteq Updates /\ missed' \subseteq Updates
    BY <1>5, <2>2 DEF AnswerQuestion, TypeOK, handlers
  <2> QED
    BY <1>5, <2>1, <2>3, <2>4, <2>5, NextTypes
    DEF AnswerQuestion, TypeOK, StateTypes, gateway, handlers
<1>6. CASE MarkLatest
  <2>1. TypeOK'
    BY <1>6, BoundsAssumption, SMTT(30) DEF MarkLatest, At, TypeOK, world, gateway, state, polling, handlers, bounds
  <2> QED
    BY <1>6, <2>1 DEF MarkLatest, At, BatchOK, Idle, world, gateway, state, polling, handlers, bounds
<1>7. CASE CancelActive
  <2>1. TypeOK'
    <3>1. awaited' = current /\ cancelled' \subseteq cancelled \union {current} /\ poller' = "await"
      BY <1>7 DEF CancelActive
    <3>2. cancelled' \subseteq Updates /\ awaited' \in 0..MaxUpdates
      BY <1>7 DEF CancelActive, TypeOK
    <3> QED
      BY <1>7, <3>1, <3>2 DEF CancelActive, TypeOK, world, gateway, state, bounds
  <2> QED
    BY <1>7, <2>1 DEF CancelActive, At, BatchOK, Idle, world, gateway, state, polling, handlers, bounds
<1>8. CASE RunDone
  <2>1. lates' \in 0..MaxLate
    BY <1>8, BoundsAssumption DEF RunDone, TypeOK
  <2>2. TypeOK'
    BY <1>8, <2>1 DEF RunDone, TypeOK, world, gateway, state, polling, handlers, bounds
  <2> QED
    BY <1>8, <2>2 DEF RunDone, BatchOK, Idle, world, gateway, state, polling, handlers, bounds
<1>9. CASE ReadChat
  <2>1. TypeOK'
    BY <1>9, BoundsAssumption DEF ReadChat, At, TypeOK, world, gateway, state, polling, handlers, bounds
  <2> QED
    BY <1>9, <2>1 DEF ReadChat, At, BatchOK, Idle, world, gateway, state, polling, handlers, bounds
<1>10. CASE WriteChat
  <2>1. StateTypes'
    BY <1>0, <1>10, SaveTypes DEF WriteChat, TypeOK
  <2> QED
    BY <1>10, <2>1 DEF WriteChat, TypeOK, StateTypes, BatchOK, Idle, world, gateway, state, polling, handlers, bounds
<1>11. CASE Admit
  <2>1. Update \in Updates
    BY <1>11, Handled DEF Admit, Idle
  <2> QED
    BY <1>11, <2>1 DEF Admit, TypeOK, BatchOK, Idle, world, gateway, state, polling, handlers, bounds
<1>12. CASE AdmitFails
  <2>1. poller \notin Idle /\ NextUpdate /\ kind' = kind /\ Update \in Updates
    BY <1>12, Handled DEF AdmitFails, Idle, world
  <2>2. StateTypes'
    BY <1>0, <1>12, <2>1, Handled, SaveTypes, BoundsAssumption DEF AdmitFails, StateTypes, state, Fault
  <2> QED
    BY <1>12, <2>1, <2>2, NextTypes
    DEF AdmitFails, TypeOK, StateTypes, world, gateway, state, polling, handlers, bounds
<1>13. CASE SkipDuplicate
  <2>1. poller \notin Idle /\ NextUpdate /\ kind' = kind /\ Update \in Updates
    BY <1>13, Handled DEF SkipDuplicate, Idle, world
  <2>2. StateTypes'
    BY <1>0, <1>13, <2>1, Handled, SaveTypes, BoundsAssumption, SMTT(30) DEF SkipDuplicate, StateTypes, state, Fault
  <2> QED
    BY <1>13, <2>1, <2>2, NextTypes
    DEF SkipDuplicate, TypeOK, StateTypes, world, gateway, state, polling, handlers, bounds
<1>14. CASE SavePending
  <2>1. poller \notin Idle /\ kind' = kind /\ Update \in Updates
    BY <1>14, Handled DEF SavePending, Idle, world
  <2>2. StateTypes'
    BY <1>0, <1>14, <2>1, BoundsAssumption DEF SavePending, StateTypes, Fault
  <2>3. CASE poller' = "ack" /\ UNCHANGED <<input, batch, seen, awaited, faults>>
    BY <1>14, <2>1, <2>2, <2>3 DEF SavePending, TypeOK, StateTypes, BatchOK, Idle, handlers, world
  <2>4. CASE NextUpdate /\ (UNCHANGED input \/ input' = [input EXCEPT ![Update] = "closed"])
    BY <1>14, <2>1, <2>2, <2>4, NextTypes DEF SavePending, TypeOK, StateTypes, handlers, world
  <2> QED
    BY <1>14, <2>3, <2>4 DEF SavePending
<1>15. CASE AckAndRun
  <2>1. poller \notin Idle /\ NextUpdate /\ kind' = kind /\ Update \in Updates
    BY <1>15, Handled DEF AckAndRun, Idle, world
  <2>2. StateTypes'
    BY <1>0, <1>15, <2>1, Handled, SaveTypes DEF AckAndRun, Ack, StateTypes
  <2> QED
    BY <1>15, <2>1, <2>2, NextTypes
    DEF AckAndRun, TypeOK, StateTypes, gateway, world
<1>16. CASE Boot
  <2>1. StateTypes' /\ kind' = kind
    BY <1>0, <1>16, BoundsAssumption DEF Boot, StateTypes, state, world, Fault
  <2>2. TypeOK'
    BY <1>16, <2>1, EmptySeq, BoundsAssumption DEF Boot, TypeOK, StateTypes, gateway, polling, handlers, world
  <2> QED
    BY <1>16, <2>1, <2>2, EmptySeq DEF Boot, BatchOK, Idle, Consecutive, polling
<1>17. CASE BootFails
  <2>1. StateTypes' /\ kind' = kind
    BY <1>0, <1>17, BoundsAssumption DEF BootFails, StateTypes, state, world, Fault
  <2>2. TypeOK'
    BY <1>17, <2>1, EmptySeq, BoundsAssumption DEF BootFails, TypeOK, StateTypes, gateway, polling, handlers, world
  <2> QED
    BY <1>17, <2>1, <2>2, EmptySeq DEF BootFails, BatchOK, Idle, Consecutive, polling
<1>18. CASE Crash
  <2>1. StateTypes' /\ kind' = kind
    BY <1>0, <1>18, BoundsAssumption DEF Crash, StateTypes, state, world, Fault
  <2>2. TypeOK'
    BY <1>18, <2>1, EmptySeq, BoundsAssumption DEF Crash, TypeOK, StateTypes, gateway, polling, handlers, world
  <2> QED
    BY <1>18, <2>1, <2>2, EmptySeq DEF Crash, BatchOK, Idle, Consecutive, polling
<1>19. ASSUME NEW u \in Updates, HandlerStep(u) PROVE TypeOK' /\ BatchOK'
  <2>1. StateTypes'
    <3>1. u \in 0..MaxUpdates /\ 0 \in 0..MaxUpdates /\ offset \in 1..(MaxUpdates + 1)
      BY BoundsAssumption DEF TypeOK
    <3> QED
      BY <1>0, <1>19, <3>1, SaveTypes, BoundsAssumption
      DEF HandlerStep, TakenAsAnswer, Lock, Register, Check, Recheck, GiveUp, Start, RunSaves, RunReturns, Stop, Drop, End, ClearPending, StateTypes, Fault, state
  <2>2. pc' \in [Updates -> {"none", "lock", "register", "check", "recheck", "start", "run",
                          "stop", "drop", "end", "done"}]
    BY <1>19, SMTT(30) DEF TypeOK, HandlerStep, TakenAsAnswer, Lock, Register, Check, Recheck, GiveUp, Start, RunSaves, RunReturns, Stop, Drop, End, Goto
  <2>5. owner' \in 0..MaxUpdates /\ current' \in 0..MaxUpdates
    <3>1. u \in 0..MaxUpdates /\ 0 \in 0..MaxUpdates
          /\ owner \in 0..MaxUpdates /\ current \in 0..MaxUpdates
      BY BoundsAssumption DEF TypeOK
    <3>2. owner' \in {owner, u, 0} /\ current' \in {current, u, 0}
      BY <1>19 DEF HandlerStep, TakenAsAnswer, Lock, Register, Check, Recheck, GiveUp, Start, RunSaves, RunReturns, Stop, Drop, End
    <3> QED
      BY <3>1, <3>2
  <2>3. requests' \subseteq Updates /\ cancelled' \subseteq Updates
        /\ input' = input
    BY <1>19 DEF TypeOK, HandlerStep, TakenAsAnswer, Lock, Register, Check, Recheck, GiveUp, Start, RunSaves, RunReturns, Stop, Drop, End, gateway
  <2>6. question' \in 0..MaxUpdates
    <3>1. question' \in {question, 0}
      BY <1>19 DEF HandlerStep, TakenAsAnswer, AnswerIsTaken, AnswerIsRefused, Lock, Register, Check, Recheck, GiveUp, Start, RunSaves, RunReturns, Stop, Drop, End, HandlerFrame, world
    <3> QED
      BY <3>1, BoundsAssumption DEF TypeOK
  <2>4. UNCHANGED <<kind, questions, polling, seq, lates, crashes, missed>>
    BY <1>19 DEF world, HandlerStep, TakenAsAnswer, Lock, Register, Check, Recheck, GiveUp, Start, RunSaves, RunReturns, Stop, Drop, End, HandlerFrame
  <2> QED
    BY <2>1, <2>2, <2>3, <2>4, <2>5, <2>6 DEF TypeOK, StateTypes, BatchOK, polling
<1>20. ASSUME NEW u \in Updates, GatewayStep(u) PROVE TypeOK' /\ BatchOK'
  <2>1. CASE GatewayBegins(u)
    BY <2>1 DEF TypeOK, BatchOK, GatewayBegins, world, state, polling, handlers, bounds
  <2>2. CASE GatewayEnds(u)
    BY <2>2 DEF TypeOK, BatchOK, GatewayEnds, world, state, polling, handlers, bounds
  <2>3. CASE QuestionWithdrawn(u)
    <3>1. question' \in 0..MaxUpdates /\ questions' = questions /\ Elsewhere
      BY <2>3, BoundsAssumption, Questions DEF QuestionWithdrawn, QuestionEnds
    <3> QED
      BY <3>1 DEF Elsewhere, TypeOK, BatchOK, gateway, state, polling, handlers, bounds
  <2> QED
    BY <1>20, <2>1, <2>2, <2>3 DEF GatewayStep
<1>21. CASE UNCHANGED vars
  BY <1>21 DEF TypeOK, BatchOK, vars, world, gateway, state, polling, handlers, bounds
<1>22. CASE QuestionEnds \/ \E u \in Updates : RunAsks(u)
  <2>1. question' \in 0..MaxUpdates /\ questions' \in 0..MaxQuestions
    <3>1. CASE QuestionEnds
      BY <3>1, BoundsAssumption DEF QuestionEnds, TypeOK
    <3>2. CASE \E u \in Updates : RunAsks(u)
      <4>1. question' \in Updates /\ questions < MaxQuestions /\ questions' = questions + 1
        BY <3>2 DEF RunAsks
      <4> QED
        BY <4>1, BoundsAssumption DEF TypeOK
    <3> QED
      BY <1>22, <3>1, <3>2
  <2>2. Elsewhere
    BY <1>22, Questions
  <2> QED
    BY <2>1, <2>2 DEF Elsewhere, TypeOK, BatchOK, gateway, state, polling, handlers, bounds
<1> QED
  BY <1>1, <1>2, <1>3, <1>4, <1>5, <1>6, <1>7, <1>8, <1>9, <1>10, <1>11, <1>12, <1>13, <1>14, <1>15, <1>16, <1>17, <1>18, <1>19, <1>20, <1>21, <1>22 DEF Next, PollerStep

\* Every variable keeps its type, the batch that the poller has from getUpdates and
\* the state file included.
THEOREM TypeCorrect == Spec => []TypeOK
<1>1. Init => TypeInv
  BY BoundsAssumption, EmptySeq
  DEF Init, TypeInv, TypeOK, BatchOK, Consecutive, Idle, Updates, Kinds, Nobody
<1>2. TypeInv => TypeOK
  BY DEF TypeInv
<1> QED
  BY <1>1, <1>2, TypeStep, PTL DEF Spec

-----------------------------------------------------------------------------
(* The chat's mutex and its registered cancel.  A goroutine past its lock  *)
(* has the mutex, and one that has registered is the one a new prompt      *)
(* finds: so the prompt that comes next cancels it, or makes it find       *)
(* itself superseded before it starts.                                     *)
Held == {"register", "check", "recheck", "start", "run", "stop", "drop", "end"}
Registered == {"check", "recheck", "start", "run", "stop"}

MutexOK ==
    \A u \in Updates :
        /\ pc[u] \in Held => owner = u
        /\ pc[u] \in Registered => current = u

RunsInv == MutexOK /\ OldNeverRuns

\* What no step of the poller but four, and none of the gateway, touches.
Quiet ==
    /\ UNCHANGED <<pc, seq, owner, current, latest>>
    /\ cancelled \subseteq cancelled'
    /\ poller = "cancel" => poller' = "cancel"

LEMMA QuietRuns == RunsInv /\ Quiet => RunsInv'
BY DEF RunsInv, Quiet, MutexOK, OldNeverRuns, Superseded

LEMMA QuietSteps ==
    ASSUME \/ UserSends \/ Poll \/ LockedCommand \/ AnswerQuestion \/ CancelCommand \/ RunDone \/ ReadChat
           \/ WriteChat \/ Admit \/ AdmitFails \/ SkipDuplicate \/ SavePending \/ Boot \/ BootFails
           \/ Elsewhere \/ \E u \in Updates : GatewayStep(u)
    PROVE  Quiet
<1>1. CASE UserSends \/ Poll \/ LockedCommand \/ AnswerQuestion \/ CancelCommand \/ RunDone
  BY <1>1 DEF UserSends, Poll, LockedCommand, AnswerQuestion, CancelCommand, RunDone, NextUpdate,
              At, Quiet, polling, handlers
<1>2. CASE ReadChat \/ WriteChat \/ Admit \/ AdmitFails \/ SkipDuplicate
  BY <1>2 DEF ReadChat, WriteChat, Admit, AdmitFails, SkipDuplicate, NextUpdate, Quiet, handlers
<1>3. CASE SavePending \/ Boot \/ BootFails \/ Elsewhere
  BY <1>3 DEF SavePending, Boot, BootFails, NextUpdate, Quiet, polling, handlers, Elsewhere
<1>4. CASE \E u \in Updates : GatewayStep(u)
  BY <1>4 DEF GatewayStep, GatewayBegins, GatewayEnds, QuestionWithdrawn, QuestionEnds, Quiet, polling, handlers
<1> QED
  BY <1>1, <1>2, <1>3, <1>4

LEMMA RunsStep == TypeInv /\ RunsInv /\ [Next]_vars => RunsInv'
<1> SUFFICES ASSUME TypeOK, BatchOK, MutexOK, OldNeverRuns, [Next]_vars
             PROVE  MutexOK' /\ OldNeverRuns'
  BY DEF TypeInv, RunsInv
<1> USE DEF Updates, Nobody, Held, Registered
<1>1. CASE MarkLatest \/ CancelActive
  BY <1>1 DEF MarkLatest, CancelActive, At, MutexOK, OldNeverRuns, handlers, Superseded
<1>2. CASE AckAndRun
  <2>1. Update \in Updates
    BY <1>2, Handled DEF AckAndRun, Idle
  <2>2. pc'[Update] = "lock" /\ \A v \in Updates : v # Update => pc'[v] = pc[v] /\ seq'[v] = seq[v]
    BY <1>2, <2>1 DEF AckAndRun, TypeOK
  <2>3. poller # "cancel" /\ UNCHANGED <<latest, cancelled, owner, current>>
    BY <1>2 DEF AckAndRun
  <2> QED
    BY <2>2, <2>3 DEF MutexOK, OldNeverRuns, Superseded
<1>3. CASE Crash
  BY <1>3 DEF Crash, MutexOK, OldNeverRuns
<1>4. ASSUME NEW u \in Updates, HandlerStep(u) PROVE MutexOK' /\ OldNeverRuns'
  <2>1. UNCHANGED <<poller, latest, seq>>
    BY <1>4 DEF HandlerStep, TakenAsAnswer, Lock, Register, Check, Recheck, GiveUp, Start, RunSaves, RunReturns, Stop, Drop, End, HandlerFrame, polling
  <2>2. \A v \in Updates : v # u => pc'[v] = pc[v]
    BY <1>4 DEF HandlerStep, TakenAsAnswer, Lock, Register, Check, Recheck, GiveUp, Start, RunSaves, RunReturns, Stop, Drop, End, Goto, HandlerFrame, TypeOK
  <2>3. CASE TakenAsAnswer(u)
    BY <2>1, <2>2, <2>3 DEF TakenAsAnswer, Goto, MutexOK, OldNeverRuns, Superseded, TypeOK
  <2>10. CASE Lock(u)
    <3>1. pc'[u] \in {"drop", "register"} /\ owner = 0 /\ owner' = u /\ UNCHANGED <<current, cancelled>>
      BY <2>10 DEF Lock, Goto, TypeOK
    <3>2. \A v \in Updates : v # 0 /\ pc[v] \notin Held
      BY <3>1, BoundsAssumption DEF MutexOK
    <3>3. MutexOK'
      BY <2>2, <3>1, <3>2 DEF MutexOK
    <3> QED
      BY <2>1, <2>2, <3>1, <3>3 DEF OldNeverRuns, Superseded
  <2>4. CASE Register(u)
    <3>1. pc[u] = "register" /\ pc'[u] = "check" /\ current' = u /\ UNCHANGED <<owner, cancelled>>
      BY <2>4 DEF Register, Goto, TypeOK
    <3>2. owner = u /\ \A v \in Updates : v # u => pc[v] \notin Held
      BY <3>1 DEF MutexOK
    <3>3. MutexOK'
      BY <2>2, <3>1, <3>2 DEF MutexOK
    <3> QED
      BY <2>1, <2>2, <3>1, <3>3 DEF OldNeverRuns, Superseded
  <2>9. CASE GiveUp(u)
    <3>1. pc'[u] = "end" /\ pc[u] \in {"check", "recheck"} /\ UNCHANGED <<owner, current, cancelled>>
      BY <2>9 DEF GiveUp, Goto, TypeOK
    <3> QED
      BY <2>1, <2>2, <3>1 DEF MutexOK, OldNeverRuns, Superseded
  <2>8. CASE Check(u) \/ Recheck(u)
    <3>1. pc'[u] \in {"drop", "recheck", "start"} /\ (pc'[u] = "start" => ~Superseded(u))
          /\ pc[u] \in {"check", "recheck"} /\ UNCHANGED <<owner, current, cancelled>>
      BY <2>8 DEF Check, Recheck, Goto, TypeOK
    <3> QED
      BY <2>1, <2>2, <3>1 DEF MutexOK, OldNeverRuns, Superseded
  <2>5. CASE Start(u) \/ RunSaves(u) \/ RunReturns(u)
    BY <2>1, <2>2, <2>5 DEF Start, RunSaves, RunReturns, Goto, MutexOK, OldNeverRuns, Superseded, TypeOK
  <2>6. CASE Stop(u) \/ Drop(u)
    BY <2>1, <2>2, <2>6, ZenonT(30) DEF Stop, Drop, Goto, MutexOK, OldNeverRuns, Superseded, TypeOK
  <2>7. CASE End(u)
    BY <2>1, <2>2, <2>7 DEF End, Goto, MutexOK, OldNeverRuns, Superseded, TypeOK
  <2> QED
    BY <1>4, <2>3, <2>4, <2>5, <2>6, <2>7, <2>8, <2>9, <2>10 DEF HandlerStep
<1> QED
  BY <1>1, <1>2, <1>3, <1>4, Questions, QuietSteps, QuietRuns DEF Next, PollerStep, RunsInv

\* Once markLatestInput has raised a chat's number and the older handlers are cancelled, no
\* superseded prompt goes on to run with a context that lives, wherever its goroutine
\* is between the mutex, its registration and its run.
THEOREM SupersededNeverRuns == Spec => []OldNeverRuns
<1>1. Init => TypeInv /\ RunsInv
  BY BoundsAssumption, EmptySeq
  DEF Init, TypeInv, TypeOK, BatchOK, Consecutive, Idle, Updates, Kinds, Nobody,
      RunsInv, MutexOK, OldNeverRuns, Held, Registered
<1>2. RunsInv => OldNeverRuns
  BY DEF RunsInv
<1> QED
  BY <1>1, <1>2, TypeStep, RunsStep, PTL DEF Spec

-----------------------------------------------------------------------------
(* The offset.  The updates behind the poller's own one are known to the   *)
(* gateway or counted as missed, whether they are acknowledged or not; the *)
(* offset is not ahead of the poller, and the file's not ahead of it.      *)
Known(v) == kind[v] = "prompt" => input[v] # "none" \/ v \in missed

AdmOK ==
    /\ offset <= Len(kind) + 1 /\ disk.offset <= offset
    /\ \A v \in Updates : v < offset => Known(v)
    /\ batch # <<>> => offset <= Update /\ \A v \in Updates : v < Update => Known(v)
    /\ poller \in {"skip", "save", "ack"} => input[Update] # "none"

\* A step of the poller's that stays with its update, and every step of another.
StaysPut ==
    /\ kind' = kind /\ batch' = batch /\ offset' = offset
    /\ disk'.offset \in {disk.offset, offset}
    /\ \A v \in Updates : Known(v) => Known(v)'
    /\ poller' \in {"skip", "save", "ack"} => input'[Update] # "none"

LEMMA StaysPutAdm == TypeInv /\ AdmOK /\ StaysPut => AdmOK'
<1> SUFFICES ASSUME TypeInv, AdmOK, StaysPut PROVE AdmOK'
  OBVIOUS
<1>1. offset \in Nat /\ disk.offset \in Nat /\ Update' = Update
  BY BoundsAssumption DEF TypeInv, TypeOK, StaysPut, Update
<1> QED
  BY <1>1 DEF StaysPut, AdmOK

\* A step that is done with its update.
Advances ==
    /\ poller \notin Idle /\ NextUpdate /\ kind' = kind
    /\ offset' \in {offset, Later(Update)}
    /\ disk'.offset \in {disk.offset, offset'}
    /\ \A v \in Updates : Known(v) \/ v = Update => Known(v)'

LEMMA AdvancesAdm == TypeInv /\ AdmOK /\ Advances => AdmOK'
<1> SUFFICES ASSUME TypeOK, BatchOK, AdmOK, Advances PROVE AdmOK'
  BY DEF TypeInv
<1> DEFINE U == Update
<1>1. /\ U \in Updates /\ U <= Len(kind) /\ Len(kind) \in Nat /\ U \in Nat
      /\ batch' # <<>> => Update' = U + 1
      /\ poller' \in {"poll", "update"} /\ batch # <<>> /\ kind' = kind
  <2>1. poller \notin Idle /\ NextUpdate /\ kind' = kind
    BY DEF Advances
  <2>2. U \in Updates /\ U <= Len(kind) /\ Len(kind) \in Nat /\ U \in Nat
    BY <2>1, Handled, BoundsAssumption DEF Updates
  <2>3. batch' = Tail(batch) /\ poller' \in {"poll", "update"} /\ batch # <<>>
    BY <2>1 DEF NextUpdate, BatchOK
  <2>4. Tail(batch) # <<>> => Head(Tail(batch)) = U + 1
    BY <2>1, Handled
  <2>5. Update' = Head(batch')
    BY DEF Update
  <2> QED
    BY <2>1, <2>2, <2>3, <2>4, <2>5
<1>2. offset \in Nat /\ disk.offset \in Nat /\ offset <= U /\ Later(U) = U + 1
  BY <1>1, BoundsAssumption DEF TypeOK, AdmOK, Later
<1>3. /\ offset' \in {offset, U + 1} /\ disk'.offset \in {disk.offset, offset'}
      /\ \A v \in Updates : v < U + 1 => Known(v)'
  <2>1. \A v \in Updates : v < U => Known(v)'
    BY <1>1 DEF AdmOK, Advances
  <2>2. \A v \in Updates : v < U + 1 => v < U \/ v = U
    BY <1>1, BoundsAssumption DEF Updates
  <2>3. \A v \in Updates : v = U => Known(v)'
    BY DEF Advances
  <2> QED
    BY <1>2, <2>1, <2>2, <2>3 DEF Advances
<1> HIDE DEF U
<1>4. offset' <= Len(kind') + 1 /\ disk'.offset <= offset' /\ offset' <= U + 1 /\ offset' \in Nat
  BY <1>1, <1>2, <1>3 DEF AdmOK
<1>5. \A v \in Updates : v < offset' => v < U + 1
  BY <1>1, <1>4, BoundsAssumption DEF Updates
<1> QED
  BY <1>1, <1>3, <1>4, <1>5 DEF AdmOK

LEMMA AdmStep == TypeInv /\ AdmOK /\ [Next]_vars => AdmOK'
<1> SUFFICES ASSUME TypeInv, AdmOK, [Next]_vars PROVE AdmOK'
  OBVIOUS
<1>0. TypeOK /\ BatchOK /\ (poller \notin Idle => Update \in Updates) /\ offset \in Nat
  BY Handled, BoundsAssumption DEF TypeInv, TypeOK
<1> USE DEF Idle
<1>1. CASE UserSends
  <2>1. /\ Len(kind) \in Nat /\ Len(kind') = Len(kind) + 1
        /\ \A v \in 1..Len(kind) : kind'[v] = kind[v]
    BY <1>0, <1>1 DEF UserSends, TypeOK, Kinds
  <2>2. UNCHANGED <<input, missed, batch, offset, disk, poller, Update>>
    BY <1>1 DEF UserSends, gateway, state, polling, Update
  <2>3. \A v \in Updates : v \in 1..Len(kind) /\ Known(v) => Known(v)'
    BY <2>1, <2>2 DEF Known
  <2>4. \A v \in Updates : v < offset \/ (batch # <<>> /\ v < Update) => v \in 1..Len(kind)
    <3>1. batch # <<>> => Update <= Len(kind) /\ Update \in Updates
      BY <1>0, Handled DEF BatchOK
    <3> QED
      BY <1>0, <2>1, <3>1, BoundsAssumption DEF AdmOK, Updates
  <2>5. offset <= Len(kind') + 1
    BY <1>0, <2>1 DEF AdmOK
  <2>6. \A v \in Updates : v < offset => Known(v)'
    BY <2>3, <2>4 DEF AdmOK
  <2>7. batch # <<>> => \A v \in Updates : v < Update => Known(v)'
    BY <2>3, <2>4 DEF AdmOK
  <2> QED
    BY <2>2, <2>5, <2>6, <2>7 DEF AdmOK
<1>2. CASE Poll
  <2>1. UNCHANGED <<kind, input, missed, offset, disk>> /\ poller' = "update"
    BY <1>2 DEF Poll, world, gateway, state
  <2>2. offset <= Len(kind) /\ Len(kind) \in Nat
    BY <1>0, <1>2 DEF Poll, TypeOK
  <2>3. Head(batch') = offset
    <3> DEFINE n == Len(kind) + 1 - offset
    <3>1. n \in Nat /\ 1 \in 1..n /\ batch' = [i \in 1..n |-> offset + i - 1]
      BY <1>0, <1>2, <2>2 DEF Poll
    <3> HIDE DEF n
    <3>2. Head(batch') = batch'[1] /\ batch'[1] = offset + 1 - 1
      BY <3>1
    <3> QED
      BY <1>0, <3>2
  <2> QED
    BY <1>0, <2>1, <2>2, <2>3 DEF AdmOK, Known, Update
<1>3. CASE CancelCommand \/ LockedCommand \/ AnswerQuestion
  <2>1. Advances
    BY <1>0, <1>3
    DEF CancelCommand, LockedCommand, AnswerQuestion, At, Ack, Save, Advances, Known, world, gateway, state
  <2> QED
    BY <2>1, AdvancesAdm
<1>4. CASE AdmitFails \/ SkipDuplicate \/ AckAndRun \/ (SavePending /\ NextUpdate)
  <2>1. ASSUME AdmitFails PROVE Advances
    BY <1>0, <2>1 DEF AdmitFails, Advances, Known, world, state, TypeOK
  <2>2. ASSUME SkipDuplicate PROVE Advances
    BY <1>0, <2>2 DEF SkipDuplicate, Save, Advances, Known, world, gateway, AdmOK
  <2>3. ASSUME AckAndRun PROVE Advances
    BY <1>0, <2>3 DEF AckAndRun, Ack, Save, Advances, Known, world, gateway, AdmOK
  <2>4. ASSUME SavePending /\ NextUpdate PROVE Advances
    <3>1. /\ UNCHANGED <<kind, offset, missed>> /\ poller = "save"
          /\ disk'.offset \in {disk.offset, offset'}
      BY <2>4 DEF SavePending, world
    <3>2. \A v \in Updates : input[v] # "none" => input'[v] # "none"
      BY <1>0, <2>4 DEF SavePending, TypeOK
    <3>3. input[Update] # "none"
      BY <3>1 DEF AdmOK
    <3> QED
      BY <2>4, <3>1, <3>2, <3>3 DEF Advances, Known
  <2>5. Advances
    BY <1>4, <2>1, <2>2, <2>3, <2>4
  <2> QED
    BY <2>5, AdvancesAdm
<1>5. CASE MarkLatest \/ CancelActive \/ RunDone \/ ReadChat \/ WriteChat
  <2>1. StaysPut
    BY <1>5 DEF MarkLatest, CancelActive, RunDone, ReadChat, WriteChat, At, Save, StaysPut, Known, world, gateway, state
  <2> QED
    BY <2>1, StaysPutAdm
<1>6. CASE Admit \/ (SavePending /\ poller' = "ack" /\ UNCHANGED <<input, batch>>)
  <2>1. StaysPut
    BY <1>0, <1>6, SMTT(30) DEF Admit, SavePending, StaysPut, Known, world, state, AdmOK, TypeOK
  <2> QED
    BY <2>1, StaysPutAdm
<1>7. CASE Boot \/ BootFails
  <2>1. StaysPut
    BY <1>0, <1>7 DEF Boot, BootFails, StaysPut, Known, world, state, polling, TypeOK
  <2> QED
    BY <2>1, StaysPutAdm
<1>8. CASE Crash
  <2>1. offset' = disk.offset /\ disk' = disk /\ kind' = kind /\ input' = input /\ missed' = missed
        /\ batch' = <<>> /\ poller' = "boot" /\ disk.offset \in Nat
    BY <1>0, <1>8, BoundsAssumption DEF Crash, world, gateway, TypeOK
  <2>2. Len(kind) \in Nat
    BY <1>0 DEF TypeOK
  <2>3. disk.offset <= Len(kind) + 1 /\ disk.offset <= disk.offset
    BY <1>0, <2>1, <2>2 DEF AdmOK
  <2>4. \A v \in Updates : v < disk.offset => Known(v)
    <3>1. \A v \in Updates : v < disk.offset => v < offset
      BY <1>0, <2>1, BoundsAssumption DEF AdmOK, Updates
    <3> QED
      BY <3>1 DEF AdmOK
  <2> QED
    BY <2>1, <2>3, <2>4 DEF AdmOK, Known
<1>9. ASSUME NEW u \in Updates, HandlerStep(u) PROVE AdmOK'
  <2>1. StaysPut
    <3>1. UNCHANGED <<kind, input, missed, batch, poller>>
      BY <1>9 DEF HandlerStep, TakenAsAnswer, Lock, Register, Check, Recheck, GiveUp, Start, RunSaves, RunReturns, Stop, Drop, End, HandlerFrame, world, gateway, polling
    <3>2. offset' = offset /\ disk'.offset \in {disk.offset, offset}
      BY <1>9 DEF HandlerStep, TakenAsAnswer, Lock, Register, Check, Recheck, GiveUp, Start, RunSaves, RunReturns, Stop, Drop, End, ClearPending, Save, state
    <3> QED
      BY <3>1, <3>2 DEF StaysPut, Known, AdmOK
  <2> QED
    BY <2>1, StaysPutAdm
<1>10. ASSUME NEW u \in Updates, GatewayStep(u) PROVE AdmOK'
  <2>1. StaysPut
    <3>1. UNCHANGED <<kind, batch, poller, state, missed>>
      BY <1>10
      DEF GatewayStep, GatewayBegins, GatewayEnds, QuestionWithdrawn, QuestionEnds, world, polling
    <3>2. \A v \in Updates : input[v] # "none" => input'[v] # "none"
      BY <1>0, <1>10 DEF GatewayStep, GatewayBegins, GatewayEnds, QuestionWithdrawn,
                         QuestionEnds, gateway, TypeOK
    <3>3. poller' \in {"skip", "save", "ack"} => input'[Update] # "none"
      BY <1>0, <3>1, <3>2 DEF AdmOK
    <3> QED
      BY <3>1, <3>2, <3>3 DEF StaysPut, Known, state
  <2> QED
    BY <2>1, StaysPutAdm
<1>11. CASE Elsewhere
  <2>1. StaysPut
    BY <1>11 DEF Elsewhere, StaysPut, Known, world, gateway, state, polling, AdmOK
  <2> QED
    BY <2>1, StaysPutAdm
<1>12. SavePending => NextUpdate \/ (poller' = "ack" /\ UNCHANGED <<input, batch>>)
  BY DEF SavePending
<1> QED
  BY <1>1, <1>2, <1>3, <1>4, <1>5, <1>6, <1>7, <1>8, <1>9, <1>10, <1>11, <1>12, Questions DEF Next, PollerStep

\* The poller's offset passes no prompt that the gateway has not admitted, but for an
\* answer to a question and one whose own admission has failed.
THEOREM AcknowledgedIsKnown == Spec => []AckedIsAdmitted
<1>1. Init => TypeInv /\ AdmOK
  BY BoundsAssumption, EmptySeq
  DEF Init, TypeInv, TypeOK, BatchOK, Consecutive, Idle, Updates, Kinds, Nobody, AdmOK
<1>2. AdmOK => AckedIsAdmitted
  BY DEF AdmOK, Known, AckedIsAdmitted
<1> QED
  BY <1>1, <1>2, TypeStep, AdmStep, PTL DEF Spec

-----------------------------------------------------------------------------
(* The order of the prompts.  While the poller admits one, every goroutine *)
(* that there is is superseded; otherwise one at most is not.              *)
Admitting == {"cancel", "await", "read", "write", "admit", "skip", "save", "ack"}
Exists(v) == pc[v] # "none"

OrderOK ==
    /\ \A v \in Updates : Exists(v) => v < offset /\ seq[v] <= latest /\ poller # "boot"
    /\ \A v \in Updates : poller \in Admitting /\ Exists(v) => seq[v] < latest
    /\ \A u, v \in Updates :
           Exists(u) /\ Exists(v) /\ ~Superseded(u) /\ ~Superseded(v) => u = v

\* A step that starts no goroutine and counts no new prompt.
KeepsOrder ==
    /\ UNCHANGED <<seq, latest>> /\ offset' \in Nat /\ offset <= offset'
    /\ \A v \in Updates : Exists(v)' => Exists(v)
    /\ poller' \in Admitting => poller \in Admitting
    /\ poller' = "boot" => poller = "boot"

LEMMA KeepsOrderOK == TypeInv /\ OrderOK /\ KeepsOrder => OrderOK'
<1> SUFFICES ASSUME TypeInv, OrderOK, KeepsOrder PROVE OrderOK'
  OBVIOUS
<1>1. offset \in Nat /\ \A v \in Updates : v \in Nat
  BY BoundsAssumption DEF TypeInv, TypeOK, Updates
<1>2. \A v \in Updates : Exists(v)' => v < offset' /\ seq'[v] <= latest' /\ poller' # "boot"
  BY <1>1 DEF KeepsOrder, OrderOK
<1>3. \A v \in Updates : poller' \in Admitting /\ Exists(v)' => seq'[v] < latest'
  BY DEF KeepsOrder, OrderOK
<1>4. \A u, v \in Updates :
          Exists(u)' /\ Exists(v)' /\ ~Superseded(u)' /\ ~Superseded(v)' => u = v
  BY DEF KeepsOrder, OrderOK, Superseded
<1> QED
  BY <1>2, <1>3, <1>4 DEF OrderOK

LEMMA OrderStep == TypeInv /\ OrderOK /\ [Next]_vars => OrderOK'
<1> SUFFICES ASSUME TypeInv, OrderOK, [Next]_vars PROVE OrderOK'
  OBVIOUS
<1>0. TypeOK /\ BatchOK /\ offset \in Nat /\ (\A v \in Updates : v \in Nat)
  BY BoundsAssumption DEF TypeInv, TypeOK, Updates
<1>1. poller \notin Idle => Update \in Updates /\ Later(Update) \in Nat
                            /\ offset <= Later(Update) /\ Update < Later(Update)
  <2>1. poller \notin Idle => Update \in Updates
    BY <1>0, Handled
  <2> QED
    BY <1>0, <2>1 DEF Later
<1> USE DEF Idle, Admitting
<1>2. CASE UserSends \/ Poll \/ LockedCommand \/ AnswerQuestion \/ CancelCommand
  <2>1. KeepsOrder
    BY <1>0, <1>1, <1>2
    DEF UserSends, Poll, LockedCommand, AnswerQuestion, CancelCommand, At, NextUpdate, Ack, Save,
        KeepsOrder, Exists, state, polling, handlers
  <2> QED
    BY <2>1, KeepsOrderOK
<1>3. CASE CancelActive \/ RunDone \/ ReadChat \/ WriteChat \/ Admit \/ AdmitFails
  <2>1. KeepsOrder
    BY <1>0, <1>1, <1>3
    DEF CancelActive, RunDone, ReadChat, WriteChat, Admit, AdmitFails, NextUpdate, Save,
        KeepsOrder, Exists, state, handlers
  <2> QED
    BY <2>1, KeepsOrderOK
<1>4. CASE SkipDuplicate \/ SavePending \/ Boot \/ BootFails \/ Elsewhere
  <2>1. KeepsOrder
    BY <1>0, <1>1, <1>4
    DEF SkipDuplicate, SavePending, Boot, BootFails, Elsewhere, NextUpdate, Save,
        KeepsOrder, Exists, state, polling, handlers
  <2> QED
    BY <2>1, KeepsOrderOK
<1>5. CASE MarkLatest
  <2>1. latest' = latest + 1 /\ UNCHANGED <<seq, pc, offset>> /\ poller' = "cancel" /\ latest \in Nat
        /\ seq \in [Updates -> Nat]
    BY <1>0, <1>5 DEF MarkLatest, state, handlers, TypeOK
  <2>2. \A v \in Updates : Exists(v) => v < offset /\ seq[v] < latest'
    BY <2>1 DEF OrderOK
  <2>3. \A v \in Updates : Exists(v) => seq[v] <= latest' /\ latest' # seq[v]
    BY <2>1, <2>2
  <2> QED
    BY <2>1, <2>2, <2>3 DEF OrderOK, Exists, Superseded
<1>6. CASE AckAndRun
  <2>1. /\ latest' = latest /\ poller' \in {"poll", "update"} /\ offset' = Later(Update)
        /\ poller = "ack" /\ latest \in Nat /\ Update \in Updates /\ Update < Later(Update)
        /\ offset <= Later(Update) /\ Later(Update) \in Nat
    BY <1>0, <1>1, <1>6 DEF AckAndRun, Ack, Save, NextUpdate, TypeOK
  <2>2. /\ pc'[Update] = "lock" /\ seq'[Update] = latest
        /\ \A v \in Updates : v # Update => pc'[v] = pc[v] /\ seq'[v] = seq[v]
    BY <1>0, <1>6, <2>1 DEF AckAndRun, TypeOK
  <2>3. \A v \in Updates : Exists(v) => v < offset /\ seq[v] < latest /\ seq[v] <= latest /\ latest # seq[v]
    BY <1>0, <2>1 DEF OrderOK, TypeOK
  <2>4. \A v \in Updates : Exists(v)' => v < offset' /\ seq'[v] <= latest'
    BY <1>0, <2>1, <2>2, <2>3 DEF Exists
  <2>5. \A v \in Updates : v # Update /\ Exists(v)' => Superseded(v)'
    BY <2>1, <2>2, <2>3 DEF Exists, Superseded
  <2> QED
    BY <2>1, <2>4, <2>5 DEF OrderOK
<1>7. CASE Crash
  BY <1>7 DEF Crash, OrderOK, Exists
<1>8. ASSUME NEW u \in Updates, HandlerStep(u) PROVE OrderOK'
  <2>1. UNCHANGED <<poller, latest, seq>>
    BY <1>8 DEF HandlerStep, TakenAsAnswer, Lock, Register, Check, Recheck, GiveUp, Start, RunSaves, RunReturns, Stop, Drop, End, HandlerFrame, polling
  <2>2. \A v \in Updates : pc'[v] # "none" => pc[v] # "none"
    BY <1>0, <1>8 DEF HandlerStep, TakenAsAnswer, Lock, Register, Check, Recheck, GiveUp, Start, RunSaves, RunReturns, Stop, Drop, End, Goto, HandlerFrame, TypeOK
  <2>3. offset' = offset
    BY <1>8 DEF HandlerStep, TakenAsAnswer, Lock, Register, Check, Recheck, GiveUp, Start, RunSaves, RunReturns, Stop, Drop, End, ClearPending, Save, state
  <2> QED
    BY <1>0, <2>1, <2>2, <2>3, KeepsOrderOK DEF KeepsOrder, Exists
<1>9. ASSUME NEW u \in Updates, GatewayStep(u) PROVE OrderOK'
  <2>1. KeepsOrder
    BY <1>0, <1>9 DEF GatewayStep, GatewayBegins, GatewayEnds, QuestionWithdrawn, QuestionEnds, KeepsOrder, Exists, state, polling, handlers
  <2> QED
    BY <2>1, KeepsOrderOK
<1> QED
  BY <1>2, <1>3, <1>4, <1>5, <1>6, <1>7, <1>8, <1>9, Questions DEF Next, PollerStep

-----------------------------------------------------------------------------
(* The pending input.  The only goroutine that may save the state of an    *)
(* older admission is a superseded one on its way to its end, and those    *)
(* are over before the new prompt is read, as long as none is late.        *)
Waiting == {"lock", "register", "check", "recheck", "start"}

NoneLingers ==
    \A v \in Updates : pc[v] \in {"start", "run", "stop"} /\ Superseded(v) =>
        poller = "cancel" \/ (poller = "await" /\ awaited = v)

WaitingIsPending ==
    \A v \in Updates : pc[v] \in Waiting /\ ~Superseded(v) => pending = v /\ disk.pending = v

AdmittedIsPending == poller = "ack" => pending = Update /\ disk.pending = Update

KeptOK == lates = 0 => NoneLingers /\ WaitingIsPending /\ AdmittedIsPending

KeptInv == TypeInv /\ AdmOK /\ MutexOK /\ OrderOK

LEMMA LingersStep ==
    ASSUME KeptInv, NoneLingers, [Next]_vars, lates = 0, lates' = 0
    PROVE  NoneLingers'
<1>0. TypeOK /\ BatchOK /\ MutexOK /\ OrderOK
  BY DEF KeptInv, TypeInv
<1> USE DEF Registered, Nobody
<1>1. CASE UserSends \/ Poll \/ LockedCommand \/ AnswerQuestion \/ CancelCommand
  BY <1>1
  DEF UserSends, Poll, LockedCommand, AnswerQuestion, CancelCommand, At, NextUpdate,
      NoneLingers, Superseded, polling, handlers
<1>2. CASE ReadChat \/ WriteChat \/ Admit \/ AdmitFails \/ SkipDuplicate
  BY <1>2 DEF ReadChat, WriteChat, Admit, AdmitFails, SkipDuplicate, NextUpdate,
              NoneLingers, Superseded, handlers
<1>3. CASE SavePending \/ Boot \/ BootFails \/ Elsewhere
  BY <1>3 DEF SavePending, Boot, BootFails, Elsewhere, NextUpdate, NoneLingers, Superseded, polling, handlers
<1>4. CASE MarkLatest
  BY <1>4 DEF MarkLatest, NoneLingers
<1>5. CASE CancelActive
  <2>1. awaited' = current /\ poller' = "await" /\ UNCHANGED pc
    BY <1>5 DEF CancelActive
  <2> QED
    BY <1>0, <2>1 DEF NoneLingers, MutexOK
<1>6. CASE RunDone
  <2>1. awaited \notin {u \in Updates : pc[u] # "done"} /\ poller = "await"
    <3>1. lates \in Nat /\ ~(lates' = lates + 1)
      OBVIOUS
    <3> QED
      BY <1>6, <3>1 DEF RunDone
  <2>2. UNCHANGED <<pc, seq, latest>>
    BY <1>6 DEF RunDone, handlers
  <2> QED
    BY <2>1, <2>2 DEF NoneLingers, Superseded
<1>7. CASE AckAndRun
  <2>1. Update \in Updates /\ poller = "ack" /\ UNCHANGED latest
    BY <1>0, <1>7, Handled DEF AckAndRun, Idle
  <2>2. pc'[Update] = "lock" /\ \A v \in Updates : v # Update => pc'[v] = pc[v] /\ seq'[v] = seq[v]
    BY <1>0, <1>7, <2>1 DEF AckAndRun, TypeOK
  <2> QED
    BY <2>1, <2>2 DEF NoneLingers, Superseded
<1>8. CASE Crash
  BY <1>8 DEF Crash, NoneLingers
<1>9. ASSUME NEW u \in Updates, HandlerStep(u) PROVE NoneLingers'
  <2>1. UNCHANGED <<poller, awaited, latest, seq>>
    BY <1>9 DEF HandlerStep, TakenAsAnswer, Lock, Register, Check, Recheck, GiveUp, Start, RunSaves, RunReturns, Stop, Drop, End, HandlerFrame, polling
  <2>2. \A v \in Updates : v # u => pc'[v] = pc[v]
    BY <1>0, <1>9 DEF HandlerStep, TakenAsAnswer, Lock, Register, Check, Recheck, GiveUp, Start, RunSaves, RunReturns, Stop, Drop, End, Goto, HandlerFrame, TypeOK
  <2>3. pc'[u] \in {"start", "run", "stop"} /\ Superseded(u) => pc[u] \in {"start", "run", "stop"}
    BY <1>0, <1>9 DEF HandlerStep, TakenAsAnswer, Lock, Register, Check, Recheck, GiveUp, Start, RunSaves, RunReturns, Stop, Drop, End, Goto, HandlerFrame, TypeOK, Superseded
  <2> QED
    BY <2>1, <2>2, <2>3 DEF NoneLingers, Superseded
<1>10. ASSUME NEW u \in Updates, GatewayStep(u) PROVE NoneLingers'
  BY <1>10 DEF GatewayStep, GatewayBegins, GatewayEnds, QuestionWithdrawn, QuestionEnds, NoneLingers, Superseded, polling, handlers
<1> QED
  BY <1>1, <1>2, <1>3, <1>4, <1>5, <1>6, <1>7, <1>8, <1>9, <1>10, Questions DEF Next, PollerStep

\* While a prompt is admitted, or the adapter boots, nobody waits to run.
LEMMA NobodyWaits ==
    ASSUME KeptInv, poller \in Admitting \union {"boot"}, UNCHANGED <<pc, seq, latest>>
    PROVE  WaitingIsPending'
<1>1. TypeOK /\ OrderOK
  BY DEF KeptInv, TypeInv
<1>2. ASSUME NEW v \in Updates, pc[v] \in Waiting PROVE Superseded(v)
  <2>1. Exists(v)
    BY <1>2 DEF Exists, Waiting
  <2>2. seq[v] < latest
    BY <1>1, <2>1 DEF OrderOK
  <2> QED
    BY <1>1, <2>2 DEF Superseded, TypeOK
<1> QED
  BY <1>2 DEF WaitingIsPending, Superseded

LEMMA WaitingStep ==
    ASSUME KeptInv, KeptOK, [Next]_vars, lates = 0
    PROVE  WaitingIsPending'
<1>0. TypeOK /\ BatchOK /\ OrderOK /\ NoneLingers /\ WaitingIsPending /\ AdmittedIsPending
  BY DEF KeptInv, TypeInv, KeptOK
<1> USE DEF Waiting
<1>1. CASE UserSends \/ Poll \/ LockedCommand \/ AnswerQuestion \/ CancelCommand
  BY <1>0, <1>1
  DEF UserSends, Poll, LockedCommand, AnswerQuestion, CancelCommand, At, Ack, Save,
      WaitingIsPending, Superseded, state, polling, handlers
<1>2. CASE CancelActive \/ RunDone \/ ReadChat \/ WriteChat \/ Admit \/ AdmitFails
  BY <1>2, NobodyWaits
  DEF CancelActive, RunDone, ReadChat, WriteChat, Admit, AdmitFails, handlers, Admitting
<1>3. CASE SkipDuplicate \/ SavePending \/ Boot \/ BootFails
  BY <1>3, NobodyWaits DEF SkipDuplicate, SavePending, Boot, BootFails, polling, handlers, Admitting
<1>4. CASE Elsewhere
  BY <1>0, <1>4 DEF Elsewhere, WaitingIsPending, Superseded, state, polling, handlers
<1>5. CASE MarkLatest
  <2>1. latest' = latest + 1 /\ UNCHANGED <<pc, seq>> /\ latest \in Nat /\ seq \in [Updates -> Nat]
    BY <1>0, <1>5 DEF MarkLatest, handlers, TypeOK
  <2>2. \A v \in Updates : pc[v] \in Waiting => seq[v] <= latest
    BY <1>0 DEF OrderOK, Exists
  <2>3. \A v \in Updates : pc[v] \in Waiting => latest' # seq[v]
    BY <2>1, <2>2
  <2> QED
    BY <2>1, <2>3 DEF WaitingIsPending, Superseded
<1>6. CASE AckAndRun
  <2>1. Update \in Updates /\ poller = "ack" /\ UNCHANGED latest
    BY <1>0, <1>6, Handled DEF AckAndRun, Idle
  <2>2. pc'[Update] = "lock" /\ \A v \in Updates : v # Update => pc'[v] = pc[v] /\ seq'[v] = seq[v]
    BY <1>0, <1>6, <2>1 DEF AckAndRun, TypeOK
  <2>3. pending' = Update /\ disk'.pending = Update
    BY <1>0, <1>6, <2>1 DEF AckAndRun, Ack, Save, AdmittedIsPending
  <2>4. \A v \in Updates : v # Update /\ pc'[v] \in Waiting => latest # seq[v]
    <3>1. \A v \in Updates : pc[v] \in Waiting => seq[v] < latest
      BY <1>0, <2>1 DEF OrderOK, Exists, Admitting
    <3>2. latest \in Nat /\ \A v \in Updates : seq[v] < latest => latest # seq[v]
      BY <1>0 DEF TypeOK
    <3> QED
      BY <2>2, <3>1, <3>2
  <2> QED
    BY <2>1, <2>2, <2>3, <2>4 DEF WaitingIsPending, Superseded
<1>7. CASE Crash
  BY <1>7 DEF Crash, WaitingIsPending
<1>8. ASSUME NEW u \in Updates, HandlerStep(u) PROVE WaitingIsPending'
  <2> SUFFICES ASSUME NEW v \in Updates, pc'[v] \in Waiting, ~Superseded(v)'
               PROVE  pending' = v /\ disk'.pending = v
    BY DEF WaitingIsPending
  <2>1. UNCHANGED <<poller, latest, seq>>
    BY <1>8 DEF HandlerStep, TakenAsAnswer, Lock, Register, Check, Recheck, GiveUp, Start, RunSaves, RunReturns, Stop, Drop, End, HandlerFrame, polling
  <2>2. \A w \in Updates : w # u => pc'[w] = pc[w]
    BY <1>0, <1>8 DEF HandlerStep, TakenAsAnswer, Lock, Register, Check, Recheck, GiveUp, Start, RunSaves, RunReturns, Stop, Drop, End, Goto, HandlerFrame, TypeOK
  <2>3. pc[v] \in Waiting /\ ~Superseded(v)
    BY <1>0, <1>8, <2>1, <2>2, SMTT(30) DEF HandlerStep, TakenAsAnswer, Lock, Register, Check, Recheck, GiveUp, Start, RunSaves, RunReturns, Stop, Drop, End, Goto, TypeOK, Superseded
  <2>4. pending = v /\ disk.pending = v
    BY <1>0, <2>3 DEF WaitingIsPending
  <2>5. ~Superseded(u) /\ pc[u] # "none" => u = v
    BY <1>0, <2>3 DEF OrderOK, Exists
  <2>6. poller \notin Admitting
    <3>1. poller \in Admitting => seq[v] < latest
      BY <1>0, <2>3 DEF OrderOK, Exists
    <3>2. latest = seq[v] /\ latest \in Nat
      BY <1>0, <2>3 DEF Superseded, TypeOK
    <3> QED
      BY <3>1, <3>2
  <2>7. CASE Check(u) \/ RunSaves(u)
    <3>1. UNCHANGED state \/ (~Superseded(u) /\ pc[u] # "none" /\ Save(offset, u))
      BY <2>7 DEF Check, RunSaves
    <3> QED
      BY <2>4, <2>5, <3>1 DEF Save, state
  <2>8. CASE Stop(u)
    <3>1. Superseded(u)
      BY <1>0, <2>5, <2>8, <2>3 DEF Stop
    <3>2. poller = "cancel" \/ poller = "await"
      BY <1>0, <2>8, <3>1 DEF Stop, NoneLingers
    <3> QED
      BY <2>6, <3>2 DEF Admitting
  <2>9. CASE Drop(u)
    <3>1. u # v
      BY <2>3, <2>9 DEF Drop
    <3> QED
      BY <2>4, <2>9, <3>1 DEF Drop, ClearPending, state
  <2>10. CASE TakenAsAnswer(u) \/ Lock(u) \/ Register(u) \/ Recheck(u) \/ GiveUp(u)
              \/ Start(u) \/ RunReturns(u) \/ End(u)
    <3>1. UNCHANGED state
      BY <2>10 DEF TakenAsAnswer, Lock, Register, Recheck, GiveUp, Start, RunReturns, End
    <3> QED
      BY <2>4, <3>1 DEF state
  <2> QED
    BY <1>8, <2>7, <2>8, <2>9, <2>10 DEF HandlerStep
<1>9. ASSUME NEW u \in Updates, GatewayStep(u) PROVE WaitingIsPending'
  BY <1>0, <1>9 DEF GatewayStep, GatewayBegins, GatewayEnds, QuestionWithdrawn, QuestionEnds, WaitingIsPending, Superseded,
                    state, polling, handlers
<1> QED
  BY <1>1, <1>2, <1>3, <1>4, <1>5, <1>6, <1>7, <1>8, <1>9, Questions DEF Next, PollerStep

LEMMA AdmittedStep ==
    ASSUME KeptInv, KeptOK, [Next]_vars, lates = 0
    PROVE  AdmittedIsPending'
<1>0. TypeOK /\ BatchOK /\ OrderOK /\ AdmOK /\ NoneLingers /\ AdmittedIsPending
  BY DEF KeptInv, TypeInv, KeptOK
<1> SUFFICES ASSUME poller' = "ack" PROVE pending' = Update' /\ disk'.pending = Update'
  BY DEF AdmittedIsPending
<1>1. CASE SavePending
  <2>1. CASE disk' = [offset |-> offset, pending |-> Update] /\ UNCHANGED batch
    BY <1>1, <2>1 DEF SavePending, Update
  <2>2. CASE NextUpdate
    BY <2>2 DEF NextUpdate
  <2> QED
    BY <1>1, <2>1, <2>2 DEF SavePending
<1>2. CASE UNCHANGED <<poller, batch, pending, disk>>
  BY <1>0, <1>2 DEF AdmittedIsPending, Update
<1>3. ASSUME NEW u \in Updates, HandlerStep(u), poller = "ack"
      PROVE  UNCHANGED <<poller, batch, pending, disk>>
  <2>1. UNCHANGED <<poller, batch>>
    BY <1>3 DEF HandlerStep, TakenAsAnswer, Lock, Register, Check, Recheck, GiveUp, Start, RunSaves, RunReturns, Stop, Drop, End, HandlerFrame, polling
  <2>2. pending = Update
    BY <1>0, <1>3 DEF AdmittedIsPending
  <2>3. pc[u] # "none" => u # Update /\ Superseded(u)
    <3>1. offset <= Update /\ Update \in Nat /\ offset \in Nat /\ u \in Nat
      <4>1. Update \in Updates /\ batch # <<>>
        BY <1>0, <1>3, Handled DEF Idle, BatchOK
      <4>2. offset <= Update /\ offset \in 1..(MaxUpdates + 1)
        BY <1>0, <4>1 DEF AdmOK, TypeOK
      <4> QED
        BY <4>1, <4>2, BoundsAssumption DEF Updates
    <3>2. pc[u] # "none" => u < offset /\ seq[u] < latest
      BY <1>0, <1>3 DEF OrderOK, Exists, Admitting
    <3> QED
      BY <1>0, <3>1, <3>2, SMTT(30) DEF Superseded, TypeOK
  <2>4. pc[u] # "stop"
    BY <1>0, <1>3, <2>3 DEF NoneLingers
  <2>5. UNCHANGED state
    BY <1>3, <2>2, <2>3, <2>4 DEF HandlerStep, TakenAsAnswer, Lock, Register, Check, Recheck, GiveUp, Start, RunSaves, RunReturns, Stop, Drop, End, ClearPending
  <2> QED
    BY <2>1, <2>5 DEF state
<1>4. CASE UserSends \/ Elsewhere \/ \E u \in Updates : GatewayStep(u)
  BY <1>2, <1>4 DEF UserSends, GatewayStep, GatewayBegins, GatewayEnds, QuestionWithdrawn, QuestionEnds, Elsewhere, state, polling
<1>5. CASE \E u \in Updates : HandlerStep(u)
  <2>1. poller = "ack"
    BY <1>5 DEF HandlerStep, TakenAsAnswer, Lock, Register, Check, Recheck, GiveUp, Start, RunSaves, RunReturns, Stop, Drop, End, HandlerFrame, polling
  <2> QED
    BY <1>2, <1>3, <1>5, <2>1
<1>6. ~(Poll \/ LockedCommand \/ AnswerQuestion \/ CancelCommand \/ AdmitFails \/ SkipDuplicate
        \/ AckAndRun)
  BY DEF Poll, LockedCommand, AnswerQuestion, CancelCommand, AdmitFails, SkipDuplicate,
         AckAndRun, NextUpdate
<1>7. ~(MarkLatest \/ CancelActive \/ RunDone \/ ReadChat \/ WriteChat \/ Admit \/ Crash)
  BY DEF MarkLatest, CancelActive, RunDone, ReadChat, WriteChat, Admit, Crash
<1>8. ~Boot /\ (BootFails => poller = "ack" /\ poller = "boot")
  BY DEF Boot, BootFails, polling
<1> QED
  BY <1>1, <1>4, <1>5, <1>6, <1>7, <1>8, Questions DEF Next, PollerStep

LEMMA KeptStep == KeptInv /\ KeptOK /\ [Next]_vars => KeptOK'
<1> SUFFICES ASSUME KeptInv, KeptOK, [Next]_vars, lates' = 0
             PROVE  NoneLingers' /\ WaitingIsPending' /\ AdmittedIsPending'
  BY DEF KeptOK
<1>1. lates = 0
  <2>1. lates \in Nat
    BY BoundsAssumption DEF KeptInv, TypeInv, TypeOK
  <2>2. UNCHANGED lates \/ lates' = lates + 1
    <3>1. CASE \E u \in Updates : HandlerStep(u) \/ GatewayStep(u)
      BY <3>1 DEF HandlerStep, TakenAsAnswer, Lock, Register, Check, Recheck, GiveUp, Start, RunSaves, RunReturns, Stop, Drop, End, HandlerFrame, GatewayStep, GatewayBegins, GatewayEnds, QuestionWithdrawn, QuestionEnds, bounds
    <3>2. CASE PollerStep
      BY <3>2 DEF PollerStep, Poll, LockedCommand, AnswerQuestion, CancelCommand, MarkLatest,
           CancelActive, RunDone, ReadChat, WriteChat, Admit, AdmitFails, SkipDuplicate,
           SavePending, AckAndRun, Boot, BootFails, bounds
    <3>3. CASE UserSends \/ Crash \/ Elsewhere
      BY <3>3 DEF UserSends, Crash, Elsewhere, bounds
    <3> QED
      BY <3>1, <3>2, <3>3, Questions DEF Next
  <2> QED
    BY <2>1, <2>2
<1> QED
  BY <1>1, LingersStep, WaitingStep, AdmittedStep DEF KeptOK

\* An acknowledged prompt that is still to run and is not superseded is the pending
\* input of the state file, so a restart knows of it; unless an interrupted run was
\* late to stop.
THEOREM AcknowledgedIsKept == Spec => []AckedIsKept
<1>1. Init => KeptInv /\ KeptOK /\ RunsInv
  BY BoundsAssumption, EmptySeq
  DEF Init, KeptInv, KeptOK, TypeInv, TypeOK, BatchOK, Consecutive, Idle, Updates, Kinds, Nobody,
      AdmOK, OrderOK, Exists, MutexOK, RunsInv, OldNeverRuns, Held, Registered,
      NoneLingers, WaitingIsPending, AdmittedIsPending, Waiting
<1>2. KeptInv /\ RunsInv /\ [Next]_vars => KeptInv' /\ RunsInv'
  BY TypeStep, AdmStep, RunsStep, OrderStep DEF KeptInv, RunsInv
<1>3. KeptOK => AckedIsKept
  BY DEF KeptOK, WaitingIsPending, Waiting, AckedIsKept
<1> QED
  BY <1>1, <1>2, <1>3, KeptStep, PTL DEF Spec
=============================================================================
