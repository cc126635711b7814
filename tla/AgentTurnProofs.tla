--------------------------- MODULE AgentTurnProofs ---------------------------
(***************************************************************************)
(* A turn of the agent and the questions it asks.                          *)
(*                                                                         *)
(* UserInput, for any number of questions, clients and runs: a question is *)
(* in one place, it can be answered while its run goes on, and one is      *)
(* refused only because a stale one was put back.  The induction needs     *)
(* that a question nobody has asked is nowhere (Known), that a session     *)
(* asks one question at a time (OneAsked), and that without a stale one    *)
(* the pending question is the one being asked (PendingAsked).  The        *)
(* invariants that UserInput states with sets are restated with            *)
(* quantifiers.                                                            *)
(*                                                                         *)
(* AgentRun, for any limits, answers, turns and call ids: tools keep       *)
(* apart, results answer calls, and the transcript is paired.  The first   *)
(* two need where every call of the answer is while the calls are executed *)
(* a step at a time (ToolInv); the third that the transcript is whole or   *)
(* wants just the results of the answer under way (Orderly), that          *)
(* compaction keeps it so, and that the pass of validateTranscriptPairing  *)
(* knows of every message which of its calls are unanswered (ScanKnows),   *)
(* and goes over every paired transcript to its end (ScanGoes).            *)
(***************************************************************************)
EXTENDS UserInput, AgentRun, FiniteSetTheorems, SequenceTheorems, WellFoundedInduction, TLAPS

Holds(k, q) == took[k] = q /\ client[k] \in {"valid", "invalid", "reject"}
Open(q) == ask[q] \in {"registered", "waiting", "clearing"}

\* OnePlace, conjunct by conjunct.
PendingOnly ==
    \A q \in Asks : pending = q => reply[q] = "empty" /\ \A k \in Clients : ~Holds(k, q)
ReplyOnly ==
    \A q \in Asks : reply[q] # "empty" => \A k \in Clients : ~Holds(k, q)
OneHolder ==
    \A q \in Asks : \A k, l \in Clients : Holds(k, q) /\ Holds(l, q) => k = l
Places == PendingOnly /\ ReplyOnly /\ OneHolder

\* What is pending, taken or resolved has been asked.
Known ==
    \A q \in Asks :
        pending = q \/ reply[q] # "empty" \/ (\E k \in Clients : took[k] = q) => ask[q] # "new"

\* A client that holds a question has taken it.
HoldersTook == \A k \in Clients : client[k] \in {"valid", "invalid", "reject"} => took[k] \in Asks

\* One question at a time, and only within a run.
OneAsked ==
    /\ \A p, q \in Asks : Open(p) /\ Open(q) => p = q
    /\ run = "none" => \A q \in Asks : ~Open(q)

PendingAsked == ~stale /\ pending # Nil => Open(pending)

\* Answerable, with a client named.
Findable ==
    \A q \in Asks :
        /\ ask[q] \in {"registered", "waiting"} /\ run = "running" /\ ~aborting /\ ~stale
        => pending = q \/ reply[q] # "empty" \/ \E k \in Clients : Holds(k, q)

IInv == /\ TypeOK /\ Known /\ HoldersTook /\ OneAsked /\ PendingAsked
        /\ Places /\ Findable /\ RefusedOnlyIfStale

-----------------------------------------------------------------------------
\* The two ways to state that a question is in one place.
LEMMA PlacesMeansOnePlace == Places => OnePlace
BY ZenonT(30) DEF Places, PendingOnly, ReplyOnly, OneHolder, OnePlace, Holders, Holds

\* The two ways to state that a question can be answered.
LEMMA FindableMeansAnswerable == Findable => Answerable
BY DEF Findable, Answerable, Holders, Holds

\* The questions being asked, as a set and one by one.
LEMMA AskingIsOpen == (Asking = {} <=> \A q \in Asks : ~Open(q))
                      /\ \A q \in Asks : q \in Asking <=> Open(q)
BY DEF Asking, Open

\* Every step keeps every variable in its type.
LEMMA TypeStep == TypeOK /\ HoldersTook /\ [Next]_vars => TypeOK'
<1> SUFFICES ASSUME TypeOK /\ HoldersTook, [Next]_vars PROVE TypeOK'
  OBVIOUS
<1> USE DEF TypeOK, HoldersTook
<1>1. CASE BeginRun \/ EndRun \/ ReportAbort \/ CancelRun \/ ParentDone
  <2>1. runs' \in 0..MaxRuns
    <3>1. runs' = runs \/ (runs < MaxRuns /\ runs' = runs + 1)
      BY <1>1 DEF BeginRun, EndRun, ReportAbort, CancelRun, ParentDone
    <3>2. runs \in 0..MaxRuns
      OBVIOUS
    <3> HIDE DEF TypeOK, HoldersTook
    <3>3. QED
      BY <3>1, <3>2, RunsAssumption
  <2>2. aborting' \in BOOLEAN /\ broken' \in BOOLEAN /\ stale' \in BOOLEAN
    BY <1>1, Zenon DEF BeginRun, EndRun, ReportAbort, CancelRun, ParentDone
  <2>3. UNCHANGED <<ask, reply, client, took>> /\ pending' \in Asks \union {Nil}
    BY <1>1 DEF BeginRun, EndRun, ReportAbort, CancelRun, ParentDone
  <2>4. run' \in {"none", "running", "cancelled"}
    BY <1>1 DEF BeginRun, EndRun, ReportAbort, CancelRun, ParentDone
  <2>5. QED
    BY <2>1, <2>2, <2>3, <2>4
<1>2. ASSUME NEW q \in Asks, Register(q) PROVE TypeOK'
  BY <1>2 DEF Register, AskGoto
<1>3. ASSUME NEW q \in Asks, EmitRequested(q) PROVE TypeOK'
  BY <1>3 DEF EmitRequested, AskGoto
<1>4. ASSUME NEW q \in Asks, Resolved(q) PROVE TypeOK'
  BY <1>4 DEF Resolved, AskGoto
<1>5. ASSUME NEW q \in Asks, ContextDone(q) PROVE TypeOK'
  BY <1>5 DEF ContextDone, AskGoto
<1>6. ASSUME NEW q \in Asks, ClearPending(q) PROVE TypeOK'
  BY <1>6 DEF ClearPending, AskGoto, Withdrawn
<1>7. ASSUME NEW k \in Clients, Take(k) PROVE TypeOK'
  BY <1>7 DEF Take, ClientGoto
<1>8. ASSUME NEW k \in Clients, Send(k) PROVE TypeOK'
  BY <1>8 DEF Send, ClientGoto
<1>9. ASSUME NEW k \in Clients, Restore(k) PROVE TypeOK'
  BY <1>9 DEF Restore, ClientGoto, PutBack
<1>10. CASE UNCHANGED vars \/ Terminated
  BY <1>10 DEF vars, Terminated
<1>11. QED
  BY <1>1, <1>2, <1>3, <1>4, <1>5, <1>6, <1>7, <1>8, <1>9, <1>10 DEF Next, AskStep, ClientStep

\* A question is asked before it is anywhere, and no question is asked anew.
LEMMA KnownStep == IInv /\ [Next]_vars => Known'
<1> SUFFICES ASSUME IInv, [Next]_vars PROVE Known'
  OBVIOUS
<1>t. TypeOK /\ Nil \notin Asks
  BY NilAssumption DEF IInv
<1>i. Known /\ HoldersTook
  BY DEF IInv
<1> USE DEF TypeOK, Known, HoldersTook
<1>1. CASE BeginRun \/ EndRun \/ ReportAbort \/ CancelRun \/ ParentDone
  BY <1>t, <1>i, <1>1 DEF BeginRun, EndRun, ReportAbort, CancelRun, ParentDone
<1>2. ASSUME NEW q \in Asks, Register(q) PROVE Known'
  BY <1>t, <1>i, <1>2, ZenonT(30) DEF Register, AskGoto
<1>3. ASSUME NEW q \in Asks, EmitRequested(q) PROVE Known'
  BY <1>t, <1>i, <1>3 DEF EmitRequested, AskGoto
<1>4. ASSUME NEW q \in Asks, Resolved(q) PROVE Known'
  BY <1>t, <1>i, <1>4 DEF Resolved, AskGoto
<1>5. ASSUME NEW q \in Asks, ContextDone(q) PROVE Known'
  BY <1>t, <1>i, <1>5 DEF ContextDone, AskGoto
<1>6. ASSUME NEW q \in Asks, ClearPending(q) PROVE Known'
  BY <1>t, <1>i, <1>6 DEF ClearPending, AskGoto, Withdrawn
<1>7. ASSUME NEW k \in Clients, Take(k) PROVE Known'
  BY <1>t, <1>i, <1>7 DEF Take, ClientGoto
<1>8. ASSUME NEW k \in Clients, Send(k) PROVE Known'
  BY <1>t, <1>i, <1>8 DEF Send, ClientGoto
<1>9. ASSUME NEW k \in Clients, Restore(k) PROVE Known'
  BY <1>t, <1>i, <1>9 DEF Restore, ClientGoto, PutBack
<1>10. CASE UNCHANGED vars \/ Terminated
  BY <1>t, <1>i, <1>10 DEF vars, Terminated
<1>11. QED
  BY <1>1, <1>2, <1>3, <1>4, <1>5, <1>6, <1>7, <1>8, <1>9, <1>10 DEF Next, AskStep, ClientStep

\* A client decides what to do with a question as it takes it.
LEMMA TookStep == IInv /\ [Next]_vars => HoldersTook'
<1> SUFFICES ASSUME IInv, [Next]_vars PROVE HoldersTook'
  OBVIOUS
<1>t. TypeOK /\ Nil \notin Asks
  BY NilAssumption DEF IInv
<1>i. HoldersTook
  BY DEF IInv
<1> USE DEF TypeOK, HoldersTook
<1>1. CASE BeginRun \/ EndRun \/ ReportAbort \/ CancelRun \/ ParentDone
  BY <1>t, <1>i, <1>1 DEF BeginRun, EndRun, ReportAbort, CancelRun, ParentDone
<1>2. ASSUME NEW q \in Asks, Register(q) PROVE HoldersTook'
  BY <1>t, <1>i, <1>2 DEF Register, AskGoto
<1>3. ASSUME NEW q \in Asks, EmitRequested(q) PROVE HoldersTook'
  BY <1>t, <1>i, <1>3 DEF EmitRequested, AskGoto
<1>4. ASSUME NEW q \in Asks, Resolved(q) PROVE HoldersTook'
  BY <1>t, <1>i, <1>4 DEF Resolved, AskGoto
<1>5. ASSUME NEW q \in Asks, ContextDone(q) PROVE HoldersTook'
  BY <1>t, <1>i, <1>5 DEF ContextDone, AskGoto
<1>6. ASSUME NEW q \in Asks, ClearPending(q) PROVE HoldersTook'
  BY <1>t, <1>i, <1>6 DEF ClearPending, AskGoto, Withdrawn
<1>7. ASSUME NEW k \in Clients, Take(k) PROVE HoldersTook'
  BY <1>t, <1>i, <1>7 DEF Take, ClientGoto
<1>8. ASSUME NEW k \in Clients, Send(k) PROVE HoldersTook'
  BY <1>t, <1>i, <1>8 DEF Send, ClientGoto
<1>9. ASSUME NEW k \in Clients, Restore(k) PROVE HoldersTook'
  BY <1>t, <1>i, <1>9 DEF Restore, ClientGoto, PutBack
<1>10. CASE UNCHANGED vars \/ Terminated
  BY <1>t, <1>i, <1>10 DEF vars, Terminated
<1>11. QED
  BY <1>1, <1>2, <1>3, <1>4, <1>5, <1>6, <1>7, <1>8, <1>9, <1>10 DEF Next, AskStep, ClientStep

\* A question is asked when no other is, in a run that waits for it.
LEMMA AskedStep == IInv /\ [Next]_vars => OneAsked'
<1> SUFFICES ASSUME IInv, [Next]_vars PROVE OneAsked'
  OBVIOUS
<1>t. TypeOK /\ Nil \notin Asks
  BY NilAssumption DEF IInv
<1>i. OneAsked
  BY DEF IInv
<1> USE DEF TypeOK, OneAsked, Open
<1>1. CASE BeginRun \/ EndRun \/ ReportAbort \/ CancelRun \/ ParentDone
  BY <1>t, <1>i, AskingIsOpen, <1>1 DEF BeginRun, EndRun, ReportAbort, CancelRun, ParentDone
<1>2. ASSUME NEW q \in Asks, Register(q) PROVE OneAsked'
  BY <1>t, <1>i, AskingIsOpen, <1>2, ZenonT(60) DEF Register, AskGoto
<1>3. ASSUME NEW q \in Asks, EmitRequested(q) PROVE OneAsked'
  <2>1. \A p \in Asks : (p # q => ask'[p] = ask[p]) /\ (Open(p)' => Open(p))
    BY <1>t, <1>3 DEF EmitRequested, AskGoto, Open, TypeOK
  <2>2. run' = run
    BY <1>3 DEF EmitRequested
  <2>3. QED
    BY <1>i, <2>1, <2>2 DEF OneAsked
<1>4. ASSUME NEW q \in Asks, Resolved(q) PROVE OneAsked'
  <2>1. \A p \in Asks : (p # q => ask'[p] = ask[p]) /\ (Open(p)' => Open(p))
    BY <1>t, <1>4 DEF Resolved, AskGoto, Open, TypeOK
  <2>2. run' = run
    BY <1>4 DEF Resolved
  <2>3. QED
    BY <1>i, <2>1, <2>2 DEF OneAsked
<1>5. ASSUME NEW q \in Asks, ContextDone(q) PROVE OneAsked'
  <2>1. \A p \in Asks : (p # q => ask'[p] = ask[p]) /\ (Open(p)' => Open(p))
    BY <1>t, <1>5 DEF ContextDone, AskGoto, Open, TypeOK
  <2>2. run' = run
    BY <1>5 DEF ContextDone
  <2>3. QED
    BY <1>i, <2>1, <2>2 DEF OneAsked
<1>6. ASSUME NEW q \in Asks, ClearPending(q) PROVE OneAsked'
  <2>1. \A p \in Asks : (p # q => ask'[p] = ask[p]) /\ (Open(p)' => Open(p))
    BY <1>t, <1>6 DEF ClearPending, AskGoto, Open, TypeOK
  <2>2. run' = run
    BY <1>6 DEF ClearPending
  <2>3. QED
    BY <1>i, <2>1, <2>2 DEF OneAsked
<1>7. ASSUME NEW k \in Clients, Take(k) PROVE OneAsked'
  BY <1>t, <1>i, AskingIsOpen, <1>7 DEF Take, ClientGoto
<1>8. ASSUME NEW k \in Clients, Send(k) PROVE OneAsked'
  BY <1>t, <1>i, AskingIsOpen, <1>8 DEF Send, ClientGoto
<1>9. ASSUME NEW k \in Clients, Restore(k) PROVE OneAsked'
  BY <1>t, <1>i, AskingIsOpen, <1>9 DEF Restore, ClientGoto, PutBack
<1>10. CASE UNCHANGED vars \/ Terminated
  BY <1>t, <1>i, AskingIsOpen, <1>10 DEF vars, Terminated
<1>11. QED
  BY <1>1, <1>2, <1>3, <1>4, <1>5, <1>6, <1>7, <1>8, <1>9, <1>10 DEF Next, AskStep, ClientStep

\* A question that is withdrawn or resolved is not pending.
LEMMA PendingStep == IInv /\ [Next]_vars => PendingAsked'
<1> SUFFICES ASSUME IInv, [Next]_vars PROVE PendingAsked'
  OBVIOUS
<1>t. TypeOK /\ Nil \notin Asks
  BY NilAssumption DEF IInv
<1>i. OneAsked /\ PendingAsked /\ Places /\ HoldersTook
  BY DEF IInv
<1> USE DEF TypeOK, OneAsked, PendingAsked, Open, Places, PendingOnly, HoldersTook
<1>1. CASE BeginRun \/ EndRun \/ ReportAbort \/ CancelRun \/ ParentDone
  BY <1>t, <1>i, AskingIsOpen, <1>1 DEF BeginRun, EndRun, ReportAbort, CancelRun, ParentDone
<1>2. ASSUME NEW q \in Asks, Register(q) PROVE PendingAsked'
  <2>1. CASE pending = Nil
    <3>1. pending' = q /\ ask'[q] = "registered"
      BY <1>t, <1>2, <2>1 DEF Register, AskGoto
    <3>2. QED
      BY <3>1
  <2>2. CASE pending # Nil
    <3>1. ~Open(pending) /\ UNCHANGED stale /\ pending' \in {pending, Nil}
      BY <1>t, AskingIsOpen, <1>2, <2>2 DEF Register
    <3>2. QED
      BY <1>i, <2>2, <3>1
  <2>3. QED
    BY <2>1, <2>2
<1>3. ASSUME NEW q \in Asks, EmitRequested(q) PROVE PendingAsked'
  BY <1>t, <1>i, AskingIsOpen, <1>3 DEF EmitRequested, AskGoto
<1>4. ASSUME NEW q \in Asks, Resolved(q) PROVE PendingAsked'
  BY <1>t, <1>i, AskingIsOpen, <1>4 DEF Resolved, AskGoto
<1>5. ASSUME NEW q \in Asks, ContextDone(q) PROVE PendingAsked'
  BY <1>t, <1>i, AskingIsOpen, <1>5 DEF ContextDone, AskGoto
<1>6. ASSUME NEW q \in Asks, ClearPending(q) PROVE PendingAsked'
  BY <1>t, <1>i, AskingIsOpen, <1>6 DEF ClearPending, AskGoto, Withdrawn
<1>7. ASSUME NEW k \in Clients, Take(k) PROVE PendingAsked'
  BY <1>t, <1>i, AskingIsOpen, <1>7 DEF Take, ClientGoto
<1>8. ASSUME NEW k \in Clients, Send(k) PROVE PendingAsked'
  BY <1>t, <1>i, AskingIsOpen, <1>8 DEF Send, ClientGoto
<1>9. ASSUME NEW k \in Clients, Restore(k) PROVE PendingAsked'
  BY <1>t, <1>i, AskingIsOpen, <1>9 DEF Restore, ClientGoto, PutBack
<1>10. CASE UNCHANGED vars \/ Terminated
  BY <1>t, <1>i, AskingIsOpen, <1>10 DEF vars, Terminated
<1>11. QED
  BY <1>1, <1>2, <1>3, <1>4, <1>5, <1>6, <1>7, <1>8, <1>9, <1>10 DEF Next, AskStep, ClientStep

\* A second question finds another one pending, which then is stale.
LEMMA RefusedStep == IInv /\ [Next]_vars => RefusedOnlyIfStale'
<1> SUFFICES ASSUME IInv, [Next]_vars PROVE RefusedOnlyIfStale'
  OBVIOUS
<1>t. TypeOK /\ Nil \notin Asks
  BY NilAssumption DEF IInv
<1>i. OneAsked /\ PendingAsked /\ RefusedOnlyIfStale
  BY DEF IInv
<1> USE DEF TypeOK, OneAsked, PendingAsked, RefusedOnlyIfStale, Open
<1>1. CASE BeginRun \/ EndRun \/ ReportAbort \/ CancelRun \/ ParentDone
  BY <1>t, <1>i, AskingIsOpen, <1>1 DEF BeginRun, EndRun, ReportAbort, CancelRun, ParentDone
<1>2. ASSUME NEW q \in Asks, Register(q) PROVE RefusedOnlyIfStale'
  BY <1>t, <1>i, AskingIsOpen, <1>2 DEF Register, AskGoto
<1>3. ASSUME NEW q \in Asks, EmitRequested(q) PROVE RefusedOnlyIfStale'
  BY <1>t, <1>i, AskingIsOpen, <1>3 DEF EmitRequested, AskGoto
<1>4. ASSUME NEW q \in Asks, Resolved(q) PROVE RefusedOnlyIfStale'
  BY <1>t, <1>i, AskingIsOpen, <1>4 DEF Resolved, AskGoto
<1>5. ASSUME NEW q \in Asks, ContextDone(q) PROVE RefusedOnlyIfStale'
  BY <1>t, <1>i, AskingIsOpen, <1>5 DEF ContextDone, AskGoto
<1>6. ASSUME NEW q \in Asks, ClearPending(q) PROVE RefusedOnlyIfStale'
  BY <1>t, <1>i, AskingIsOpen, <1>6, ZenonT(30) DEF ClearPending, AskGoto, Withdrawn
<1>7. ASSUME NEW k \in Clients, Take(k) PROVE RefusedOnlyIfStale'
  BY <1>t, <1>i, AskingIsOpen, <1>7 DEF Take, ClientGoto
<1>8. ASSUME NEW k \in Clients, Send(k) PROVE RefusedOnlyIfStale'
  BY <1>t, <1>i, AskingIsOpen, <1>8 DEF Send, ClientGoto
<1>9. ASSUME NEW k \in Clients, Restore(k) PROVE RefusedOnlyIfStale'
  BY <1>t, <1>i, AskingIsOpen, <1>9 DEF Restore, ClientGoto, PutBack
<1>10. CASE UNCHANGED vars \/ Terminated
  BY <1>t, <1>i, AskingIsOpen, <1>10 DEF vars, Terminated
<1>11. QED
  BY <1>1, <1>2, <1>3, <1>4, <1>5, <1>6, <1>7, <1>8, <1>9, <1>10 DEF Next, AskStep, ClientStep

\* Steps that at most drop the pending question.
Drops == /\ pending' \in {pending, Nil}
         /\ UNCHANGED <<reply, client, took>>

LEMMA DroppingSteps ==
    /\ BeginRun \/ EndRun \/ ReportAbort \/ CancelRun \/ ParentDone \/ Terminated \/ UNCHANGED vars
       => Drops
    /\ \A q \in Asks : EmitRequested(q) \/ ContextDone(q) \/ ClearPending(q) => Drops
    /\ \A q \in Asks : Register(q) /\ pending # Nil => Drops
BY DEF Drops, vars, BeginRun, EndRun, ReportAbort, CancelRun, ParentDone, Terminated,
       EmitRequested, ContextDone, ClearPending, Withdrawn, Register

\* A question moves from one place to the next.
LEMMA PlaceStep == IInv /\ [Next]_vars => Places'
<1> SUFFICES ASSUME IInv, [Next]_vars PROVE Places'
  OBVIOUS
<1>p. Places /\ Known /\ HoldersTook /\ pending \in Asks \union {Nil}
  BY DEF IInv, TypeOK
<1>f. /\ reply \in [Asks -> {"empty", "answered", "rejected"}]
      /\ DOMAIN client = Clients /\ DOMAIN took = Clients
  BY DEF IInv, TypeOK
<1>1. CASE Drops
  BY <1>p, <1>1, NilAssumption DEF Drops, Places, PendingOnly, ReplyOnly, OneHolder, Holds
<1>2. ASSUME NEW q \in Asks, Register(q), pending = Nil PROVE Places'
  <2>1. reply[q] = "empty" /\ \A k \in Clients : took[k] # q
    BY <1>p, <1>2 DEF Known, Register
  <2>2. pending' = q /\ UNCHANGED <<reply, client, took>>
    BY <1>2 DEF Register
  <2>3. QED
    BY <1>p, <2>1, <2>2 DEF Places, PendingOnly, ReplyOnly, OneHolder, Holds
<1>3. ASSUME NEW q \in Asks, Resolved(q) PROVE Places'
  <2>1. \A p \in Asks : reply'[p] = IF p = q THEN "empty" ELSE reply[p]
    BY <1>f, <1>3 DEF Resolved
  <2>2. UNCHANGED <<pending, client, took>>
    BY <1>3 DEF Resolved
  <2>3. QED
    BY <1>p, <2>1, <2>2 DEF Places, PendingOnly, ReplyOnly, OneHolder, Holds
<1>4. ASSUME NEW k \in Clients, Take(k) PROVE Places'
  <2>1. CASE Drops
    BY <1>1, <2>1
  <2>2. CASE UNCHANGED <<pending, took, reply>> /\ ClientGoto(k, "unknown")
    <3>1. \A l \in Clients, q \in Asks : Holds(l, q)' => Holds(l, q)
      BY <1>f, <2>2 DEF Holds, ClientGoto
    <3>2. QED
      BY <1>p, <2>2, <3>1 DEF Places, PendingOnly, ReplyOnly, OneHolder
  <2>3. ASSUME NEW q \in Asks, pending = q, pending' = Nil, took' = [took EXCEPT ![k] = q],
               client' = [client EXCEPT ![k] = client'[k]], UNCHANGED reply
        PROVE  Places'
    <3>1. \A l \in Clients, p \in Asks : Holds(l, p)' => Holds(l, p) \/ (l = k /\ p = q)
      BY <1>f, <2>3 DEF Holds
    <3>2. reply[q] = "empty" /\ \A l \in Clients : ~Holds(l, q)
      BY <1>p, <2>3 DEF Places, PendingOnly
    <3>3. QED
      BY <1>p, <2>3, <3>1, <3>2, NilAssumption DEF Places, PendingOnly, ReplyOnly, OneHolder
  <2>4. QED
    BY <1>4, <1>f, <2>2, <2>3 DEF Take, ClientGoto
<1>5. ASSUME NEW k \in Clients, Send(k) PROVE Places'
  <2>1. Holds(k, took[k]) /\ took[k] \in Asks
    BY <1>p, <1>5 DEF Send, Holds, HoldersTook
  <2>2. \A q \in Asks : q # took[k] => reply'[q] = reply[q]
    BY <1>f, <1>5 DEF Send
  <2>3. \A l \in Clients, q \in Asks : Holds(l, q)' => Holds(l, q) /\ l # k
    BY <1>f, <1>5 DEF Send, Holds, ClientGoto
  <2>4. pending' = pending
    BY <1>5 DEF Send
  <2>5. QED
    BY <1>p, <2>1, <2>2, <2>3, <2>4 DEF Places, PendingOnly, ReplyOnly, OneHolder
<1>6. ASSUME NEW k \in Clients, Restore(k) PROVE Places'
  <2>1. Holds(k, took[k]) /\ took[k] \in Asks
    BY <1>p, <1>6 DEF Restore, Holds, HoldersTook
  <2>2. \A l \in Clients, q \in Asks : Holds(l, q)' => Holds(l, q) /\ l # k
    BY <1>f, <1>6 DEF Restore, Holds, ClientGoto
  <2>3. pending' \in {pending, took[k]} /\ UNCHANGED reply
    BY <1>6 DEF Restore, PutBack
  <2>4. QED
    BY <1>p, <2>1, <2>2, <2>3 DEF Places, PendingOnly, ReplyOnly, OneHolder
<1>7. QED
  BY <1>1, <1>2, <1>3, <1>4, <1>5, <1>6, DroppingSteps DEF Next, AskStep, ClientStep

\* While its run goes on, a question leaves a place only for the next.
LEMMA FindableStep == IInv /\ [Next]_vars => Findable'
<1> SUFFICES ASSUME IInv, [Next]_vars,
                    NEW q \in Asks, ask'[q] \in {"registered", "waiting"}, run' = "running",
                    ~aborting', ~stale'
             PROVE  pending' = q \/ reply'[q] # "empty" \/ \E k \in Clients : Holds(k, q)'
  BY DEF Findable
<1> DEFINE Found == pending = q \/ reply[q] # "empty" \/ \E k \in Clients : Holds(k, q)
<1>p. Places /\ Findable /\ OneAsked /\ PendingAsked /\ HoldersTook /\ pending \in Asks \union {Nil}
  BY DEF IInv, TypeOK
<1>f. /\ DOMAIN ask = Asks /\ DOMAIN reply = Asks
      /\ reply \in [Asks -> {"empty", "answered", "rejected"}]
      /\ DOMAIN client = Clients /\ DOMAIN took = Clients
  BY DEF IInv, TypeOK
<1>0. ask[q] \in {"registered", "waiting"} /\ run = "running" /\ ~aborting /\ ~stale => Found
  BY <1>p DEF Findable
<1>1. CASE BeginRun \/ EndRun \/ ReportAbort \/ CancelRun \/ ParentDone
  BY <1>1, <1>p DEF BeginRun, EndRun, ReportAbort, CancelRun, ParentDone, OneAsked, Open
<1>2. ASSUME NEW p \in Asks, Register(p) PROVE Found'
  <2>1. run' # "cancelled" /\ \A r \in Asks : ~Open(r)
    BY <1>2, AskingIsOpen DEF Register
  <2>2. pending' = p /\ ask' = [ask EXCEPT ![p] = "registered"]
    BY <1>2, <2>1 DEF Register, AskGoto
  <2>3. q = p
    BY <1>f, <2>1, <2>2 DEF Open
  <2>4. QED
    BY <2>2, <2>3
<1>3. ASSUME NEW p \in Asks, EmitRequested(p) \/ Resolved(p) PROVE Found'
  <2>1. /\ ask[q] \in {"registered", "waiting"} /\ reply'[q] = reply[q]
        /\ UNCHANGED <<pending, run, aborting, stale, client, took>>
    BY <1>f, <1>3 DEF EmitRequested, Resolved, AskGoto
  <2>2. QED
    BY <1>0, <2>1 DEF Holds
<1>4. ASSUME NEW p \in Asks, ContextDone(p) \/ ClearPending(p) PROVE Found'
  <2>1. Open(p) /\ p # q /\ ask'[q] = ask[q] /\ run' = run
    BY <1>f, <1>4 DEF ContextDone, ClearPending, AskGoto, Open
  <2>2. QED
    BY <1>p, <2>1 DEF OneAsked, Open
<1>5. ASSUME NEW k \in Clients, Take(k) PROVE Found'
  <2>1. Found /\ ~Holds(k, q) /\ UNCHANGED reply
    BY <1>0, <1>5 DEF Take, Holds
  <2>2. \A l \in Clients : Holds(l, q) => Holds(l, q)'
    BY <1>f, <1>5, <2>1 DEF Take, Holds, ClientGoto
  <2>3. pending = q => pending' = q \/ Holds(k, q)'
    BY <1>f, <1>5 DEF Take, Holds, ClientGoto
  <2>4. QED
    BY <2>1, <2>2, <2>3
<1>6. ASSUME NEW k \in Clients, Send(k) PROVE Found'
  <2>1. Found /\ UNCHANGED pending
    BY <1>0, <1>6 DEF Send
  <2>2. took[k] = q => reply'[q] # "empty"
    BY <1>f, <1>6 DEF Send
  <2>3. took[k] # q => reply'[q] = reply[q] /\ \A l \in Clients : Holds(l, q) => Holds(l, q)'
    BY <1>f, <1>6 DEF Send, Holds, ClientGoto
  <2>4. QED
    BY <2>1, <2>2, <2>3
<1>7. ASSUME NEW k \in Clients, Restore(k) PROVE Found'
  <2>1. Found /\ Open(q) /\ ~stale /\ UNCHANGED reply
    BY <1>0, <1>7 DEF Restore, Open
  <2>2. CASE took[k] # q
    <3>1. \A l \in Clients : Holds(l, q) => Holds(l, q)'
      BY <1>f, <1>7, <2>2 DEF Restore, Holds, ClientGoto
    <3>2. pending = q => pending' = q
      BY <1>7, NilAssumption DEF Restore, PutBack
    <3>3. QED
      BY <2>1, <3>1, <3>2
  <2>3. CASE took[k] = q
    <3>1. Holds(k, q)
      BY <1>7, <2>3 DEF Restore, Holds
    <3>2. pending = Nil
      BY <1>p, <2>1, <3>1 DEF PendingAsked, OneAsked, Places, PendingOnly
    <3>3. QED
      BY <1>7, <2>3, <3>2 DEF Restore, PutBack
  <2>4. QED
    BY <2>2, <2>3
<1>8. CASE UNCHANGED vars \/ Terminated
  BY <1>0, <1>8 DEF vars, Terminated, Holds
<1>9. QED
  BY <1>1, <1>2, <1>3, <1>4, <1>5, <1>6, <1>7, <1>8 DEF Next, AskStep, ClientStep

\* Before anything is asked, the invariant holds.
LEMMA InvInit == Init => IInv
<1> SUFFICES ASSUME Init PROVE IInv
  OBVIOUS
<1>1. TypeOK
  <2>1. aborting \in BOOLEAN /\ broken \in BOOLEAN /\ stale \in BOOLEAN
    BY Zenon DEF Init
  <2>2. runs \in 0..MaxRuns
    BY RunsAssumption DEF Init
  <2>3. QED
    BY <2>1, <2>2 DEF Init, TypeOK
<1>2. Known /\ HoldersTook /\ RefusedOnlyIfStale /\ PendingAsked /\ OneAsked
  BY NilAssumption DEF Init, Known, HoldersTook, RefusedOnlyIfStale, PendingAsked, OneAsked, Open
<1>3. Places /\ Findable
  BY NilAssumption DEF Init, Places, PendingOnly, ReplyOnly, OneHolder, Holds, Findable
<1>4. QED
  BY <1>1, <1>2, <1>3 DEF IInv

\* The inductive invariant holds in every behaviour.
LEMMA Inductive == Spec => []IInv
<1>1. IInv /\ [Next]_vars => IInv'
  BY TypeStep, KnownStep, TookStep, PlaceStep, AskedStep, PendingStep, FindableStep, RefusedStep
     DEF IInv
<1>2. QED
  BY <1>1, InvInit, PTL DEF Spec

\* No question is resolved twice or by two clients: it is pending, taken by one
\* client, or resolved, and a client's send never blocks.
THEOREM ResolvedOnce == Spec => []OnePlace
<1>1. IInv => OnePlace
  BY PlacesMeansOnePlace DEF IInv
<1>2. QED
  BY <1>1, Inductive, PTL

\* While its run is not being stopped and no stale question was put back, a waiting
\* question is pending, taken or resolved: takePendingUserInput, an invalid answer
\* and a concurrent rejection lose none.
THEOREM StaysAnswerable == Spec => []Answerable
<1>1. IInv => Answerable
  BY FindableMeansAnswerable DEF IInv
<1>2. QED
  BY <1>1, Inductive, PTL

\* askUser refuses a question as one too many only after restorePendingUserInput
\* has put a stale one back.
THEOREM RefusalNeedsStale == Spec => []RefusedOnlyIfStale
<1>1. IInv => RefusedOnlyIfStale
  BY DEF IInv
<1>2. QED
  BY <1>1, Inductive, PTL

\* Every variable of the session's questions and of its clients keeps its type.
THEOREM TypeCorrect == Spec => []TypeOK
<1>1. IInv => TypeOK
  BY DEF IInv
<1>2. QED
  BY <1>1, Inductive, PTL

-----------------------------------------------------------------------------
\* Numbers have a least and, below a bound, a greatest: induction by the least
\* counterexample rests on the first.
Less == {ss \in Nat \X Nat : ss[1] < ss[2]}

LEMMA LessIsWellFounded == IsWellFoundedOn(Less, Nat)
BY NatLessThanWellFounded DEF OpToRel, Less

LEMMA LeastNumber ==
    ASSUME NEW T, T \subseteq Nat, T # {}
    PROVE  \E x \in T : \A y \in T : x <= y
<1>1. PICK x \in T : \A y \in T : ~(<<y, x>> \in Less)
  BY LessIsWellFounded, WFMin, Zenon
<1>2. \A y \in T : <<y, x>> \in Nat \X Nat
  OBVIOUS
<1>3. \A y \in T : ~(y < x)
  BY <1>1, <1>2 DEF Less
<1> QED
  BY <1>3

LEMMA GreatestNumber ==
    ASSUME NEW T, NEW n \in Nat, T \subseteq 0..n, T # {}
    PROVE  \E x \in T : \A y \in T : x >= y
<1> DEFINE U == {k \in Nat : n - k \in T}
<1>1. U \subseteq Nat /\ U # {}
  <2>1. PICK t \in T : TRUE
    OBVIOUS
  <2>2. n - t \in Nat /\ n - (n - t) = t
    BY <2>1
  <2> QED
    BY <2>1, <2>2
<1>2. PICK k \in U : \A l \in U : k <= l
  BY <1>1, LeastNumber
<1>3. ASSUME NEW y \in T PROVE n - k >= y
  <2>1. n - y \in Nat /\ n - (n - y) = y
    OBVIOUS
  <2>2. n - y \in U
    BY <2>1
  <2>3. k <= n - y
    BY <1>2, <2>2
  <2> QED
    BY <1>2, <2>3
<1> QED
  BY <1>2, <1>3

LEMMA MinIsLeast ==
    ASSUME NEW T, T \subseteq Nat, T # {}
    PROVE  Min(T) \in T /\ \A y \in T : Min(T) <= y
<1>1. \E x \in T : \A y \in T : x <= y
  BY LeastNumber
<1> QED
  BY <1>1 DEF Min

LEMMA MaxIsGreatest ==
    ASSUME NEW T, NEW n \in Nat, T \subseteq 0..n, T # {}
    PROVE  Max(T) \in T /\ \A y \in T : Max(T) >= y
<1>1. \E x \in T : \A y \in T : x >= y
  BY GreatestNumber
<1> QED
  BY <1>1 DEF Max

-----------------------------------------------------------------------------
\* The kinds of messages and of calls, and where a call may be.
Roles == {"system", "user", "assistant", "tool", "summary"}
Messages ==
    {m \in [role : Roles, calls : Seq(Nat), of : Nat] :
       m.role # "assistant" => m.calls = <<>>}
Indices == 1..Len(calls)
AttemptPlaces == {"requested", "started", "taken", "executing", "sent", "closed"}

Calls == [id : Nat, kind : Kinds]
AnswerTypes ==
    /\ calls \in Seq(Calls)
    /\ from \in Nat /\ stop \in Nat /\ 1 <= from /\ from <= stop /\ stop <= Len(calls) + 1
    /\ attempt \in [Indices -> AttemptPlaces]
    /\ outcome \in [Indices -> {"none", "returned", "aborted"}]
    /\ results \in [Indices -> Nat]
    /\ event \in [Indices -> {"none", "returned", "aborted", "unsettled"}]
    /\ done \in Seq(Nat)
    /\ phase \in {"idle", "round", "model", "tools"}
    /\ phase # "tools" => calls = <<>>

\* The calls are executed a step at a time.
StepByStep ==
    \A i \in Indices :
       /\ i < from => attempt[i] = "closed"
       /\ i >= stop => attempt[i] = "requested"
       /\ i >= from /\ i < stop => attempt[i] # "requested"

\* The channel holds what has been sent and not collected, once.
Channel ==
    /\ \A k \in 1..Len(done) : done[k] \in Indices /\ attempt[done[k]] = "sent"
    /\ \A i \in Indices : attempt[i] = "sent" => \E k \in 1..Len(done) : done[k] = i
    /\ \A k, l \in 1..Len(done) : done[k] = done[l] => k = l

\* What has been sent has come to something, and what is closed has its own result.
Answered ==
    \A i \in Indices :
       /\ attempt[i] \in {"sent", "closed"} => outcome[i] # "none"
       /\ attempt[i] = "closed" =>
             results[i] = calls[i].id /\ event[i] \in {outcome[i], "unsettled"}

\* A serial call is a step by itself; only a batch has several workers.
Executing == {i \in Indices : attempt[i] = "executing"}
LimitedRunning == {i \in Executing : calls[i].kind = "limited"}
Apart ==
    /\ \A i \in Indices : i >= from /\ i < stop /\ calls[i].kind = "serial" => stop = from + 1
    /\ Cardinality(Busy) <= Limit \/ stop = from + 1
    /\ Cardinality(LimitedRunning) <= Capacity

ToolInv == AnswerTypes /\ StepByStep /\ Channel /\ Answered /\ Apart

Typed == messages \in Seq(Messages) /\ base \in Seq(Messages)

ResultsAt(ms, n, i) ==
    /\ i + Len(ms[i].calls) <= n
    /\ \A k \in 1..Len(ms[i].calls) :
          ms[i + k].role = "tool" /\ ms[i + k].of = ms[i].calls[k]
CallAt(ms, n, i) ==
    \E j \in 1..n : j < i /\ ms[j].role = "assistant" /\ i <= j + Len(ms[j].calls)
\* The first n messages: the results of each assistant's calls follow it in the order of
\* the calls, and there are no others.
Complete(ms, n) ==
    \A i \in 1..n : /\ ms[i].role = "assistant" => ResultsAt(ms, n, i)
                    /\ ms[i].role = "tool" => CallAt(ms, n, i)
DistinctCalls(ms, i, j) ==
    \A k \in 1..Len(ms[i].calls), l \in 1..Len(ms[j].calls) :
       ms[i].calls[k] = ms[j].calls[l] => i = j /\ k = l

\* No call id occurs twice.
Distinct(ms) == \A i, j \in 1..Len(ms) : DistinctCalls(ms, i, j)
Whole(ms) == Complete(ms, Len(ms)) /\ Distinct(ms)

\* While an answer is executed, its calls are all that the transcript wants.
Underway ==
    LET n == Len(messages)
    IN /\ n > 0 /\ messages[n].role = "assistant" /\ Len(messages[n].calls) = Len(calls)
       /\ \A k \in Indices : messages[n].calls[k] = calls[k].id
       /\ Complete(messages, n - 1)

\* Unless a model has used a call id twice, what has been sent and what is gone back to
\* are whole.
Orderly ==
    ~reused =>
       /\ Whole(base) /\ Distinct(messages)
       /\ phase # "tools" => Complete(messages, Len(messages))
       /\ phase = "tools" => Underway

-----------------------------------------------------------------------------
LEMMA AnswerOver == ASSUME NoAnswer, phase' \in {"idle", "round", "model", "tools"} PROVE ToolInv'
<1>1. calls' = <<>> /\ Len(calls') = 0 /\ Indices' = {}
  BY DEF NoAnswer, Indices
<1>2. AnswerTypes'
  BY <1>1 DEF NoAnswer, AnswerTypes
<1>3. Busy' = {} /\ LimitedRunning' = {}
  BY <1>1 DEF Busy, LimitedRunning, Executing, Indices
<1>4. Apart'
  BY <1>1, <1>3, FS_EmptySet, LimitAssumption DEF Apart
<1>5. StepByStep' /\ Answered'
  BY <1>1 DEF StepByStep, Answered
<1>6. Channel'
  BY <1>1 DEF Channel, NoAnswer
<1> QED
  BY <1>2, <1>4, <1>5, <1>6 DEF ToolInv

LEMMA AnswerStays ==
    ASSUME ToolInv, UNCHANGED answer, phase' \in {"idle", "round", "model", "tools"},
           phase' # "tools" => phase # "tools"
    PROVE  ToolInv'
<1>1. UNCHANGED <<calls, from, stop, attempt, outcome, done, results, event>>
  BY DEF answer
<1>2. Indices' = Indices /\ Busy' = Busy /\ LimitedRunning' = LimitedRunning
  BY <1>1 DEF Indices, Busy, LimitedRunning, Executing
<1>3. AnswerTypes'
  BY <1>1, <1>2 DEF ToolInv, AnswerTypes
<1>4. StepByStep' /\ Answered'
  BY <1>1, <1>2 DEF ToolInv, StepByStep, Answered
<1>5. Channel' /\ Apart'
  BY <1>1, <1>2 DEF ToolInv, Channel, Apart
<1> QED
  BY <1>3, <1>4, <1>5 DEF ToolInv

\* What the tool steps leave alone.
LEMMA Framed ==
    ASSUME ToolInv, Frame
    PROVE  /\ calls' = calls /\ phase' = phase /\ Indices' = Indices /\ Indices = DOMAIN calls
           /\ Len(calls) \in Nat
BY DEF Frame, Indices, ToolInv, AnswerTypes

LEMMA CallsAreFinite ==
    ASSUME ToolInv
    PROVE  /\ IsFiniteSet(Indices) /\ Busy \in SUBSET Indices /\ LimitedRunning \in SUBSET Indices
           /\ IsFiniteSet(Busy) /\ IsFiniteSet(LimitedRunning)
           /\ Cardinality(Busy) \in Nat /\ Cardinality(LimitedRunning) \in Nat
<1>1. Len(calls) \in Nat /\ Indices = DOMAIN calls
  BY DEF ToolInv, AnswerTypes, Indices
<1>2. IsFiniteSet(Indices)
  BY <1>1, FS_Interval DEF Indices
<1>3. Busy \in SUBSET Indices /\ LimitedRunning \in SUBSET Indices
  BY <1>1 DEF Busy, LimitedRunning, Executing
<1> QED
  BY <1>2, <1>3, FS_Subset, FS_CardinalityType

LEMMA TakeJobKeeps ==
    ASSUME ToolInv, NEW i \in DOMAIN calls, TakeJob(i)
    PROVE  ToolInv'
<1>1. /\ calls' = calls /\ phase' = phase /\ Indices' = Indices
      /\ i \in Indices /\ Indices = DOMAIN calls
      /\ UNCHANGED <<from, stop, outcome, done, results, event>>
      /\ attempt[i] = "started" /\ Cardinality(Busy) < Limit
      /\ attempt' = [attempt EXCEPT ![i] = "taken"]
  BY Framed DEF TakeJob
<1>2. AnswerTypes'
  BY <1>1 DEF ToolInv, AnswerTypes, AttemptPlaces
<1>3. /\ attempt'[i] = "taken" /\ \A j \in Indices \ {i} : attempt'[j] = attempt[j]
  BY <1>1 DEF ToolInv, AnswerTypes
<1>4. StepByStep' /\ Answered'
  BY <1>1, <1>3 DEF ToolInv, StepByStep, Answered
<1>5. Channel'
  BY <1>1, <1>3 DEF ToolInv, Channel
<1>6. Apart'
  <2>1. Busy' = Busy \union {i} /\ LimitedRunning' = LimitedRunning
    BY <1>1, <1>3 DEF Busy, LimitedRunning, Executing
  <2>2. Cardinality(Busy') <= Limit
    <3>1. IsFiniteSet(Busy) /\ Cardinality(Busy) \in Nat /\ i \notin Busy
      BY <1>1, CallsAreFinite DEF Busy
    <3>2. Cardinality(Busy') = Cardinality(Busy) + 1
      BY <2>1, <3>1, FS_AddElement
    <3> QED
      BY <1>1, <3>1, <3>2, LimitAssumption
  <2> QED
    BY <1>1, <2>1, <2>2 DEF ToolInv, Apart
<1> QED
  BY <1>2, <1>4, <1>5, <1>6 DEF ToolInv

LEMMA AcquireKeeps ==
    ASSUME ToolInv, NEW i \in DOMAIN calls, Acquire(i)
    PROVE  ToolInv'
<1>1. /\ calls' = calls /\ phase' = phase /\ Indices' = Indices
      /\ i \in Indices /\ Indices = DOMAIN calls
      /\ UNCHANGED <<from, stop, outcome, done, results, event>>
      /\ attempt[i] = "taken" /\ Room(i)
      /\ attempt' = [attempt EXCEPT ![i] = "executing"]
  BY Framed DEF Acquire
<1>2. AnswerTypes'
  BY <1>1 DEF ToolInv, AnswerTypes, AttemptPlaces
<1>3. /\ attempt'[i] = "executing" /\ \A j \in Indices \ {i} : attempt'[j] = attempt[j]
  BY <1>1 DEF ToolInv, AnswerTypes
<1>4. StepByStep' /\ Answered'
  BY <1>1, <1>3 DEF ToolInv, StepByStep, Answered
<1>5. Channel'
  BY <1>1, <1>3 DEF ToolInv, Channel
<1>6. Apart'
  <2>1. Busy' = Busy
    BY <1>1, <1>3 DEF Busy
  <2>2. Cardinality(LimitedRunning') <= Capacity
    <3>1. CASE calls[i].kind = "limited"
      <4>1. LimitedRunning' = LimitedRunning \union {i}
        BY <1>1, <1>3, <3>1 DEF LimitedRunning, Executing
      <4>2. {j \in Busy : calls[j].kind = "limited" /\ attempt[j] = "executing"} = LimitedRunning
        BY Framed DEF Busy, LimitedRunning, Executing, Acquire
      <4>3. Cardinality(LimitedRunning) < Capacity
        BY <1>1, <3>1, <4>2 DEF Room
      <4> QED
        <5>1. /\ IsFiniteSet(LimitedRunning) /\ Cardinality(LimitedRunning) \in Nat
              /\ i \notin LimitedRunning
          BY <1>1, CallsAreFinite DEF LimitedRunning, Executing
        <5>2. Cardinality(LimitedRunning') = Cardinality(LimitedRunning) + 1
          BY <4>1, <5>1, FS_AddElement
        <5> QED
          BY <4>3, <5>1, <5>2, LimitAssumption
    <3>2. CASE calls[i].kind # "limited"
      <4>1. LimitedRunning' = LimitedRunning
        BY <1>1, <1>3, <3>2 DEF LimitedRunning, Executing
      <4> QED
        BY <4>1 DEF ToolInv, Apart
    <3> QED
      BY <3>1, <3>2
  <2> QED
    BY <1>1, <2>1, <2>2 DEF ToolInv, Apart
<1> QED
  BY <1>2, <1>4, <1>5, <1>6 DEF ToolInv

LEMMA SentKeeps ==
    ASSUME ToolInv, NEW i \in DOMAIN calls, NEW result \in {"returned", "aborted"},
           Sent(i, result), attempt[i] \in {"taken", "executing"}
    PROVE  ToolInv'
<1>1. /\ calls' = calls /\ phase' = phase /\ Indices' = Indices
      /\ i \in Indices /\ Indices = DOMAIN calls
      /\ UNCHANGED <<from, stop, results, event>>
      /\ attempt' = [attempt EXCEPT ![i] = "sent"]
      /\ outcome' = [outcome EXCEPT ![i] = result]
      /\ done' = Append(done, i)
  BY Framed DEF Sent
<1>2. i \in Nat
  BY <1>1 DEF Indices
<1>3. AnswerTypes'
  <2>1. /\ attempt' \in [Indices -> AttemptPlaces]
        /\ outcome' \in [Indices -> {"none", "returned", "aborted"}]
    BY <1>1 DEF ToolInv, AnswerTypes, AttemptPlaces
  <2>2. done' \in Seq(Nat)
    BY <1>1, <1>2, AppendProperties DEF ToolInv, AnswerTypes
  <2> QED
    BY <1>1, <2>1, <2>2 DEF ToolInv, AnswerTypes
<1>4. /\ attempt'[i] = "sent" /\ \A j \in Indices \ {i} : attempt'[j] = attempt[j]
      /\ outcome'[i] = result /\ \A j \in Indices \ {i} : outcome'[j] = outcome[j]
  BY <1>1 DEF ToolInv, AnswerTypes
<1>5. StepByStep'
  BY <1>1, <1>4 DEF ToolInv, StepByStep
<1>6. Answered'
  BY <1>1, <1>4 DEF ToolInv, Answered
<1>7. Channel'
  <2>1. /\ Len(done') = Len(done) + 1 /\ done'[Len(done) + 1] = i /\ Len(done) \in Nat
        /\ \A k \in 1..Len(done) : done'[k] = done[k]
    BY <1>1, <1>2, AppendProperties DEF ToolInv, AnswerTypes
  <2>2. \A k \in 1..Len(done') : k = Len(done) + 1 \/ k \in 1..Len(done)
    BY <2>1
  <2>3. \A k \in 1..Len(done) : done[k] # i /\ k \in 1..Len(done')
    BY <2>1 DEF ToolInv, Channel
  <2>4. \A k \in 1..Len(done') : done'[k] \in Indices /\ attempt'[done'[k]] = "sent"
    BY <1>1, <1>4, <2>1, <2>2, <2>3 DEF ToolInv, Channel
  <2>5. \A j \in Indices : attempt'[j] = "sent" => \E k \in 1..Len(done') : done'[k] = j
    <3>1. Len(done) + 1 \in 1..Len(done')
      BY <2>1
    <3> QED
      BY <1>4, <2>1, <2>3, <3>1 DEF ToolInv, Channel
  <2>6. \A k, l \in 1..Len(done') : done'[k] = done'[l] => k = l
    BY <2>1, <2>2, <2>3 DEF ToolInv, Channel
  <2> QED
    BY <1>1, <2>4, <2>5, <2>6 DEF Channel
<1>8. Apart'
  <2>1. Busy' = Busy \ {i} /\ LimitedRunning' = LimitedRunning \ {i}
    BY <1>1, <1>4 DEF Busy, LimitedRunning, Executing
  <2>2. Cardinality(Busy') <= Cardinality(Busy)
        /\ Cardinality(LimitedRunning') <= Cardinality(LimitedRunning)
        /\ Cardinality(Busy') \in Nat /\ Cardinality(LimitedRunning') \in Nat
    BY <2>1, CallsAreFinite, FS_Subset, FS_CardinalityType
  <2>3. Cardinality(LimitedRunning') <= Capacity
    BY <2>2, CallsAreFinite, LimitAssumption DEF ToolInv, Apart
  <2>4. Cardinality(Busy') <= Limit \/ stop = from + 1
    BY <2>2, CallsAreFinite, LimitAssumption DEF ToolInv, Apart
  <2> QED
    BY <1>1, <2>3, <2>4 DEF ToolInv, Apart
<1> QED
  BY <1>3, <1>5, <1>6, <1>7, <1>8 DEF ToolInv

LEMMA CollectKeeps == ASSUME ToolInv, Collect PROVE ToolInv'
<1> DEFINE i == Head(done)
<1>0. i \in Indices /\ attempt[i] = "sent" /\ done # <<>> /\ Len(done) \in Nat \ {0} /\ i = done[1]
  <2>1. done # <<>> /\ done \in Seq(Nat)
    BY DEF Collect, ToolInv, AnswerTypes
  <2>2. Len(done) \in Nat \ {0} /\ i = done[1]
    BY <2>1, HeadTailProperties, EmptySeq
  <2> QED
    BY <2>1, <2>2 DEF ToolInv, Channel
<1>1. /\ calls' = calls /\ phase' = phase /\ Indices' = Indices /\ Indices = DOMAIN calls
      /\ UNCHANGED <<from, stop, outcome>>
      /\ attempt' = [attempt EXCEPT ![i] = "closed"]
      /\ results' = [results EXCEPT ![i] = calls[i].id]
      /\ done' = Tail(done)
  BY Framed DEF Collect, Slot
<1>2. PICK e \in {outcome[i], "unsettled"} : event' = [event EXCEPT ![i] = e]
  BY DEF Collect
<1>3. calls[i].id \in Nat
  <2>1. calls[i] \in Calls
    BY <1>0, ElementOfSeq DEF ToolInv, AnswerTypes, Indices
  <2> QED
    BY <2>1 DEF Calls
<1>4. AnswerTypes'
  <2>1. attempt' \in [Indices -> AttemptPlaces] /\ results' \in [Indices -> Nat]
    BY <1>0, <1>1, <1>3 DEF ToolInv, AnswerTypes, AttemptPlaces
  <2>2. event' \in [Indices -> {"none", "returned", "aborted", "unsettled"}]
    BY <1>0, <1>2 DEF ToolInv, AnswerTypes
  <2>3. done' \in Seq(Nat)
    BY <1>0, <1>1, HeadTailProperties DEF ToolInv, AnswerTypes
  <2> QED
    BY <1>1, <2>1, <2>2, <2>3 DEF ToolInv, AnswerTypes
<1>5. /\ attempt'[i] = "closed" /\ \A j \in Indices \ {i} : attempt'[j] = attempt[j]
      /\ results'[i] = calls[i].id /\ \A j \in Indices \ {i} : results'[j] = results[j]
      /\ event'[i] = e /\ \A j \in Indices \ {i} : event'[j] = event[j]
  BY <1>0, <1>1, <1>2 DEF ToolInv, AnswerTypes
<1>6. StepByStep'
  BY <1>0, <1>1, <1>5 DEF ToolInv, StepByStep
<1>7. Answered'
  BY <1>0, <1>1, <1>2, <1>5 DEF ToolInv, Answered
<1>8. Channel'
  <2>1. /\ Len(done') = Len(done) - 1
        /\ \A k \in 1..Len(done') : done'[k] = done[k + 1] /\ k + 1 \in 1..Len(done)
    BY <1>0, <1>1, HeadTailProperties DEF ToolInv, AnswerTypes
  <2>2. \A k \in 1..Len(done') : done'[k] # i
    BY <1>0, <2>1 DEF ToolInv, Channel
  <2>3. \A k \in 1..Len(done') : done'[k] \in Indices /\ attempt'[done'[k]] = "sent"
    <3>1. \A l \in 1..Len(done) : done[l] \in Indices /\ attempt[done[l]] = "sent"
      BY DEF ToolInv, Channel
    <3>2. \A k \in 1..Len(done') : done'[k] \in Indices \ {i} /\ attempt[done'[k]] = "sent"
      BY <2>1, <2>2, <3>1
    <3> QED
      BY <1>5, <3>2
  <2>4. ASSUME NEW j \in Indices, attempt'[j] = "sent" PROVE \E k \in 1..Len(done') : done'[k] = j
    <3>1. j # i /\ attempt[j] = "sent"
      BY <1>5, <2>4
    <3>2. PICK k \in 1..Len(done) : done[k] = j
      BY <3>1 DEF ToolInv, Channel
    <3>3. k # 1
      BY <1>0, <3>1, <3>2
    <3>4. k - 1 \in 1..Len(done') /\ (k - 1) + 1 = k
      BY <1>0, <2>1, <3>3
    <3> QED
      BY <2>1, <3>2, <3>4
  <2>5. \A k, l \in 1..Len(done') : done'[k] = done'[l] => k = l
    <3>1. \A k, l \in 1..Len(done') : done[k + 1] = done[l + 1] => k + 1 = l + 1
      BY <2>1 DEF ToolInv, Channel
    <3> QED
      BY <2>1, <3>1
  <2> QED
    BY <1>1, <2>3, <2>4, <2>5 DEF Channel
<1>9. Apart'
  <2>1. Busy' = Busy /\ LimitedRunning' = LimitedRunning
    BY <1>0, <1>1, <1>5 DEF Busy, LimitedRunning, Executing
  <2> QED
    BY <1>1, <2>1 DEF ToolInv, Apart
<1> QED
  BY <1>4, <1>6, <1>7, <1>8, <1>9 DEF ToolInv

\* A step that is over has left nothing behind.
LEMMA AllClosed ==
    ASSUME ToolInv, StepOver
    PROVE  \A i \in Indices : i < stop => attempt[i] = "closed"
<1> SUFFICES ASSUME NEW i \in Indices, i < stop PROVE attempt[i] = "closed"
  OBVIOUS
<1>1. from \in Nat /\ stop \in Nat /\ i \in Nat /\ attempt[i] \in AttemptPlaces
  BY DEF ToolInv, AnswerTypes, Indices
<1>2. CASE i < from
  BY <1>2 DEF ToolInv, StepByStep
<1>3. CASE i >= from
  <2>1. attempt[i] # "requested"
    BY <1>3 DEF ToolInv, StepByStep
  <2>2. attempt[i] # "started"
    BY <1>1, <1>3 DEF StepOver
  <2>3. attempt[i] \notin {"taken", "executing"}
    BY DEF StepOver, Busy, Indices, ToolInv, AnswerTypes
  <2>4. attempt[i] # "sent"
    BY DEF StepOver, ToolInv, Channel
  <2> QED
    BY <1>1, <2>1, <2>2, <2>3, <2>4 DEF AttemptPlaces
<1> QED
  BY <1>1, <1>2, <1>3

LEMMA BatchEnds ==
    ASSUME ToolInv, stop <= Len(calls)
    PROVE  /\ BatchEnd(stop) \in Nat /\ BatchEnd(stop) >= stop /\ BatchEnd(stop) <= Len(calls) + 1
           /\ \A i \in Indices : i >= stop /\ i < BatchEnd(stop) => calls[i].kind # "serial"
<1> DEFINE T == {j \in stop..(Len(calls) + 1) : j > Len(calls) \/ calls[j].kind = "serial"}
<1>1. Len(calls) \in Nat /\ stop \in Nat
  BY DEF ToolInv, AnswerTypes
<1>2. T \subseteq Nat /\ Len(calls) + 1 \in T
  BY <1>1
<1>3. BatchEnd(stop) \in T /\ \A j \in T : BatchEnd(stop) <= j
  BY <1>2, MinIsLeast DEF BatchEnd
<1>4. ASSUME NEW i \in Indices, i >= stop, i < BatchEnd(stop), calls[i].kind = "serial" PROVE FALSE
  <2>1. i \in T
    BY <1>1, <1>4 DEF Indices
  <2> QED
    BY <1>1, <1>3, <1>4, <2>1
<1> QED
  BY <1>1, <1>3, <1>4

LEMMA StartStepKeeps == ASSUME ToolInv, StartStep PROVE ToolInv'
<1>1. /\ calls' = calls /\ phase' = phase /\ Indices' = Indices /\ Indices = DOMAIN calls
      /\ UNCHANGED <<outcome, done, results, event>>
      /\ from' = stop /\ stop <= Len(calls) /\ StepOver
  BY Framed DEF StartStep
<1>2. /\ Len(calls) \in Nat /\ stop \in Nat /\ stop \in Indices
      /\ \A i \in Indices : i \in Nat
  BY <1>1 DEF ToolInv, AnswerTypes, Indices
<1>3. \A i \in Indices : /\ i < stop => attempt[i] = "closed"
                         /\ i >= stop => attempt[i] = "requested"
  BY <1>1, AllClosed DEF ToolInv, StepByStep
<1>4. done = <<>> /\ Len(done) = 0
  BY <1>1 DEF StepOver
<1>5. CASE stop' = stop + 1 /\ attempt' = [attempt EXCEPT ![stop] = "executing"]
  <2>1. attempt'[stop] = "executing" /\ \A i \in Indices \ {stop} : attempt'[i] = attempt[i]
    BY <1>2, <1>5 DEF ToolInv, AnswerTypes
  <2>2. AnswerTypes'
    BY <1>1, <1>2, <1>5 DEF ToolInv, AnswerTypes, AttemptPlaces
  <2>3. StepByStep' /\ Answered'
    BY <1>1, <1>2, <1>3, <1>5, <2>1 DEF ToolInv, StepByStep, Answered
  <2>4. Channel'
    <3>1. done' = <<>> /\ Len(done') = 0
      BY <1>1, <1>4
    <3>2. \A i \in Indices : attempt'[i] # "sent"
      BY <1>2, <1>3, <2>1
    <3> QED
      BY <1>1, <3>1, <3>2 DEF Channel
  <2>5. LimitedRunning' \in SUBSET {stop}
    BY <1>1, <1>2, <1>3, <2>1 DEF LimitedRunning, Executing
  <2>6. Cardinality(LimitedRunning') <= Capacity
    <3>1. IsFiniteSet({stop}) /\ Cardinality({stop}) = 1
      BY FS_Singleton
    <3>2. Cardinality(LimitedRunning') <= 1 /\ Cardinality(LimitedRunning') \in Nat
      BY <2>5, <3>1, FS_Subset, FS_CardinalityType
    <3> QED
      BY <3>2, LimitAssumption
  <2>7. Apart'
    BY <1>1, <1>2, <1>5, <2>6 DEF Apart
  <2> QED
    BY <2>2, <2>3, <2>4, <2>7 DEF ToolInv
<1>6. CASE /\ stop' = BatchEnd(stop)
           /\ attempt' = [i \in DOMAIN calls |->
                            IF i \in stop..(BatchEnd(stop) - 1) THEN "started" ELSE attempt[i]]
  <2>1. /\ BatchEnd(stop) \in Nat /\ BatchEnd(stop) >= stop /\ BatchEnd(stop) <= Len(calls) + 1
        /\ \A i \in Indices : i >= stop /\ i < BatchEnd(stop) => calls[i].kind # "serial"
    BY <1>1, BatchEnds
  <2>2. \A i \in Indices :
           attempt'[i] = IF i >= stop /\ i < BatchEnd(stop) THEN "started" ELSE attempt[i]
    BY <1>1, <1>2, <1>6, <2>1
  <2>3. AnswerTypes'
    <3>1. attempt' \in [Indices -> AttemptPlaces]
      BY <1>1, <1>6 DEF ToolInv, AnswerTypes, AttemptPlaces
    <3> QED
      BY <1>1, <1>2, <1>6, <2>1, <3>1 DEF ToolInv, AnswerTypes
  <2>4. StepByStep'
    BY <1>1, <1>2, <1>3, <1>6, <2>1, <2>2 DEF ToolInv, StepByStep
  <2>5. Answered'
    BY <1>1, <2>2 DEF ToolInv, Answered
  <2>6. Channel'
    <3>1. done' = <<>> /\ Len(done') = 0
      BY <1>1, <1>4
    <3>2. \A i \in Indices : attempt'[i] # "sent"
      BY <1>2, <1>3, <2>2
    <3> QED
      BY <1>1, <3>1, <3>2 DEF Channel
  <2>7. Busy' = {} /\ LimitedRunning' = {}
    <3>1. \A i \in Indices : attempt'[i] \notin {"taken", "executing"}
      BY <1>2, <1>3, <2>2
    <3> QED
      BY <1>1, <3>1 DEF Busy, LimitedRunning, Executing
  <2>8. Apart'
    BY <1>1, <1>6, <2>1, <2>7, FS_EmptySet, LimitAssumption DEF Apart
  <2> QED
    BY <2>3, <2>4, <2>5, <2>6, <2>8 DEF ToolInv
<1> QED
  BY <1>5, <1>6 DEF StartStep

-----------------------------------------------------------------------------
LEMMA AnswersAreSequences ==
    ASSUME NEW cs \in Answers
    PROVE  cs \in Seq(Calls) /\ DOMAIN cs = 1..Len(cs) /\ Len(cs) \in Nat
<1>1. PICK n \in 1..(MaxCalls - asked) : cs \in [1..n -> [id : Ids, kind : Kinds]]
  BY DEF Answers
<1>2. Ids \subseteq Nat
  BY DEF Ids
<1>3. cs \in [1..n -> Calls]
  BY <1>1, <1>2 DEF Calls
<1> QED
  BY <1>1, <1>3

LEMMA AsksKeep == ASSUME ToolInv, ModelCallsTools PROVE ToolInv'
<1>1. PICK cs \in Answers :
         /\ calls' = cs
         /\ attempt' = [i \in DOMAIN cs |-> "requested"]
         /\ outcome' = [i \in DOMAIN cs |-> "none"] /\ event' = outcome'
         /\ results' = [i \in DOMAIN cs |-> NoId]
  BY DEF ModelCallsTools
<1>2. from' = 1 /\ stop' = 1 /\ done' = <<>> /\ phase' = "tools"
  BY DEF ModelCallsTools
<1>3. /\ calls' \in Seq(Calls) /\ Len(calls') \in Nat
      /\ Indices' = DOMAIN calls' /\ Indices' = 1..Len(calls')
  BY <1>1, AnswersAreSequences DEF Indices
<1>4. \A i \in Indices' : attempt'[i] = "requested" /\ i \in Nat /\ i >= 1
  BY <1>1, <1>3
<1>5. AnswerTypes'
  <2>1. /\ attempt' \in [Indices' -> AttemptPlaces] /\ results' \in [Indices' -> Nat]
        /\ outcome' \in [Indices' -> {"none", "returned", "aborted"}]
        /\ event' \in [Indices' -> {"none", "returned", "aborted", "unsettled"}]
    BY <1>1, <1>3 DEF AttemptPlaces, NoId
  <2>2. done' \in Seq(Nat)
    BY <1>2
  <2> QED
    BY <1>2, <1>3, <2>1, <2>2 DEF AnswerTypes
<1>6. StepByStep' /\ Answered'
  BY <1>2, <1>4 DEF StepByStep, Answered
<1>7. Channel'
  <2>1. Len(done') = 0
    BY <1>2
  <2> QED
    BY <1>4, <2>1 DEF Channel
<1>8. Busy' = {} /\ LimitedRunning' = {}
  BY <1>3, <1>4 DEF Busy, LimitedRunning, Executing
<1>9. Apart'
  BY <1>2, <1>4, <1>8, FS_EmptySet, LimitAssumption DEF Apart
<1> QED
  BY <1>5, <1>6, <1>7, <1>9 DEF ToolInv

LEMMA ToolInvKept == ASSUME ToolInv, [AgentNext]_agentVars PROVE ToolInv'
<1>0. phase \in {"idle", "round", "model", "tools"}
  BY DEF ToolInv, AnswerTypes
<1>1. CASE UNCHANGED agentVars
  BY <1>0, <1>1, AnswerStays DEF agentVars
<1>2. CASE BeginTurn
  BY <1>2, AnswerStays DEF BeginTurn
<1>3. ASSUME NEW ms, Return(ms) PROVE ToolInv'
  BY <1>3, AnswerOver DEF Return
<1>4. CASE BeginRound
  <2>1. PICK ms \in {messages, Compacted(messages)} :
           IF ValidPairing(ms)
           THEN /\ phase' = "model" /\ messages' = ms /\ rounds' = rounds + 1
                /\ UNCHANGED <<turn, executed, cancelled, used, answer, history>>
           ELSE Return(ms)
    BY <1>4 DEF BeginRound
  <2>2. CASE phase' = "model" /\ UNCHANGED answer
    BY <1>4, <2>2, AnswerStays DEF BeginRound
  <2> QED
    BY <1>3, <2>1, <2>2
<1>5. CASE RoundsExceeded
  BY <1>3, <1>5 DEF RoundsExceeded
<1>6. CASE ModelFails
  BY <1>3, <1>6 DEF ModelFails
<1>7. CASE FinalAnswer
  BY <1>3, <1>7 DEF FinalAnswer
<1>8. CASE ModelCallsTools
  BY <1>8, AsksKeep
<1>9. CASE Cancel
  BY <1>0, <1>9, AnswerStays DEF Cancel
<1>10. CASE StartStep
  BY <1>10, StartStepKeeps
<1>11. CASE Collect
  BY <1>11, CollectKeeps
<1>12. CASE FinishTools
  BY <1>12, AnswerOver DEF FinishTools
<1>13. ASSUME NEW i \in DOMAIN calls, TakeJob(i) \/ Acquire(i) \/ AbortWaiting(i) \/ Execute(i)
       PROVE  ToolInv'
  <2>1. CASE TakeJob(i)
    BY <2>1, TakeJobKeeps
  <2>2. CASE Acquire(i)
    BY <2>2, AcquireKeeps
  <2>3. CASE AbortWaiting(i)
    BY <2>3, SentKeeps DEF AbortWaiting
  <2>4. CASE Execute(i)
    BY <2>4, SentKeeps DEF Execute
  <2> QED
    BY <1>13, <2>1, <2>2, <2>3, <2>4
<1> QED
  BY <1>1, <1>2, <1>4, <1>5, <1>6, <1>7, <1>8, <1>9, <1>10, <1>11, <1>12, <1>13
     DEF AgentNext, ToolStep

LEMMA ToolInvHolds == AgentSpec => []ToolInv
<1>1. AgentInit => ToolInv
  <2> SUFFICES ASSUME AgentInit PROVE ToolInv
    OBVIOUS
  <2>1. /\ phase = "idle" /\ calls = <<>> /\ from = 1 /\ stop = 1 /\ attempt = <<>>
        /\ outcome = <<>> /\ done = <<>> /\ results = <<>> /\ event = <<>>
    BY DEF AgentInit
  <2>2. Len(calls) = 0 /\ Len(done) = 0 /\ Indices = {} /\ DOMAIN calls = {}
    BY <2>1 DEF Indices
  <2>3. AnswerTypes
    <3>1. calls \in Seq(Calls) /\ done \in Seq(Nat)
      BY <2>1
    <3> QED
      BY <2>1, <2>2, <3>1 DEF AnswerTypes
  <2>4. Busy = {} /\ LimitedRunning = {}
    BY <2>2 DEF Busy, LimitedRunning, Executing
  <2>5. Apart
    BY <2>2, <2>4, FS_EmptySet, LimitAssumption DEF Apart
  <2>6. StepByStep /\ Answered /\ Channel
    BY <2>2 DEF StepByStep, Answered, Channel
  <2> QED
    BY <2>3, <2>5, <2>6 DEF ToolInv
<1>2. ToolInv /\ [AgentNext]_agentVars => ToolInv'
  BY ToolInvKept
<1> QED
  BY <1>1, <1>2, PTL DEF AgentSpec

LEMMA ToolInvKeepsApart == ToolInv => ToolsKeepApart
<1> SUFFICES ASSUME ToolInv PROVE ToolsKeepApart
  OBVIOUS
<1> DEFINE running == {i \in DOMAIN calls : attempt[i] = "executing"}
           limited == {i \in running : calls[i].kind = "limited"}
<1>1. /\ Indices = DOMAIN calls /\ from \in Nat /\ stop \in Nat
      /\ \A i \in Indices : i \in Nat /\ attempt[i] \in AttemptPlaces
  <2>1. Indices = DOMAIN calls /\ \A i \in Indices : i \in Nat
    BY DEF ToolInv, AnswerTypes, Indices
  <2> QED
    BY <2>1 DEF ToolInv, AnswerTypes
<1>2. running \in SUBSET Busy /\ limited = LimitedRunning
  <2>1. \A i : i \in running => i \in Busy
    BY DEF Busy
  <2>2. Executing = running
    BY <1>1 DEF Executing
  <2> QED
    BY <2>1, <2>2 DEF LimitedRunning
<1>3. \A i \in running : i >= from /\ i < stop
  BY <1>1 DEF ToolInv, StepByStep
<1>4. \A i, j \in running : calls[i].kind = "serial" => i = j
  <2> SUFFICES ASSUME NEW i \in running, NEW j \in running, calls[i].kind = "serial" PROVE i = j
    OBVIOUS
  <2>1. stop = from + 1
    BY <1>1, <1>3 DEF ToolInv, Apart
  <2> QED
    BY <1>1, <1>3, <2>1
<1>5. /\ IsFiniteSet(running) /\ Cardinality(running) <= Cardinality(Busy)
      /\ Cardinality(running) \in Nat /\ Cardinality(Busy) \in Nat
  BY <1>2, CallsAreFinite, FS_Subset, FS_CardinalityType
<1>6. Max({1, Limit}) \in {1, Limit} /\ Max({1, Limit}) >= 1 /\ Max({1, Limit}) >= Limit
  <2>1. {1, Limit} \subseteq 0..(Limit + 1) /\ Limit + 1 \in Nat
    BY LimitAssumption
  <2> QED
    BY <2>1, MaxIsGreatest
<1>7. Cardinality(running) <= Max({1, Limit})
  <2>1. CASE Cardinality(Busy) <= Limit
    BY <1>5, <1>6, <2>1, LimitAssumption
  <2>2. CASE stop = from + 1
    <3>1. running \in SUBSET {from}
      BY <1>1, <1>3, <2>2
    <3>2. IsFiniteSet({from}) /\ Cardinality({from}) = 1
      BY FS_Singleton
    <3>3. Cardinality(running) <= 1
      BY <3>1, <3>2, FS_Subset
    <3> QED
      BY <1>5, <1>6, <3>3, LimitAssumption
  <2> QED
    BY <2>1, <2>2 DEF ToolInv, Apart
<1> HIDE DEF limited
<1>8. Cardinality(limited) <= Capacity
  BY <1>2 DEF ToolInv, Apart
<1> QED
  BY <1>4, <1>7, <1>8 DEF ToolsKeepApart, limited

\* ToolsKeepApart, for any limits, capacities and answers: a serial tool runs alone, a
\* batch keeps to MaxParallelTools and the limited tools to their bucket
\* (executeToolCalls, executeParallelToolBatch, acquireToolRateBucket).
THEOREM AgentToolsApart == AgentSpec => []ToolsKeepApart
BY ToolInvHolds, ToolInvKeepsApart, PTL

-----------------------------------------------------------------------------
LEMMA MessagesOf ==
    ASSUME NEW ms \in Seq(Messages)
    PROVE  /\ Len(ms) \in Nat /\ DOMAIN ms = 1..Len(ms)
           /\ \A i \in 1..Len(ms) :
                 /\ ms[i] \in Messages /\ ms[i].calls \in Seq(Nat) /\ Len(ms[i].calls) \in Nat
                 /\ ms[i].role # "assistant" => ms[i].calls = <<>> /\ Len(ms[i].calls) = 0
<1>1. Len(ms) \in Nat /\ DOMAIN ms = 1..Len(ms)
  OBVIOUS
<1>2. ASSUME NEW i \in 1..Len(ms) PROVE ms[i] \in Messages
  BY <1>1, ElementOfSeq
<1>3. ASSUME NEW m \in Messages
      PROVE  /\ m.calls \in Seq(Nat) /\ Len(m.calls) \in Nat
             /\ m.role # "assistant" => m.calls = <<>> /\ Len(m.calls) = 0
  <2>1. m.calls \in Seq(Nat) /\ (m.role # "assistant" => m.calls = <<>>)
    BY DEF Messages
  <2> QED
    BY <2>1
<1> QED
  BY <1>1, <1>2, <1>3

LEMMA PlainIsMessage == ASSUME NEW role \in Roles PROVE Plain(role) \in Messages
<1>1. <<>> \in Seq(Nat)
  OBVIOUS
<1> QED
  BY <1>1 DEF Plain, Messages, NoId

LEMMA ToolResultIsMessage == ASSUME NEW id \in Nat PROVE ToolResult(id) \in Messages
<1>1. <<>> \in Seq(Nat)
  OBVIOUS
<1> QED
  BY <1>1 DEF ToolResult, Plain, Messages, NoId, Roles

LEMMA AssistantIsMessage == ASSUME NEW ids \in Seq(Nat) PROVE Assistant(ids) \in Messages
BY DEF Assistant, Plain, Messages, NoId, Roles

LEMMA PrefixIsSystem ==
    ASSUME NEW ms \in Seq(Messages)
    PROVE  Prefix(ms) \in 0..Len(ms) /\ \A i \in 1..Prefix(ms) : ms[i].role = "system"
<1> DEFINE T == {n \in 0..Len(ms) : \A i \in 1..n : ms[i].role = "system"}
<1>1. Len(ms) \in Nat
  OBVIOUS
<1>2. 0 \in T
  BY <1>1
<1>3. Max(T) \in T
  BY <1>1, <1>2, MaxIsGreatest
<1>4. Prefix(ms) = Max(T)
  BY DEF Prefix
<1> HIDE DEF T
<1>5. Prefix(ms) \in T
  BY <1>3, <1>4
<1> QED
  BY <1>5 DEF T

LEMMA CutIsNoResult ==
    ASSUME NEW ms \in Seq(Messages), NEW p \in 0..Len(ms), CutIndex(ms, p) # 0
    PROVE  /\ CutIndex(ms, p) \in Nat /\ p < CutIndex(ms, p) /\ CutIndex(ms, p) < Len(ms)
           /\ ms[CutIndex(ms, p) + 1].role # "tool"
<1> DEFINE T == {c \in 1..(Len(ms) - Keep) : c > p /\ ms[c + 1].role # "tool"}
<1>1. Len(ms) \in Nat /\ Keep \in Nat /\ Keep > 0
  BY LimitAssumption
<1>2. T # {} /\ CutIndex(ms, p) = Max(T)
  BY DEF CutIndex
<1>3. T \subseteq 0..Len(ms)
  BY <1>1
<1>4. Max(T) \in T
  BY <1>1, <1>2, <1>3, MaxIsGreatest
<1> HIDE DEF T
<1>5. CutIndex(ms, p) \in T
  BY <1>2, <1>4
<1> QED
  BY <1>1, <1>5 DEF T

\* A compaction keeps the system messages and a tail that does not begin with a result.
CutAt(ms, ns, p, c) ==
    /\ p < c /\ c < Len(ms) /\ ms[c + 1].role # "tool"
    /\ ns \in Seq(Messages) /\ Len(ns) = p + 1 + (Len(ms) - c)
    /\ \A i \in 1..p : ns[i].role = "system"
    /\ ns[p + 1].role = "summary"
    /\ \A i \in (p + 2)..Len(ns) : ns[i] = ms[i + (c - p - 1)]

LEMMA CompactedIsCut ==
    ASSUME NEW ms \in Seq(Messages), Compacted(ms) # ms
    PROVE  \E p, c \in Nat : CutAt(ms, Compacted(ms), p, c)
<1> DEFINE p == Prefix(ms)
           c == CutIndex(ms, p)
           head == SubSeq(ms, 1, p)
           tail == SubSeq(ms, c + 1, Len(ms))
           short == head \o <<Plain("summary")>>
           ns == short \o tail
<1>1. Compacted(ms) = ns /\ c # 0
  BY DEF Compacted
<1>2. p \in Nat /\ p <= Len(ms) /\ Len(ms) \in Nat /\ \A i \in 1..p : ms[i].role = "system"
  BY PrefixIsSystem
<1>3. c \in Nat /\ p < c /\ c < Len(ms) /\ ms[c + 1].role # "tool"
  <2>1. p \in 0..Len(ms)
    BY <1>2
  <2>2. c = CutIndex(ms, p) /\ c # 0
    BY <1>1
  <2> HIDE DEF p, c
  <2> QED
    BY <2>1, <2>2, CutIsNoResult
<1> HIDE DEF p, c
<1>4. head \in Seq(Messages) /\ Len(head) = p /\ \A i \in 1..p : head[i] = ms[i]
  <2>1. \A i \in 1..p : i \in 1..Len(ms)
    BY <1>2
  <2> QED
    BY <1>2, <2>1, SubSeqProperties
<1>5. /\ tail \in Seq(Messages) /\ Len(tail) = Len(ms) - c
      /\ \A i \in 1..(Len(ms) - c) : tail[i] = ms[c + i]
  <2>1. \A i \in (c + 1)..Len(ms) : i \in 1..Len(ms)
    BY <1>3
  <2> QED
    BY <1>2, <1>3, <2>1, SubSeqProperties
<1>6. Plain("summary") \in Messages /\ Plain("summary").role = "summary"
  BY PlainIsMessage DEF Roles, Plain
<1> HIDE DEF head, tail
<1>7. /\ short \in Seq(Messages) /\ Len(short) = p + 1 /\ short[p + 1].role = "summary"
      /\ \A i \in 1..p : short[i] = ms[i]
  BY <1>2, <1>4, <1>6, ConcatProperties
<1> HIDE DEF short
<1>8. /\ ns \in Seq(Messages) /\ Len(ns) = p + 1 + (Len(ms) - c)
      /\ \A i \in 1..(p + 1) : ns[i] = short[i]
      /\ \A i \in (p + 2)..Len(ns) : ns[i] = tail[i - (p + 1)]
  <2>1. /\ ns \in Seq(Messages) /\ Len(ns) = Len(short) + Len(tail)
        /\ \A i \in 1..(Len(short) + Len(tail)) :
              ns[i] = IF i <= Len(short) THEN short[i] ELSE tail[i - Len(short)]
    BY <1>5, <1>7, ConcatProperties
  <2>2. Len(tail) \in Nat /\ Len(ns) = p + 1 + Len(tail)
    BY <1>2, <1>3, <1>5, <1>7, <2>1
  <2> HIDE DEF ns
  <2>3. \A i \in 1..(p + 1) : ns[i] = short[i]
    BY <1>2, <1>7, <2>1, <2>2
  <2>4. \A i \in (p + 2)..Len(ns) : ns[i] = tail[i - (p + 1)]
    BY <1>2, <1>7, <2>1, <2>2
  <2> QED
    BY <1>5, <2>1, <2>2, <2>3, <2>4
<1> HIDE DEF ns
<1>9. \A i \in (p + 2)..Len(ns) : ns[i] = ms[i + (c - p - 1)]
  <2> SUFFICES ASSUME NEW i \in (p + 2)..Len(ns) PROVE ns[i] = ms[i + (c - p - 1)]
    OBVIOUS
  <2>1. i - (p + 1) \in 1..(Len(ms) - c) /\ c + (i - (p + 1)) = i + (c - p - 1)
    <3>1. PICK M \in Nat : M = Len(ms)
      BY <1>2
    <3>2. i \in Int /\ i >= p + 2 /\ i <= p + 1 + (M - c)
      BY <1>2, <1>3, <1>8, <3>1
    <3>3. i - (p + 1) \in 1..(M - c) /\ c + (i - (p + 1)) = i + (c - p - 1)
      BY <1>2, <1>3, <3>2
    <3> QED
      BY <3>1, <3>3
  <2> QED
    BY <1>5, <1>8, <2>1
<1>10. \A i \in 1..p : ns[i].role = "system"
  BY <1>2, <1>7, <1>8
<1>11. ns[p + 1].role = "summary"
  BY <1>2, <1>7, <1>8
<1>12. CutAt(ms, ns, p, c)
  BY <1>3, <1>8, <1>9, <1>10, <1>11 DEF CutAt
<1> QED
  BY <1>1, <1>2, <1>3, <1>12

LEMMA CutIsWhole ==
    ASSUME NEW ms \in Seq(Messages), Whole(ms), NEW ns, NEW p \in Nat, NEW c \in Nat,
           CutAt(ms, ns, p, c)
    PROVE  Whole(ns)
<1> DEFINE d == c - p - 1
<1>1. /\ Len(ms) \in Nat /\ Len(ns) \in Nat /\ d \in Nat /\ Len(ns) + d = Len(ms)
      /\ p < c /\ c < Len(ms) /\ c + 1 \in 1..Len(ms) /\ c = p + 1 + d
  <2>1. PICK M \in Nat : M = Len(ms)
    OBVIOUS
  <2>2. p < c /\ c < M /\ Len(ns) = p + 1 + (M - c)
    BY <2>1 DEF CutAt
  <2>3. /\ p + 1 + (M - c) \in Nat /\ d \in Nat /\ (p + 1 + (M - c)) + d = M
        /\ c + 1 \in 1..M /\ c = p + 1 + d
    BY <2>2
  <2> HIDE DEF d
  <2> QED
    BY <2>1, <2>2, <2>3
<1>2. \A i \in 1..Len(ns) : /\ i \in 1..p \/ i = p + 1 \/ i \in (p + 2)..Len(ns)
                            /\ i \in Nat
  BY <1>1
<1>3. \A i \in 1..Len(ns) :
         /\ ns[i].role = "assistant" \/ ns[i].role = "tool" => i >= p + 2
         /\ ns[i].role # "assistant" => ns[i].calls = <<>> /\ Len(ns[i].calls) = 0
  <2>1. ns \in Seq(Messages)
    BY DEF CutAt
  <2>2. \A i \in 1..Len(ns) : ns[i].role = "assistant" \/ ns[i].role = "tool" => i >= p + 2
    BY <1>2 DEF CutAt
  <2> QED
    BY <2>1, <2>2, MessagesOf
<1>4. \A i \in (p + 2)..Len(ns) : ns[i] = ms[i + d] /\ i + d \in 1..Len(ms) /\ i + d > c
  <2>1. \A i \in (p + 2)..Len(ns) : ns[i] = ms[i + d]
    BY DEF CutAt
  <2> QED
    BY <1>1, <2>1
<1> HIDE DEF d
<1>5. ASSUME NEW i \in 1..Len(ns), ns[i].role = "assistant"
      PROVE  /\ i + Len(ns[i].calls) <= Len(ns)
             /\ \A k \in 1..Len(ns[i].calls) :
                   ns[i + k].role = "tool" /\ ns[i + k].of = ns[i].calls[k]
  <2>1. i \in (p + 2)..Len(ns)
    BY <1>2, <1>3, <1>5
  <2>2. PICK q \in 1..Len(ms) : q = i + d /\ ns[i] = ms[q]
    BY <1>4, <2>1
  <2>3. ms[q].role = "assistant" /\ Len(ms[q].calls) \in Nat
    BY <1>5, <2>2, MessagesOf
  <2>4. /\ q + Len(ms[q].calls) <= Len(ms)
        /\ \A k \in 1..Len(ms[q].calls) :
              ms[q + k].role = "tool" /\ ms[q + k].of = ms[q].calls[k]
    BY <2>3 DEF Whole, Complete, ResultsAt, CallAt
  <2>5. i + Len(ns[i].calls) <= Len(ns)
    <3>1. Len(ns[i].calls) = Len(ms[q].calls) /\ i \in Nat /\ q \in Nat
      BY <1>2, <2>2
    <3>2. i + d + Len(ms[q].calls) <= Len(ns) + d
      BY <1>1, <2>2, <2>4
    <3>3. \A n \in Nat : i + d + n <= Len(ns) + d => i + n <= Len(ns)
      BY <1>1, <3>1
    <3>4. i + Len(ms[q].calls) <= Len(ns)
      BY <2>3, <3>2, <3>3
    <3> QED
      BY <3>1, <3>4
  <2>6. ASSUME NEW k \in 1..Len(ns[i].calls)
        PROVE  ns[i + k].role = "tool" /\ ns[i + k].of = ns[i].calls[k]
    <3>1. i + k \in (p + 2)..Len(ns) /\ (i + k) + d = q + k
      BY <1>1, <2>1, <2>2, <2>3, <2>5
    <3>2. ns[i + k] = ms[q + k]
      BY <1>4, <3>1
    <3> QED
      BY <2>2, <2>4, <3>2
  <2> QED
    BY <2>5, <2>6
<1>6. ASSUME NEW i \in 1..Len(ns), ns[i].role = "tool"
      PROVE  \E j \in 1..Len(ns) :
                j < i /\ ns[j].role = "assistant" /\ i <= j + Len(ns[j].calls)
  <2>1. i \in (p + 2)..Len(ns) /\ ns[i] = ms[i + d] /\ i + d \in 1..Len(ms) /\ i + d > c
    BY <1>1, <1>3, <1>4, <1>6
  <2>2. PICK j \in 1..Len(ms) :
           j < i + d /\ ms[j].role = "assistant" /\ i + d <= j + Len(ms[j].calls)
    BY <1>6, <2>1 DEF Whole, Complete, ResultsAt, CallAt
  <2>3. Len(ms[j].calls) \in Nat /\ j \in Nat
    BY MessagesOf
  <2>4. j > c
    <3> SUFFICES ASSUME j <= c PROVE FALSE
      BY <1>1, <2>3
    <3>1. PICK k \in 1..Len(ms[j].calls) : j + k = c + 1
      <4>1. (c + 1) - j \in Nat /\ (c + 1) - j >= 1 /\ j + ((c + 1) - j) = c + 1
        BY <1>1, <2>3
      <4>2. (c + 1) - j <= Len(ms[j].calls)
        BY <1>1, <2>1, <2>2, <2>3
      <4> QED
        BY <2>3, <4>1, <4>2
    <3>2. ms[j + k].role = "tool"
      BY <2>2 DEF Whole, Complete, ResultsAt, CallAt
    <3> QED
      BY <3>1, <3>2 DEF CutAt
  <2>5. j - d \in (p + 2)..Len(ns) /\ (j - d) + d = j /\ j - d < i
    <3>1. i \in Nat /\ j < i + d /\ i <= Len(ns)
      BY <1>1, <2>2
    <3>2. j - d \in Int /\ (j - d) + d = j /\ j - d >= p + 2
      BY <1>1, <2>3, <2>4
    <3> QED
      BY <1>1, <2>3, <3>1, <3>2
  <2>6. ns[j - d] = ms[j]
    BY <1>4, <2>5
  <2>7. i <= (j - d) + Len(ms[j].calls) /\ j - d \in 1..Len(ns)
    BY <1>1, <2>1, <2>2, <2>3, <2>5
  <2> QED
    BY <2>2, <2>5, <2>6, <2>7
<1>7. Complete(ns, Len(ns))
  BY <1>5, <1>6 DEF Complete, ResultsAt, CallAt
<1>8. Distinct(ns)
  <2> SUFFICES ASSUME NEW i \in 1..Len(ns), NEW j \in 1..Len(ns),
                      NEW k \in 1..Len(ns[i].calls), NEW l \in 1..Len(ns[j].calls),
                      ns[i].calls[k] = ns[j].calls[l]
               PROVE  i = j /\ k = l
    BY DEF Distinct, DistinctCalls
  <2>1. i \in (p + 2)..Len(ns) /\ j \in (p + 2)..Len(ns)
    <3>1. Len(ns[i].calls) # 0 /\ Len(ns[j].calls) # 0
      <4>1. 1..0 = {}
        OBVIOUS
      <4> QED
        BY <4>1
    <3>2. i >= p + 2 /\ j >= p + 2
      BY <1>3, <3>1
    <3> QED
      BY <1>1, <3>2
  <2>2. ns[i] = ms[i + d] /\ ns[j] = ms[j + d] /\ i + d \in 1..Len(ms) /\ j + d \in 1..Len(ms)
    BY <1>4, <2>1
  <2>3. PICK x \in 1..Len(ms) : x = i + d /\ ns[i] = ms[x]
    BY <2>2
  <2>4. PICK y \in 1..Len(ms) : y = j + d /\ ns[j] = ms[y]
    BY <2>2
  <2>5. /\ k \in 1..Len(ms[x].calls) /\ l \in 1..Len(ms[y].calls)
        /\ ms[x].calls[k] = ms[y].calls[l]
    BY <2>3, <2>4
  <2>6. x = y /\ k = l
    <3>1. DistinctCalls(ms, x, y)
      BY DEF Whole, Distinct
    <3> QED
      BY <2>5, <3>1 DEF DistinctCalls
  <2>7. i \in Int /\ j \in Int /\ i + d = j + d
    BY <2>3, <2>4, <2>6
  <2> QED
    BY <1>1, <2>6, <2>7
<1> QED
  BY <1>7, <1>8 DEF Whole

LEMMA CompactedIsWhole ==
    ASSUME NEW ms \in Seq(Messages)
    PROVE  Compacted(ms) \in Seq(Messages) /\ (Whole(ms) => Whole(Compacted(ms)))
<1>1. CASE Compacted(ms) = ms
  BY <1>1
<1>2. CASE Compacted(ms) # ms
  <2>1. PICK p, c \in Nat : CutAt(ms, Compacted(ms), p, c)
    BY <1>2, CompactedIsCut
  <2>2. Compacted(ms) \in Seq(Messages)
    BY <2>1 DEF CutAt
  <2> QED
    BY <2>1, <2>2, CutIsWhole
<1> QED
  BY <1>1, <1>2

-----------------------------------------------------------------------------
LEMMA DistinctByCounting ==
    ASSUME NEW n \in Nat, NEW f, NEW T, T = {f[k] : k \in 1..n}
    PROVE  /\ IsFiniteSet(T)
           /\ Cardinality(T) = n <=> \A k, l \in 1..n : f[k] = f[l] => k = l
<1> DEFINE g == [k \in 1..n |-> f[k]]
<1>1. g \in Surjection(1..n, T)
  BY DEF Surjection
<1>2. IsFiniteSet(1..n) /\ Cardinality(1..n) = n
  BY FS_Interval
<1>3. g \in Injection(1..n, T) <=> \A k, l \in 1..n : f[k] = f[l] => k = l
  BY DEF Injection, IsInjective
<1> HIDE DEF g
<1>4. IsFiniteSet(T) /\ (Cardinality(T) = n <=> g \in Injection(1..n, T))
  BY <1>1, <1>2, FS_Surjection
<1> QED
  BY <1>3, <1>4

\* Completeness of a prefix depends on the prefix alone.
LEMMA CompletePrefix ==
    ASSUME NEW ms \in Seq(Messages), NEW ns \in Seq(Messages),
           NEW n \in Nat, n <= Len(ms), n <= Len(ns),
           \A i \in 1..n : ns[i] = ms[i], Complete(ms, n)
    PROVE  Complete(ns, n)
<1>1. ASSUME NEW i \in 1..n, ns[i].role = "assistant"
      PROVE  /\ i + Len(ns[i].calls) <= n
             /\ \A k \in 1..Len(ns[i].calls) :
                   ns[i + k].role = "tool" /\ ns[i + k].of = ns[i].calls[k]
  <2>1. i \in 1..Len(ns) /\ Len(ns[i].calls) \in Nat
    <3>1. i \in 1..Len(ns)
      BY MessagesOf
    <3> QED
      BY <3>1, MessagesOf
  <2>2. ns[i] = ms[i] /\ ms[i].role = "assistant"
    BY <1>1
  <2>3. /\ i + Len(ms[i].calls) <= n
        /\ \A k \in 1..Len(ms[i].calls) :
              ms[i + k].role = "tool" /\ ms[i + k].of = ms[i].calls[k]
    BY <2>2 DEF Complete, ResultsAt, CallAt
  <2>4. \A k \in 1..Len(ns[i].calls) : i + k \in 1..n
    BY <2>1, <2>2, <2>3
  <2>5. \A k \in 1..Len(ns[i].calls) : ns[i + k] = ms[i + k]
    BY <2>4
  <2> QED
    BY <2>2, <2>3, <2>5
<1>2. ASSUME NEW i \in 1..n, ns[i].role = "tool"
      PROVE  \E j \in 1..n : j < i /\ ns[j].role = "assistant" /\ i <= j + Len(ns[j].calls)
  BY <1>2 DEF Complete, ResultsAt, CallAt
<1> QED
  BY <1>1, <1>2 DEF Complete, ResultsAt, CallAt

\* A message without calls that is no result keeps a whole transcript whole.
LEMMA AppendIsWhole ==
    ASSUME NEW ms \in Seq(Messages), Whole(ms),
           NEW m \in Messages, m.calls = <<>>, m.role # "tool"
    PROVE  Whole(Append(ms, m))
<1> DEFINE ns == Append(ms, m)
<1>1. /\ ns \in Seq(Messages) /\ Len(ms) \in Nat /\ Len(ns) = Len(ms) + 1
      /\ ns[Len(ms) + 1] = m /\ \A i \in 1..Len(ms) : ns[i] = ms[i]
  BY AppendProperties
<1> HIDE DEF ns
<1>2. \A i \in 1..Len(ns) : i \in 1..Len(ms) \/ i = Len(ms) + 1
  BY <1>1
<1>3. Complete(ns, Len(ms))
  BY <1>1, CompletePrefix DEF Whole
<1>4. Len(m.calls) = 0
  BY <1>1
<1>5. Complete(ns, Len(ns))
  <2>1. ASSUME NEW i \in 1..Len(ns), ns[i].role = "assistant"
        PROVE  /\ i + Len(ns[i].calls) <= Len(ns)
               /\ \A k \in 1..Len(ns[i].calls) :
                     ns[i + k].role = "tool" /\ ns[i + k].of = ns[i].calls[k]
    <3>1. CASE i = Len(ms) + 1
      <4>1. ns[i] = m
        BY <1>1, <3>1
      <4>2. Len(ns[i].calls) = 0
        BY <1>4, <4>1
      <4>3. i = Len(ns) /\ i \in Nat
        BY <1>1, <3>1
      <4>4. i + Len(ns[i].calls) <= Len(ns)
        BY <4>2, <4>3
      <4> QED
        BY <4>2, <4>4
    <3>2. CASE i \in 1..Len(ms)
      <4>1. Len(ns[i].calls) \in Nat
        BY <1>1, <2>1, MessagesOf
      <4>2. /\ i + Len(ns[i].calls) <= Len(ms)
            /\ \A k \in 1..Len(ns[i].calls) :
                  ns[i + k].role = "tool" /\ ns[i + k].of = ns[i].calls[k]
        BY <1>3, <2>1, <3>2 DEF Complete, ResultsAt, CallAt
      <4>3. \A x \in Nat : i + x <= Len(ms) => i + x <= Len(ns)
        BY <1>1, <3>2
      <4> QED
        BY <4>1, <4>2, <4>3
    <3> QED
      BY <1>2, <3>1, <3>2
  <2>2. ASSUME NEW i \in 1..Len(ns), ns[i].role = "tool"
        PROVE  \E j \in 1..Len(ns) :
                  j < i /\ ns[j].role = "assistant" /\ i <= j + Len(ns[j].calls)
    <3>1. i \in 1..Len(ms)
      BY <1>1, <1>2, <2>2
    <3>2. PICK j \in 1..Len(ms) :
             j < i /\ ns[j].role = "assistant" /\ i <= j + Len(ns[j].calls)
      BY <1>3, <2>2, <3>1 DEF Complete, ResultsAt, CallAt
    <3>3. j \in 1..Len(ns)
      BY <1>1
    <3> QED
      BY <3>2, <3>3
  <2> QED
    BY <2>1, <2>2 DEF Complete, ResultsAt, CallAt
<1>6. Distinct(ns)
  <2> SUFFICES ASSUME NEW i \in 1..Len(ns), NEW j \in 1..Len(ns),
                      NEW k \in 1..Len(ns[i].calls), NEW l \in 1..Len(ns[j].calls),
                      ns[i].calls[k] = ns[j].calls[l]
               PROVE  i = j /\ k = l
    BY DEF Distinct, DistinctCalls
  <2>1. i \in 1..Len(ms) /\ j \in 1..Len(ms)
    BY <1>1, <1>2, <1>4
  <2>2. ns[i] = ms[i] /\ ns[j] = ms[j]
    BY <1>1, <2>1
  <2>3. k \in 1..Len(ms[i].calls) /\ l \in 1..Len(ms[j].calls) /\ ms[i].calls[k] = ms[j].calls[l]
    BY <2>2
  <2>4. DistinctCalls(ms, i, j)
    BY <2>1 DEF Whole, Distinct
  <2> QED
    BY <2>3, <2>4 DEF DistinctCalls
<1> QED
  BY <1>5, <1>6 DEF Whole, ns

\* An assistant's message with new call ids.
NewIds(ms, ids) ==
    /\ \A k, l \in 1..Len(ids) : ids[k] = ids[l] => k = l
    /\ \A i \in 1..Len(ms) : \A k \in 1..Len(ms[i].calls), l \in 1..Len(ids) :
          ms[i].calls[k] # ids[l]

LEMMA AskIsUnderway ==
    ASSUME NEW ms \in Seq(Messages), Whole(ms), NEW ids \in Seq(Nat), NewIds(ms, ids),
           NEW ns, ns = Append(ms, Assistant(ids))
    PROVE  /\ ns \in Seq(Messages) /\ Len(ns) > 0 /\ ns[Len(ns)] = Assistant(ids)
           /\ Complete(ns, Len(ns) - 1) /\ Distinct(ns)
<1>1. Assistant(ids) \in Messages /\ Assistant(ids).calls = ids
  BY AssistantIsMessage DEF Assistant, Plain
<1>2. /\ ns \in Seq(Messages) /\ Len(ms) \in Nat /\ Len(ns) = Len(ms) + 1
      /\ ns[Len(ms) + 1] = Assistant(ids) /\ \A i \in 1..Len(ms) : ns[i] = ms[i]
  BY <1>1, AppendProperties
<1>3. Complete(ns, Len(ms)) /\ Len(ns) - 1 = Len(ms)
  <2>1. Complete(ms, Len(ms)) /\ Len(ms) <= Len(ns) /\ Len(ms) <= Len(ms)
    BY <1>2 DEF Whole
  <2>2. Complete(ns, Len(ms))
    BY <1>2, <2>1, CompletePrefix
  <2> QED
    BY <1>2, <2>2
<1>4. \A i \in 1..Len(ns) : \/ i \in 1..Len(ms) /\ ns[i].calls = ms[i].calls
                            \/ i = Len(ms) + 1 /\ ns[i].calls = ids
  BY <1>1, <1>2
<1>5. Distinct(ns)
  <2> SUFFICES ASSUME NEW i \in 1..Len(ns), NEW j \in 1..Len(ns),
                      NEW k \in 1..Len(ns[i].calls), NEW l \in 1..Len(ns[j].calls),
                      ns[i].calls[k] = ns[j].calls[l]
               PROVE  i = j /\ k = l
    BY DEF Distinct, DistinctCalls
  <2>1. CASE i \in 1..Len(ms) /\ j \in 1..Len(ms)
    <3>1. ns[i] = ms[i] /\ ns[j] = ms[j]
      BY <1>2, <2>1
    <3>2. /\ k \in 1..Len(ms[i].calls) /\ l \in 1..Len(ms[j].calls)
          /\ ms[i].calls[k] = ms[j].calls[l]
      BY <3>1
    <3>3. DistinctCalls(ms, i, j)
      BY <2>1 DEF Whole, Distinct
    <3> QED
      BY <3>2, <3>3 DEF DistinctCalls
  <2>2. CASE i = Len(ms) + 1 /\ j = Len(ms) + 1
    <3>1. ns[i].calls = ids /\ ns[j].calls = ids
      BY <1>1, <1>2, <2>2
    <3>2. k \in 1..Len(ids) /\ l \in 1..Len(ids) /\ ids[k] = ids[l]
      BY <3>1
    <3> QED
      BY <2>2, <3>2 DEF NewIds
  <2>3. CASE i \in 1..Len(ms) /\ j = Len(ms) + 1
    <3>1. ns[i] = ms[i] /\ ns[j].calls = ids
      BY <1>1, <1>2, <2>3
    <3>2. k \in 1..Len(ms[i].calls) /\ l \in 1..Len(ids) /\ ms[i].calls[k] = ids[l]
      BY <3>1
    <3> QED
      BY <2>3, <3>2 DEF NewIds
  <2>4. CASE i = Len(ms) + 1 /\ j \in 1..Len(ms)
    <3>1. ns[j] = ms[j] /\ ns[i].calls = ids
      BY <1>1, <1>2, <2>4
    <3>2. l \in 1..Len(ms[j].calls) /\ k \in 1..Len(ids) /\ ms[j].calls[l] = ids[k]
      BY <3>1
    <3> QED
      BY <2>4, <3>2 DEF NewIds
  <2> QED
    BY <1>4, <2>1, <2>2, <2>3, <2>4
<1> QED
  BY <1>2, <1>3, <1>5

\* The results, in the order of the calls, complete it.
Completing(ms, n, L, rs) ==
    /\ n > 0 /\ Len(ms) = n /\ Len(rs) = L
    /\ ms[n].role = "assistant" /\ L = Len(ms[n].calls)
    /\ \A k \in 1..L : rs[k].role = "tool" /\ rs[k].of = ms[n].calls[k]

LEMMA Within ==
    ASSUME NEW n \in Nat, NEW L \in Nat, NEW k \in 1..L
    PROVE  n + k \in 1..(n + L) /\ ~(n + k <= n) /\ (n + k) - n = k
OBVIOUS

LEMMA ResultsComplete ==
    ASSUME NEW ms \in Seq(Messages), Distinct(ms), NEW n \in Nat, Complete(ms, n - 1),
           NEW L \in Nat, NEW rs \in Seq(Messages), Completing(ms, n, L, rs),
           NEW ns, ns = ms \o rs
    PROVE  ns \in Seq(Messages) /\ Whole(ns)
<1>0. /\ n > 0 /\ Len(ms) = n /\ Len(rs) = L
      /\ ms[n].role = "assistant" /\ L = Len(ms[n].calls)
      /\ \A k \in 1..L : rs[k].role = "tool" /\ rs[k].of = ms[n].calls[k]
  BY DEF Completing
<1>1. /\ ns \in Seq(Messages) /\ Len(ns) = n + L
      /\ \A i \in 1..(n + L) : ns[i] = IF i <= n THEN ms[i] ELSE rs[i - n]
  <2>1. /\ ms \o rs \in Seq(Messages) /\ Len(ms \o rs) = Len(ms) + Len(rs)
        /\ \A i \in 1..(Len(ms) + Len(rs)) :
              (ms \o rs)[i] = IF i <= Len(ms) THEN ms[i] ELSE rs[i - Len(ms)]
    BY ConcatProperties
  <2> QED
    BY <1>0, <2>1
<1>2. \A i \in 1..n : ns[i] = ms[i]
  <2>1. \A i \in 1..n : i \in 1..(n + L) /\ i <= n
    OBVIOUS
  <2> QED
    BY <1>1, <2>1
<1>3. \A k \in 1..L : ns[n + k] = rs[k]
  <2> TAKE k \in 1..L
  <2>1. n + k \in 1..(n + L) /\ ~(n + k <= n) /\ (n + k) - n = k
    BY Within
  <2> QED
    BY <1>1, <2>1
<1>4. Complete(ns, n - 1)
  <2>1. n - 1 \in Nat /\ n - 1 <= Len(ms) /\ n - 1 <= Len(ns) /\ \A i \in 1..(n - 1) : i \in 1..n
    BY <1>0, <1>1
  <2> QED
    BY <1>1, <1>2, <2>1, CompletePrefix
<1>5. \A i \in 1..(n + L) : /\ i \in Nat
                            /\ i \in 1..(n - 1) \/ i = n \/ \E k \in 1..L : i = n + k
  <2> TAKE i \in 1..(n + L)
  <2>1. i \in 1..(n - 1) \/ i = n \/ (i - n \in 1..L /\ i = n + (i - n))
    BY <1>0
  <2> QED
    BY <2>1
<1>6. ns[n] = ms[n] /\ n \in 1..n /\ n \in 1..(n + L)
  <2>1. n \in 1..n /\ n \in 1..(n + L)
    BY <1>0
  <2> QED
    BY <1>2, <2>1
<1>7. Complete(ns, n + L)
  <2>1. ASSUME NEW i \in 1..(n + L), ns[i].role = "assistant"
        PROVE  /\ i + Len(ns[i].calls) <= n + L
               /\ \A k \in 1..Len(ns[i].calls) :
                     ns[i + k].role = "tool" /\ ns[i + k].of = ns[i].calls[k]
    <3>1. CASE i = n
      <4>1. Len(ns[i].calls) = L /\ i + L <= n + L
        BY <1>0, <1>6, <3>1
      <4>2. \A k \in 1..L : ns[i + k] = rs[k] /\ ns[i].calls[k] = ms[n].calls[k]
        BY <1>3, <1>6, <3>1
      <4>3. \A k \in 1..L : ns[i + k].role = "tool" /\ ns[i + k].of = ns[i].calls[k]
        BY <1>0, <4>2
      <4> QED
        BY <4>1, <4>3
    <3>2. CASE i \in 1..(n - 1)
      <4>1. Len(ns[i].calls) \in Nat
        BY <1>1, <2>1, MessagesOf
      <4>2. /\ i + Len(ns[i].calls) <= n - 1
            /\ \A k \in 1..Len(ns[i].calls) :
                  ns[i + k].role = "tool" /\ ns[i + k].of = ns[i].calls[k]
        <5>1. ResultsAt(ns, n - 1, i)
          BY <1>4, <2>1, <3>2 DEF Complete
        <5> QED
          BY <5>1 DEF ResultsAt
      <4>3. \A x \in Nat : i + x <= n - 1 => i + x <= n + L
        BY <1>5
      <4> QED
        BY <4>1, <4>2, <4>3
    <3>3. ASSUME NEW k \in 1..L, i = n + k PROVE FALSE
      BY <1>0, <1>3, <2>1, <3>3
    <3> QED
      BY <1>5, <3>1, <3>2, <3>3
  <2>2. ASSUME NEW i \in 1..(n + L), ns[i].role = "tool"
        PROVE  \E j \in 1..(n + L) :
                  j < i /\ ns[j].role = "assistant" /\ i <= j + Len(ns[j].calls)
    <3>1. CASE i = n
      BY <1>0, <1>6, <2>2, <3>1
    <3>2. CASE i \in 1..(n - 1)
      <4>1. PICK j \in 1..(n - 1) :
               j < i /\ ns[j].role = "assistant" /\ i <= j + Len(ns[j].calls)
        BY <1>4, <2>2, <3>2 DEF Complete, ResultsAt, CallAt
      <4>2. j \in 1..(n + L)
        OBVIOUS
      <4> QED
        BY <4>1, <4>2
    <3>3. ASSUME NEW k \in 1..L, i = n + k PROVE n < i /\ i <= n + L
      BY <3>3
    <3>4. ASSUME NEW k \in 1..L, i = n + k
          PROVE  n < i /\ ns[n].role = "assistant" /\ i <= n + Len(ns[n].calls)
      BY <1>0, <1>6, <3>3, <3>4
    <3> QED
      BY <1>5, <1>6, <3>1, <3>2, <3>4
  <2> QED
    BY <2>1, <2>2 DEF Complete, ResultsAt, CallAt
<1>8. Distinct(ns)
  <2> SUFFICES ASSUME NEW i \in 1..(n + L), NEW j \in 1..(n + L),
                      NEW k \in 1..Len(ns[i].calls), NEW l \in 1..Len(ns[j].calls),
                      ns[i].calls[k] = ns[j].calls[l]
               PROVE  i = j /\ k = l
    <3>1. (\A x, y \in 1..(n + L) : DistinctCalls(ns, x, y)) => Distinct(ns)
      BY <1>1 DEF Distinct
    <3> QED
      BY <3>1 DEF DistinctCalls
  <2>1. ASSUME NEW q \in 1..L PROVE Len(ns[n + q].calls) = 0
    <3>1. n + q \in 1..Len(ns) /\ ns[n + q].role = "tool"
      <4>1. n + q \in 1..(n + L)
        BY Within
      <4> QED
        BY <1>0, <1>1, <1>3, <4>1
    <3> QED
      BY <1>1, <3>1, MessagesOf
  <2>2. i \in 1..n /\ j \in 1..n
    <3>1. Len(ns[i].calls) # 0 /\ Len(ns[j].calls) # 0
      <4>1. 1..0 = {}
        OBVIOUS
      <4> QED
        BY <4>1
    <3>2. ASSUME NEW q \in 1..L PROVE i # n + q /\ j # n + q
      BY <2>1, <3>1
    <3>3. \A x \in 1..(n - 1) : x \in 1..n
      OBVIOUS
    <3> QED
      BY <1>5, <1>6, <3>2, <3>3
  <2>3. ns[i] = ms[i] /\ ns[j] = ms[j]
    BY <1>2, <2>2
  <2>4. k \in 1..Len(ms[i].calls) /\ l \in 1..Len(ms[j].calls)
    BY <2>3
  <2>5. i \in 1..Len(ms) /\ j \in 1..Len(ms) /\ ms[i].calls[k] = ms[j].calls[l]
    BY <1>0, <2>2, <2>3
  <2>6. DistinctCalls(ms, i, j)
    BY <2>5 DEF Distinct
  <2> QED
    BY <2>4, <2>5, <2>6 DEF DistinctCalls
<1> QED
  BY <1>1, <1>7, <1>8 DEF Whole

-----------------------------------------------------------------------------
\* The inductive invariant.
TurnInv == ToolInv /\ Typed /\ Orderly

\* The transcript when no answer is being executed, in one fact.
LEMMA OrderlyIsWhole ==
    ASSUME Orderly, phase # "tools", ~reused
    PROVE  Whole(messages) /\ Whole(base)
BY DEF Orderly, Whole

LEMMA WholeIsOrderly ==
    ASSUME phase' # "tools", ~reused' => Whole(messages') /\ Whole(base')
    PROVE  Orderly'
BY DEF Orderly, Whole

LEMMA TranscriptStays ==
    ASSUME Typed, Orderly, UNCHANGED <<messages, base, reused, phase, calls>>
    PROVE  Typed' /\ Orderly'
<1>1. Typed'
  BY DEF Typed
<1>2. Indices' = Indices
  BY DEF Indices
<1>3. Underway => Underway'
  BY <1>2 DEF Underway
<1> QED
  BY <1>1, <1>3 DEF Orderly

LEMMA ReturnKeeps ==
    ASSUME Typed, Orderly, NEW ms \in Seq(Messages), ~reused => Whole(ms), Return(ms)
    PROVE  Typed' /\ Orderly'
<1>1. /\ messages' = IF cancelled THEN base ELSE ms
      /\ base' = messages' /\ phase' = "idle" /\ reused' = reused
  BY DEF Return, history
<1>2. Typed'
  BY <1>1 DEF Typed
<1>3. ~reused => Whole(base)
  BY DEF Orderly
<1>4. ~reused' => Whole(messages') /\ Whole(base')
  BY <1>1, <1>3
<1> QED
  BY <1>1, <1>2, <1>4, WholeIsOrderly

LEMMA TurnBegins == ASSUME Typed, Orderly, BeginTurn PROVE Typed' /\ Orderly'
<1>1. /\ messages' = Append(messages, Plain("user")) /\ base' = messages
      /\ phase = "idle" /\ phase' = "round" /\ reused' = reused
  BY DEF BeginTurn, history
<1>2. Plain("user") \in Messages /\ Plain("user").calls = <<>> /\ Plain("user").role = "user"
  BY PlainIsMessage DEF Plain, Roles
<1>3. Typed'
  BY <1>1, <1>2, AppendProperties DEF Typed
<1>4. ~reused => Whole(messages') /\ Whole(base')
  BY <1>1, <1>2, OrderlyIsWhole, AppendIsWhole DEF Typed
<1> QED
  BY <1>1, <1>3, <1>4, WholeIsOrderly

LEMMA RoundBegins == ASSUME Typed, Orderly, BeginRound PROVE Typed' /\ Orderly'
<1>1. phase = "round"
  BY DEF BeginRound
<1>2. PICK ms \in {messages, Compacted(messages)} :
         IF ValidPairing(ms)
         THEN /\ phase' = "model" /\ messages' = ms
              /\ UNCHANGED <<turn, history>>
         ELSE Return(ms)
  BY DEF BeginRound
<1>3. ms \in Seq(Messages) /\ (~reused => Whole(ms))
  BY <1>1, OrderlyIsWhole, CompactedIsWhole DEF Typed
<1>4. CASE phase' = "model" /\ messages' = ms /\ UNCHANGED <<turn, history>>
  <2>1. base' = base /\ reused' = reused
    BY <1>4 DEF turn, history
  <2>2. Typed'
    BY <1>3, <1>4, <2>1 DEF Typed
  <2>3. ~reused' => Whole(messages') /\ Whole(base')
    BY <1>1, <1>3, <1>4, <2>1, OrderlyIsWhole
  <2> QED
    BY <1>4, <2>2, <2>3, WholeIsOrderly
<1>5. CASE Return(ms)
  BY <1>3, <1>5, ReturnKeeps
<1> QED
  BY <1>2, <1>4, <1>5

LEMMA AnswerIsFinal == ASSUME Typed, Orderly, FinalAnswer PROVE Typed' /\ Orderly'
<1> DEFINE ms == Append(messages, Assistant(<<>>))
<1>1. phase = "model" /\ Return(ms)
  BY DEF FinalAnswer
<1>2. <<>> \in Seq(Nat)
  OBVIOUS
<1>3. /\ Assistant(<<>>) \in Messages /\ Assistant(<<>>).calls = <<>>
      /\ Assistant(<<>>).role = "assistant"
  BY <1>2, AssistantIsMessage DEF Assistant, Plain
<1>4. ms \in Seq(Messages)
  BY <1>3, AppendProperties DEF Typed
<1>5. ~reused => Whole(ms)
  BY <1>1, <1>3, OrderlyIsWhole, AppendIsWhole DEF Typed
<1> HIDE DEF ms
<1> QED
  BY <1>1, <1>4, <1>5, ReturnKeeps

LEMMA TranscriptReturns ==
    ASSUME Typed, Orderly, RoundsExceeded \/ ModelFails
    PROVE  Typed' /\ Orderly'
<1>1. phase # "tools" /\ Return(messages)
  BY DEF RoundsExceeded, ModelFails
<1> QED
  BY <1>1, OrderlyIsWhole, ReturnKeeps DEF Typed

\* The ids of the calls are new, unless reused says otherwise.
LEMMA AskedIds ==
    ASSUME Typed, NEW cs \in Answers, ValidCalls(cs)
    PROVE  LET ids == [i \in DOMAIN cs |-> cs[i].id]
           IN  /\ ids \in Seq(Nat) /\ Len(ids) = Len(cs)
               /\ \A i \in 1..Len(cs) : ids[i] = cs[i].id /\ cs[i].id \in IdsOf(cs)
               /\ \A k, l \in 1..Len(ids) : ids[k] = ids[l] => k = l
<1> DEFINE ids == [i \in DOMAIN cs |-> cs[i].id]
<1>1. cs \in Seq(Calls) /\ DOMAIN cs = 1..Len(cs) /\ Len(cs) \in Nat
  BY AnswersAreSequences
<1>2. \A i \in 1..Len(cs) : cs[i] \in Calls
  BY <1>1, ElementOfSeq
<1>3. \A i \in 1..Len(cs) : cs[i].id \in Nat
  BY <1>2 DEF Calls
<1>4. ids \in [1..Len(cs) -> Nat]
  BY <1>1, <1>3
<1>5. ids \in Seq(Nat) /\ Len(ids) = Len(cs)
  BY <1>1, <1>4
<1>6. \A i \in 1..Len(cs) : ids[i] = cs[i].id
  BY <1>1
<1>7. IdsOf(cs) = {cs[i].id : i \in 1..Len(cs)}
  BY <1>1 DEF IdsOf
<1> HIDE DEF ids
<1>8. IdsOf(cs) = {ids[k] : k \in 1..Len(cs)}
  BY <1>6, <1>7
<1>9. Cardinality(IdsOf(cs)) = Len(cs)
  BY DEF ValidCalls
<1>10. \A k, l \in 1..Len(cs) : ids[k] = ids[l] => k = l
  BY <1>1, <1>8, <1>9, DistinctByCounting
<1>11. \A i \in 1..Len(cs) : cs[i].id \in IdsOf(cs)
  BY <1>7
<1> QED
  BY <1>5, <1>6, <1>10, <1>11 DEF ids

LEMMA ModelAsks == ASSUME Typed, Orderly, ModelCallsTools PROVE Typed' /\ Orderly'
<1>1. PICK cs \in Answers :
         /\ ValidCalls(cs)
         /\ calls' = cs
         /\ messages' = Append(messages, Assistant([i \in DOMAIN cs |-> cs[i].id]))
         /\ reused' = (reused \/ \E id \in IdsOf(cs), i \in DOMAIN messages :
                                    id \in ToSet(messages[i].calls) \union used)
  BY DEF ModelCallsTools
<1>2. phase = "model" /\ phase' = "tools" /\ base' = base
  BY DEF ModelCallsTools, turn
<1> DEFINE ids == [i \in DOMAIN cs |-> cs[i].id]
<1>3. /\ ids \in Seq(Nat) /\ Len(ids) = Len(cs)
      /\ \A i \in 1..Len(cs) : ids[i] = cs[i].id /\ cs[i].id \in IdsOf(cs)
      /\ \A k, l \in 1..Len(ids) : ids[k] = ids[l] => k = l
  BY <1>1, AskedIds
<1>4. messages' = Append(messages, Assistant(ids)) /\ Assistant(ids).calls = ids
      /\ Assistant(ids).role = "assistant" /\ Assistant(ids) \in Messages
  BY <1>1, <1>3, AssistantIsMessage DEF Assistant, Plain
<1> HIDE DEF ids
<1>5. Typed'
  BY <1>2, <1>4, AppendProperties DEF Typed
<1>6. ASSUME ~reused' PROVE Whole(base') /\ Distinct(messages') /\ Underway'
  <2>1. ~reused /\ Whole(messages) /\ Whole(base)
    BY <1>1, <1>2, <1>6, OrderlyIsWhole
  <2>2. /\ messages \in Seq(Messages) /\ DOMAIN messages = 1..Len(messages)
        /\ \A i \in 1..Len(messages) : DOMAIN messages[i].calls = 1..Len(messages[i].calls)
    <3>1. messages \in Seq(Messages)
      BY DEF Typed
    <3>2. \A i \in 1..Len(messages) : messages[i].calls \in Seq(Nat)
      BY <3>1, MessagesOf
    <3> QED
      BY <3>1, <3>2
  <2>3. \A i \in 1..Len(messages) : \A k \in 1..Len(messages[i].calls), l \in 1..Len(ids) :
           messages[i].calls[k] # ids[l]
    <3> SUFFICES ASSUME NEW i \in 1..Len(messages), NEW k \in 1..Len(messages[i].calls),
                        NEW l \in 1..Len(ids), messages[i].calls[k] = ids[l]
                 PROVE  FALSE
      OBVIOUS
    <3>1. ids[l] \in IdsOf(cs)
      BY <1>3
    <3>2. messages[i].calls[k] \in ToSet(messages[i].calls)
      BY <2>2 DEF ToSet
    <3> QED
      BY <1>1, <1>6, <2>2, <3>1, <3>2
  <2>4. /\ messages' \in Seq(Messages) /\ Len(messages') > 0
        /\ messages'[Len(messages')] = Assistant(ids)
        /\ Complete(messages', Len(messages') - 1) /\ Distinct(messages')
    <3>1. NewIds(messages, ids)
      BY <1>3, <2>3 DEF NewIds
    <3> QED
      BY <1>3, <1>4, <2>1, <2>2, <3>1, AskIsUnderway
  <2>5. Indices' = 1..Len(cs)
    BY <1>1 DEF Indices
  <2>6. Underway'
    BY <1>1, <1>3, <1>4, <2>4, <2>5 DEF Underway
  <2> QED
    BY <1>2, <2>1, <2>4, <2>6
<1> QED
  BY <1>2, <1>5, <1>6 DEF Orderly

\* What the tools of an answer leave when they are done.
LEMMA ToolsFinish ==
    ASSUME ToolInv, FinishTools
    PROVE  \E rs \in Seq(Messages) :
              /\ messages' = messages \o rs /\ Len(rs) = Len(calls)
              /\ \A k \in Indices : /\ rs[k] = ToolResult(calls[k].id)
                                    /\ event[k] \in {outcome[k], "unsettled"} \ {"none"}
<1> DEFINE rs == [i \in DOMAIN calls |-> ToolResult(results[i])]
<1>1. messages' = messages \o rs /\ stop > Len(calls) /\ StepOver
  BY DEF FinishTools
<1>2. /\ Indices = DOMAIN calls /\ Indices = 1..Len(calls) /\ Len(calls) \in Nat
      /\ stop \in Nat /\ \A i \in Indices : i \in Nat /\ results[i] \in Nat
  <2>1. Indices = DOMAIN calls /\ Indices = 1..Len(calls) /\ Len(calls) \in Nat
    BY DEF ToolInv, AnswerTypes, Indices
  <2> QED
    BY <2>1 DEF ToolInv, AnswerTypes
<1>3. \A i \in Indices : attempt[i] = "closed"
  BY <1>1, <1>2, AllClosed
<1>4. \A i \in Indices : /\ results[i] = calls[i].id /\ outcome[i] # "none"
                         /\ event[i] \in {outcome[i], "unsettled"}
  BY <1>3 DEF ToolInv, Answered
<1>5. rs \in [1..Len(calls) -> Messages]
  BY <1>2, ToolResultIsMessage
<1>6. rs \in Seq(Messages) /\ Len(rs) = Len(calls)
  BY <1>2, <1>5
<1>7. \A k \in Indices : rs[k] = ToolResult(calls[k].id)
  BY <1>2, <1>4
<1> HIDE DEF rs
<1> QED
  BY <1>1, <1>4, <1>6, <1>7

LEMMA ToolsFinishOrderly ==
    ASSUME ToolInv, Typed, Orderly, FinishTools
    PROVE  Typed' /\ Orderly'
<1>1. phase = "tools" /\ phase' = "round" /\ base' = base /\ reused' = reused
  BY DEF FinishTools, turn, history
<1>2. PICK rs \in Seq(Messages) :
         /\ messages' = messages \o rs /\ Len(rs) = Len(calls)
         /\ \A k \in Indices : rs[k] = ToolResult(calls[k].id)
  BY ToolsFinish
<1>3. Typed'
  BY <1>1, <1>2, ConcatProperties DEF Typed
<1>4. ASSUME ~reused PROVE Whole(messages') /\ Whole(base')
  <2>1. Underway /\ Distinct(messages) /\ Whole(base)
    BY <1>1, <1>4 DEF Orderly
  <2>2. PICK n \in Nat : n = Len(messages) /\ messages \in Seq(Messages)
    BY DEF Typed
  <2>3. /\ n > 0 /\ messages[n].role = "assistant" /\ Complete(messages, n - 1)
        /\ Len(messages[n].calls) = Len(calls)
        /\ \A k \in Indices : messages[n].calls[k] = calls[k].id
    BY <2>1, <2>2 DEF Underway
  <2>4. Indices = 1..Len(calls) /\ Len(calls) \in Nat
    BY DEF ToolInv, AnswerTypes, Indices
  <2>5. \A k \in Indices : rs[k].role = "tool" /\ rs[k].of = messages[n].calls[k]
    BY <1>2, <2>3 DEF ToolResult, Plain
  <2>6. Whole(messages')
    <3>1. Completing(messages, n, Len(calls), rs)
      BY <1>2, <2>2, <2>3, <2>4, <2>5 DEF Completing
    <3> QED
      BY <1>2, <2>1, <2>2, <2>3, <2>4, <3>1, ResultsComplete
  <2> QED
    BY <1>1, <2>1, <2>6
<1> QED
  BY <1>1, <1>3, <1>4, WholeIsOrderly

-----------------------------------------------------------------------------
\* The steps that leave the transcript alone.
LEMMA ToolStepsStay ==
    ASSUME Typed, Orderly,
           \/ UNCHANGED agentVars \/ Cancel \/ StartStep \/ Collect
           \/ \E i \in DOMAIN calls : TakeJob(i) \/ Acquire(i) \/ AbortWaiting(i) \/ Execute(i)
    PROVE  Typed' /\ Orderly'
<1>1. UNCHANGED <<messages, base, reused, phase, calls>>
  <2>1. CASE UNCHANGED agentVars
    BY <2>1 DEF agentVars, turn, history, answer
  <2>2. CASE Cancel
    BY <2>2 DEF Cancel, turn, history, answer
  <2>3. CASE StartStep
    BY <2>3 DEF StartStep, Frame, turn, history
  <2>4. CASE Collect
    BY <2>4 DEF Collect, Frame, turn, history
  <2>5. ASSUME NEW i \in DOMAIN calls, TakeJob(i) \/ Acquire(i) \/ AbortWaiting(i) \/ Execute(i)
        PROVE  UNCHANGED <<messages, base, reused, phase, calls>>
    BY <2>5 DEF TakeJob, Acquire, AbortWaiting, Execute, Sent, Frame, turn, history
  <2> QED
    BY <2>1, <2>2, <2>3, <2>4, <2>5
<1> QED
  BY <1>1, TranscriptStays

LEMMA TurnInvKept == ASSUME TurnInv, [AgentNext]_agentVars PROVE TurnInv'
<1>1. ToolInv'
  BY ToolInvKept DEF TurnInv
<1>2. ToolInv /\ Typed /\ Orderly
  BY DEF TurnInv
<1>3. CASE \/ UNCHANGED agentVars \/ Cancel \/ StartStep \/ Collect
           \/ \E i \in DOMAIN calls : TakeJob(i) \/ Acquire(i) \/ AbortWaiting(i) \/ Execute(i)
  BY <1>1, <1>2, <1>3, ToolStepsStay DEF TurnInv
<1>4. CASE BeginTurn
  BY <1>1, <1>2, <1>4, TurnBegins DEF TurnInv
<1>5. CASE BeginRound
  BY <1>1, <1>2, <1>5, RoundBegins DEF TurnInv
<1>6. CASE RoundsExceeded \/ ModelFails
  BY <1>1, <1>2, <1>6, TranscriptReturns DEF TurnInv
<1>7. CASE FinalAnswer
  BY <1>1, <1>2, <1>7, AnswerIsFinal DEF TurnInv
<1>8. CASE ModelCallsTools
  BY <1>1, <1>2, <1>8, ModelAsks DEF TurnInv
<1>9. CASE FinishTools
  BY <1>1, <1>2, <1>9, ToolsFinishOrderly DEF TurnInv
<1> QED
  BY <1>3, <1>4, <1>5, <1>6, <1>7, <1>8, <1>9 DEF AgentNext, ToolStep

LEMMA TurnInvInitially == AgentInit => Typed /\ Orderly
<1> SUFFICES ASSUME AgentInit PROVE Typed /\ Orderly
  OBVIOUS
<1>1. messages = <<Plain("system")>> /\ base = messages /\ phase = "idle"
  BY DEF AgentInit
<1>2. /\ Plain("system") \in Messages /\ Plain("system").calls = <<>>
      /\ Plain("system").role = "system"
  BY PlainIsMessage DEF Plain, Roles
<1>3. Typed
  BY <1>1, <1>2 DEF Typed
<1>4. /\ Len(messages) = 1 /\ messages[1].role = "system" /\ Len(messages[1].calls) = 0
      /\ \A i \in 1..Len(messages) : i = 1
  BY <1>1, <1>2
<1>5. Whole(messages)
  BY <1>4 DEF Whole, Complete, ResultsAt, CallAt, Distinct, DistinctCalls
<1> QED
  BY <1>1, <1>3, <1>5 DEF Orderly, Whole

LEMMA TurnInvHolds == AgentSpec => []TurnInv
<1>1. Typed /\ Orderly /\ ToolInv => TurnInv
  BY DEF TurnInv
<1>2. TurnInv /\ [AgentNext]_agentVars => TurnInv'
  BY TurnInvKept
<1> QED
  BY <1>1, <1>2, TurnInvInitially, ToolInvHolds, PTL DEF AgentSpec

LEMMA StepAnswersCalls ==
    ASSUME TurnInv, [AgentNext]_agentVars, phase = "tools", phase' = "round"
    PROVE  \A i \in DOMAIN calls :
             /\ messages'[Len(messages) + i].of = calls[i].id
             /\ event[i] \in {outcome[i], "unsettled"} \ {"none"}
<1>0. ToolInv /\ messages \in Seq(Messages)
  BY DEF TurnInv, Typed
<1>1. FinishTools
  <2>1. ASSUME NEW ms, Return(ms) PROVE FALSE
    BY <2>1 DEF Return
  <2>2. ASSUME NEW i \in DOMAIN calls, TakeJob(i) \/ Acquire(i) \/ AbortWaiting(i) \/ Execute(i)
        PROVE  FALSE
    BY <2>2 DEF TakeJob, Acquire, AbortWaiting, Execute, Sent, Frame
  <2>3. ~(BeginTurn \/ BeginRound \/ RoundsExceeded \/ ModelFails \/ FinalAnswer \/ ModelCallsTools)
    BY DEF BeginTurn, BeginRound, RoundsExceeded, ModelFails, FinalAnswer, ModelCallsTools
  <2>4. ~(Cancel \/ StartStep \/ Collect \/ UNCHANGED agentVars)
    BY DEF Cancel, StartStep, Collect, Frame, agentVars
  <2> QED
    BY <2>2, <2>3, <2>4 DEF AgentNext, ToolStep
<1>2. PICK rs \in Seq(Messages) :
         /\ messages' = messages \o rs /\ Len(rs) = Len(calls)
         /\ \A k \in Indices : /\ rs[k] = ToolResult(calls[k].id)
                               /\ event[k] \in {outcome[k], "unsettled"} \ {"none"}
  BY <1>0, <1>1, ToolsFinish
<1>3. Indices = DOMAIN calls /\ Indices = 1..Len(calls) /\ Len(calls) \in Nat
  BY <1>0 DEF ToolInv, AnswerTypes, Indices
<1>4. \A k \in Indices : messages'[Len(messages) + k] = rs[k]
  <2> TAKE k \in Indices
  <2>1. /\ Len(messages) \in Nat /\ k \in Nat
        /\ Len(messages) + k \in 1..(Len(messages) + Len(rs))
        /\ ~(Len(messages) + k <= Len(messages)) /\ (Len(messages) + k) - Len(messages) = k
    BY <1>0, <1>2, <1>3
  <2> QED
    BY <1>0, <1>2, <2>1, ConcatProperties
<1>5. \A k \in Indices : ToolResult(calls[k].id).of = calls[k].id
  BY DEF ToolResult, Plain
<1> QED
  BY <1>2, <1>3, <1>4, <1>5

\* ResultsAnswerCalls: in whatever order the tools of an answer complete, the transcript
\* gets one result for each call, in the order of the calls, and each call has had its
\* terminal event (executeParallelToolBatch, appendToolResultMessages).
THEOREM AgentResultsAnswerCalls == AgentSpec => ResultsAnswerCalls
<1>1. TurnInv /\ [AgentNext]_agentVars =>
         [phase = "tools" /\ phase' = "round" =>
            \A i \in DOMAIN calls :
              /\ messages'[Len(messages) + i].of = calls[i].id
              /\ event[i] \in {outcome[i], "unsettled"} \ {"none"}]_agentVars
  <2> SUFFICES ASSUME TurnInv, [AgentNext]_agentVars, phase = "tools", phase' = "round"
               PROVE  \A i \in DOMAIN calls :
                        /\ messages'[Len(messages) + i].of = calls[i].id
                        /\ event[i] \in {outcome[i], "unsettled"} \ {"none"}
    OBVIOUS
  <2> QED
    BY StepAnswersCalls
<1> QED
  BY <1>1, TurnInvHolds, PTL DEF AgentSpec, ResultsAnswerCalls

\* A whole transcript is what the providers demand.
LEMMA WholeIsPaired == ASSUME NEW ms \in Seq(Messages), Whole(ms) PROVE Paired(ms)
<1>1. Len(ms) \in Nat /\ DOMAIN ms = 1..Len(ms) /\ \A i \in 1..Len(ms) : i \in Nat
  OBVIOUS
<1>2. \A i \in 1..Len(ms) : /\ Len(ms[i].calls) \in Nat
                            /\ DOMAIN ms[i].calls = 1..Len(ms[i].calls)
  <2> TAKE i \in 1..Len(ms)
  <2>1. ms[i].calls \in Seq(Nat)
    BY MessagesOf
  <2> QED
    BY <2>1
<1>3. ASSUME NEW i \in 1..Len(ms), ms[i].role = "assistant" PROVE ResultsFollow(ms, i)
  <2>1. PICK n \in Nat : n = Len(ms[i].calls)
    BY <1>2
  <2>2. i + n <= Len(ms) /\ \A k \in 1..n : ms[i + k].role = "tool" /\ ms[i + k].of = ms[i].calls[k]
    BY <1>3, <2>1 DEF Whole, Complete, ResultsAt, CallAt
  <2>3. ToSet(ms[i].calls) = {ms[i].calls[k] : k \in 1..n}
    BY <1>2, <2>1 DEF ToSet
  <2>4. {ms[i + k].of : k \in 1..n} = ToSet(ms[i].calls)
    BY <2>2, <2>3
  <2>5. \A k, l \in 1..n : ms[i].calls[k] = ms[i].calls[l] => k = l
    BY <2>1 DEF Whole, Distinct, DistinctCalls
  <2>6. Cardinality(ToSet(ms[i].calls)) = n
    <3>1. PICK f : f = ms[i].calls
      OBVIOUS
    <3>2. PICK T : T = {f[k] : k \in 1..n}
      OBVIOUS
    <3>3. \A k, l \in 1..n : f[k] = f[l] => k = l
      BY <2>5, <3>1
    <3>4. Cardinality(T) = n
      BY <3>2, <3>3, DistinctByCounting
    <3> QED
      BY <2>3, <3>1, <3>2, <3>4
  <2> QED
    BY <2>1, <2>2, <2>4, <2>6 DEF ResultsFollow
<1>4. ASSUME NEW i \in 1..Len(ms), ms[i].role = "tool"
      PROVE  \E j \in 1..(i - 1) : ms[j].role = "assistant" /\ i <= j + Len(ms[j].calls)
  <2>1. PICK j \in 1..Len(ms) : j < i /\ ms[j].role = "assistant" /\ i <= j + Len(ms[j].calls)
    BY <1>4 DEF Whole, Complete, ResultsAt, CallAt
  <2>2. j \in 1..(i - 1)
    BY <1>1, <2>1
  <2> QED
    BY <2>1, <2>2
<1>5. ASSUME NEW i \in 1..Len(ms), NEW j \in 1..Len(ms), i # j
      PROVE  ToSet(ms[i].calls) \intersect ToSet(ms[j].calls) = {}
  <2> SUFFICES ASSUME NEW id \in ToSet(ms[i].calls), id \in ToSet(ms[j].calls) PROVE FALSE
    OBVIOUS
  <2>1. PICK k \in 1..Len(ms[i].calls) : id = ms[i].calls[k]
    BY <1>2 DEF ToSet
  <2>2. PICK l \in 1..Len(ms[j].calls) : id = ms[j].calls[l]
    BY <1>2 DEF ToSet
  <2>3. DistinctCalls(ms, i, j)
    BY DEF Whole, Distinct
  <2>4. ms[i].calls[k] = ms[j].calls[l]
    BY <2>1, <2>2
  <2> QED
    BY <1>5, <2>3, <2>4 DEF DistinctCalls
<1> QED
  BY <1>1, <1>3, <1>4, <1>5 DEF Paired

-----------------------------------------------------------------------------
ScanStates ==
    [ok : BOOLEAN, pending : SUBSET Nat, seen : SUBSET Nat, completed : SUBSET Nat]

\* f is the pass over the first n messages.
IsScan(ms, n, f) ==
    /\ f \in [0..n -> ScanStates]
    /\ f[0] = Unscanned
    /\ \A k \in 1..n : f[k] = Scan(f[k - 1], ms[k])

LEMMA IdsAreNumbers ==
    ASSUME NEW m \in Messages
    PROVE  ToSet(m.calls) \in SUBSET Nat /\ m.of \in Nat
<1>1. m.calls \in Seq(Nat) /\ m.of \in Nat
  BY DEF Messages
<1>2. \A k \in DOMAIN m.calls : m.calls[k] \in Nat
  BY <1>1
<1> QED
  BY <1>1, <1>2 DEF ToSet

\* What a message does to the state of the pass.
LEMMA ScanOfAssistant ==
    ASSUME NEW st \in ScanStates, NEW m \in Messages, m.role = "assistant"
    PROVE  /\ Scan(st, m) \in ScanStates
           /\ Scan(st, m).ok <=> /\ st.ok /\ st.pending = {}
                                 /\ Cardinality(ToSet(m.calls)) = Len(m.calls)
                                 /\ ToSet(m.calls) \intersect st.seen = {}
           /\ Scan(st, m).pending = st.pending \union ToSet(m.calls)
           /\ Scan(st, m).seen = st.seen \union ToSet(m.calls)
           /\ Scan(st, m).completed = st.completed
<1>1. Scan(st, m) = [st EXCEPT !.ok = /\ @ /\ st.pending = {}
                                      /\ Cardinality(ToSet(m.calls)) = Len(m.calls)
                                      /\ ToSet(m.calls) \intersect st.seen = {},
                               !.pending = @ \union ToSet(m.calls),
                               !.seen = @ \union ToSet(m.calls)]
  BY DEF Scan
<1>2. ToSet(m.calls) \in SUBSET Nat
  BY IdsAreNumbers
<1>3. Scan(st, m) \in ScanStates
  <2>1. st.ok \in BOOLEAN /\ st.pending \in SUBSET Nat /\ st.seen \in SUBSET Nat
    BY DEF ScanStates
  <2>2. (/\ st.ok /\ st.pending = {}
         /\ Cardinality(ToSet(m.calls)) = Len(m.calls)
         /\ ToSet(m.calls) \intersect st.seen = {}) \in BOOLEAN
    OBVIOUS
  <2>3. /\ st.pending \union ToSet(m.calls) \in SUBSET Nat
        /\ st.seen \union ToSet(m.calls) \in SUBSET Nat
    BY <1>2, <2>1
  <2> QED
    BY <1>1, <2>2, <2>3 DEF ScanStates
<1>4. Scan(st, m).ok = (/\ st.ok /\ st.pending = {}
                        /\ Cardinality(ToSet(m.calls)) = Len(m.calls)
                        /\ ToSet(m.calls) \intersect st.seen = {})
  BY <1>1 DEF ScanStates
<1>5. /\ Scan(st, m).pending = st.pending \union ToSet(m.calls)
      /\ Scan(st, m).seen = st.seen \union ToSet(m.calls)
      /\ Scan(st, m).completed = st.completed
  BY <1>1 DEF ScanStates
<1> QED
  BY <1>3, <1>4, <1>5

LEMMA ScanOfResult ==
    ASSUME NEW st \in ScanStates, NEW m \in Messages, m.role = "tool"
    PROVE  /\ Scan(st, m) \in ScanStates
           /\ Scan(st, m).ok <=> st.ok /\ m.of \in st.pending /\ m.of \notin st.completed
           /\ Scan(st, m).pending = st.pending \ {m.of}
           /\ Scan(st, m).seen = st.seen
           /\ Scan(st, m).completed = st.completed \union {m.of}
<1>1. Scan(st, m) = [st EXCEPT !.ok = @ /\ m.of \in st.pending /\ m.of \notin st.completed,
                               !.pending = @ \ {m.of},
                               !.completed = @ \union {m.of}]
  BY DEF Scan
<1>2. m.of \in Nat
  BY IdsAreNumbers
<1>3. Scan(st, m) \in ScanStates
  <2>1. st.ok \in BOOLEAN /\ st.pending \in SUBSET Nat /\ st.completed \in SUBSET Nat
    BY DEF ScanStates
  <2>2. (st.ok /\ m.of \in st.pending /\ m.of \notin st.completed) \in BOOLEAN
    OBVIOUS
  <2>3. st.pending \ {m.of} \in SUBSET Nat /\ st.completed \union {m.of} \in SUBSET Nat
    BY <1>2, <2>1
  <2> QED
    BY <1>1, <2>2, <2>3 DEF ScanStates
<1>4. Scan(st, m).ok = (st.ok /\ m.of \in st.pending /\ m.of \notin st.completed)
  BY <1>1 DEF ScanStates
<1>5. /\ Scan(st, m).pending = st.pending \ {m.of} /\ Scan(st, m).seen = st.seen
      /\ Scan(st, m).completed = st.completed \union {m.of}
  BY <1>1 DEF ScanStates
<1> QED
  BY <1>3, <1>4, <1>5

LEMMA ScanOfOther ==
    ASSUME NEW st \in ScanStates, NEW m \in Messages, m.role # "assistant", m.role # "tool"
    PROVE  /\ Scan(st, m) \in ScanStates
           /\ Scan(st, m).ok <=> st.ok /\ st.pending = {}
           /\ Scan(st, m).pending = st.pending
           /\ Scan(st, m).seen = st.seen
           /\ Scan(st, m).completed = st.completed
<1>1. Scan(st, m) = [st EXCEPT !.ok = @ /\ st.pending = {}]
  BY DEF Scan
<1> QED
  BY <1>1 DEF ScanStates

LEMMA UnscannedIsState == Unscanned \in ScanStates
BY DEF Unscanned, ScanStates

LEMMA ScanIsState == ASSUME NEW st \in ScanStates, NEW m \in Messages
                     PROVE  Scan(st, m) \in ScanStates
BY ScanOfAssistant, ScanOfResult, ScanOfOther

LEMMA ScanExists ==
    ASSUME NEW ms \in Seq(Messages), NEW n \in 0..Len(ms)
    PROVE  \E f : IsScan(ms, n, f)
<1> DEFINE T == {k \in 0..Len(ms) : ~\E f : IsScan(ms, k, f)}
<1>1. Len(ms) \in Nat /\ T \subseteq Nat
  OBVIOUS
<1> SUFFICES ASSUME T # {} PROVE FALSE
  OBVIOUS
<1>2. PICK x \in T : \A y \in T : x <= y
  BY <1>1, LeastNumber
<1>3. x \in Nat /\ x <= Len(ms) /\ ~\E f : IsScan(ms, x, f)
  BY <1>1, <1>2
<1>4. x # 0
  <2>1. IsScan(ms, 0, [k \in 0..0 |-> Unscanned])
    BY UnscannedIsState DEF IsScan
  <2> QED
    BY <1>3, <2>1
<1>5. PICK f : IsScan(ms, x - 1, f)
  <2>1. x - 1 \in 0..Len(ms) /\ ~(x <= x - 1)
    BY <1>1, <1>3, <1>4
  <2>2. x - 1 \notin T
    BY <1>2, <2>1
  <2> QED
    BY <2>1, <2>2
<1> HIDE DEF T
<1>6. x - 1 \in 0..(x - 1) /\ x \in 1..Len(ms) /\ ms[x] \in Messages
  <2>1. x - 1 \in 0..(x - 1) /\ x \in 1..Len(ms)
    BY <1>1, <1>3, <1>4
  <2> QED
    BY <2>1, MessagesOf
<1> DEFINE g == [k \in 0..x |-> IF k = x THEN Scan(f[x - 1], ms[x]) ELSE f[k]]
<1>7. f \in [0..(x - 1) -> ScanStates] /\ Scan(f[x - 1], ms[x]) \in ScanStates
  BY <1>5, <1>6, ScanIsState DEF IsScan
<1>8. g \in [0..x -> ScanStates]
  BY <1>3, <1>4, <1>7
<1>9. g[0] = Unscanned
  BY <1>3, <1>4, <1>5 DEF IsScan
<1>10. \A k \in 1..x : g[k] = Scan(g[k - 1], ms[k])
  <2> SUFFICES ASSUME NEW k \in 1..x PROVE g[k] = Scan(g[k - 1], ms[k])
    OBVIOUS
  <2>1. k \in 0..x /\ k - 1 \in 0..x /\ k - 1 # x
    BY <1>3
  <2>2. g[k - 1] = f[k - 1]
    BY <2>1
  <2>3. CASE k = x
    BY <2>1, <2>2, <2>3
  <2>4. CASE k # x
    <3>1. k \in 1..(x - 1) /\ g[k] = f[k]
      BY <1>3, <2>1, <2>4
    <3> QED
      BY <1>5, <2>2, <3>1 DEF IsScan
  <2> QED
    BY <2>3, <2>4
<1>11. IsScan(ms, x, g)
  BY <1>8, <1>9, <1>10 DEF IsScan
<1> QED
  BY <1>3, <1>11

LEMMA ScansIsScan == ASSUME NEW ms \in Seq(Messages) PROVE IsScan(ms, Len(ms), Scans(ms))
<1> DEFINE Body(f) == [n \in 0..Len(ms) |-> IF n = 0 THEN Unscanned ELSE Scan(f[n - 1], ms[n])]
<1>1. Len(ms) \in Nat
  OBVIOUS
<1>2. PICK f : IsScan(ms, Len(ms), f)
  BY <1>1, ScanExists
<1>3. f = Body(f)
  <2>1. f \in [0..Len(ms) -> ScanStates]
    BY <1>2 DEF IsScan
  <2>2. \A n \in 0..Len(ms) : f[n] = Body(f)[n]
    BY <1>1, <1>2 DEF IsScan
  <2> QED
    BY <2>1, <2>2
<1>4. Scans(ms) = CHOOSE g : g = Body(g)
  BY DEF Scans
<1>5. Scans(ms) = Body(Scans(ms))
  BY <1>3, <1>4
<1> DEFINE T == {k \in 0..Len(ms) : Scans(ms)[k] \notin ScanStates}
<1>6. T = {}
  <2> SUFFICES ASSUME T # {} PROVE FALSE
    OBVIOUS
  <2>1. PICK x \in T : \A y \in T : x <= y
    <3>1. T \subseteq Nat
      BY <1>1
    <3> QED
      BY <3>1, LeastNumber
  <2>2. x \in 0..Len(ms) /\ x \in Nat /\ Scans(ms)[x] \notin ScanStates
    BY <1>1
  <2>3. x # 0
    <3>1. Scans(ms)[0] = Unscanned
      BY <1>1, <1>5
    <3> QED
      BY <2>2, <3>1, UnscannedIsState
  <2>4. x - 1 \in 0..Len(ms) /\ ~(x <= x - 1) /\ x \in 1..Len(ms)
    BY <1>1, <2>2, <2>3
  <2>5. Scans(ms)[x - 1] \in ScanStates
    BY <2>1, <2>4
  <2>6. Scans(ms)[x] = Scan(Scans(ms)[x - 1], ms[x])
    <3>1. Scans(ms)[x] = Body(Scans(ms))[x]
      BY <1>5
    <3> QED
      BY <2>2, <2>3, <3>1
  <2> QED
    BY <2>2, <2>4, <2>5, <2>6, MessagesOf, ScanIsState
<1>7. \A k \in 0..Len(ms) : Scans(ms)[k] \in ScanStates
  BY <1>6
<1> HIDE DEF T
<1>8. Scans(ms) \in [0..Len(ms) -> ScanStates]
  BY <1>5, <1>7
<1>9. Scans(ms)[0] = Unscanned
  BY <1>1, <1>5
<1>10. \A k \in 1..Len(ms) : Scans(ms)[k] = Scan(Scans(ms)[k - 1], ms[k])
  <2> TAKE k \in 1..Len(ms)
  <2>1. k \in 0..Len(ms) /\ k # 0
    OBVIOUS
  <2> QED
    BY <1>5, <2>1
<1> HIDE DEF Body
<1> QED
  BY <1>8, <1>9, <1>10 DEF IsScan

\* What the pass knows of the assistant's message i after n messages, when its state
\* is st: its calls are pending or answered by the results that follow.
Window(ms, i, n, left) ==
    LET L == Len(ms[i].calls)
        ids == ToSet(ms[i].calls)
    IN /\ Cardinality(ids) = L
       /\ \A k \in 1..L : i + k <= n => ms[i + k].role = "tool" /\ ms[i + k].of \in ids
       /\ n <= i + L =>
            /\ left \subseteq ids /\ Cardinality(left) = i + L - n
            /\ \A id \in ids : \/ id \in left
                               \/ \E k \in 1..L : i + k <= n /\ ms[i + k].of = id
       /\ n >= i + L => \A id \in ids : \E k \in 1..L : ms[i + k].of = id

ScanKnows(ms, n, st) ==
    /\ \A i \in 1..n : ms[i].role = "assistant" => Window(ms, i, n, st.pending)
    /\ \A i \in 1..n :
          ms[i].role = "tool" =>
             \E j \in 1..n : j < i /\ ms[j].role = "assistant" /\ i <= j + Len(ms[j].calls)
    /\ st.pending # {} => \E i \in 1..n : ms[i].role = "assistant" /\ n < i + Len(ms[i].calls)
    /\ \A i \in 1..n : ToSet(ms[i].calls) \subseteq st.seen
    /\ \A i, j \in 1..n : i # j => ToSet(ms[i].calls) \intersect ToSet(ms[j].calls) = {}

LEMMA ImageIsFinite == ASSUME NEW n \in Nat, NEW f PROVE IsFiniteSet({f[k] : k \in 1..n})
<1>1. PICK T : T = {f[k] : k \in 1..n}
  OBVIOUS
<1>2. IsFiniteSet(T)
  BY <1>1, DistinctByCounting
<1> QED
  BY <1>1, <1>2

LEMMA CallsOf ==
    ASSUME NEW ms \in Seq(Messages), NEW i \in 1..Len(ms)
    PROVE  /\ i \in Nat /\ Len(ms[i].calls) \in Nat /\ IsFiniteSet(ToSet(ms[i].calls))
           /\ ms[i].role # "assistant" => ToSet(ms[i].calls) = {}
           /\ Len(ms[i].calls) = 0 => ToSet(ms[i].calls) = {}
<1>1. PICK f : f = ms[i].calls
  OBVIOUS
<1>2. Len(f) \in Nat /\ DOMAIN f = 1..Len(f)
  <2>1. f \in Seq(Nat)
    BY <1>1, MessagesOf
  <2> QED
    BY <2>1
<1>3. PICK T : T = {f[k] : k \in 1..Len(f)}
  OBVIOUS
<1>4. ToSet(f) = T
  BY <1>2, <1>3 DEF ToSet
<1>5. IsFiniteSet(T)
  <2>1. PICK n \in Nat : n = Len(f)
    BY <1>2
  <2>2. T = {f[k] : k \in 1..n}
    BY <1>3, <2>1
  <2> QED
    BY <2>2, ImageIsFinite
<1>6. ASSUME Len(f) = 0 PROVE T = {}
  <2>1. 1..Len(f) = {}
    BY <1>6
  <2> QED
    BY <1>3, <2>1
<1>7. ms[i].role # "assistant" => Len(f) = 0
  BY <1>1, MessagesOf
<1> QED
  BY <1>1, <1>2, <1>4, <1>5, <1>6, <1>7

\* Nothing pending: every window is closed, and stays as it is.
LEMMA ClosedWindows ==
    ASSUME NEW ms \in Seq(Messages), NEW n \in 0..Len(ms), NEW st, ScanKnows(ms, n, st),
           st.pending = {}, NEW i \in 1..n, ms[i].role = "assistant"
    PROVE  i + Len(ms[i].calls) <= n /\ \A p : Window(ms, i, n + 1, p)
<1> DEFINE L == Len(ms[i].calls)
           ids == ToSet(ms[i].calls)
<1>1. Len(ms) \in Nat /\ n \in Nat /\ i \in 1..Len(ms) /\ i \in Nat
  OBVIOUS
<1>2. L \in Nat
  BY <1>1, CallsOf
<1>3. /\ Cardinality(ids) = L
      /\ \A k \in 1..L : i + k <= n => ms[i + k].role = "tool" /\ ms[i + k].of \in ids
      /\ n <= i + L => Cardinality(st.pending) = i + L - n
      /\ n >= i + L => \A id \in ids : \E k \in 1..L : ms[i + k].of = id
  BY DEF ScanKnows, Window
<1>4. Cardinality(st.pending) = 0
  BY FS_EmptySet
<1> HIDE DEF L, ids
<1>5. i + L <= n
  BY <1>1, <1>2, <1>3, <1>4
<1>6. ~(n + 1 <= i + L) /\ n >= i + L /\ \A k \in 1..L : i + k <= n
  BY <1>1, <1>2, <1>5
<1>7. ASSUME NEW p PROVE Window(ms, i, n + 1, p)
  <2>1. \A k \in 1..L : ms[i + k].role = "tool" /\ ms[i + k].of \in ids
    BY <1>3, <1>6
  <2> QED
    BY <1>3, <1>6, <2>1 DEF Window, L, ids
<1> QED
  BY <1>5, <1>7 DEF L

\* One message more: a result closes a part of the open window.
LEMMA ScanKnowsResult ==
    ASSUME NEW ms \in Seq(Messages), NEW n \in 0..(Len(ms) - 1),
           NEW st \in ScanStates, ScanKnows(ms, n, st), ms[n + 1].role = "tool",
           NEW new, new = Scan(st, ms[n + 1]), new.ok
    PROVE  ScanKnows(ms, n + 1, new)
<1> DEFINE m == ms[n + 1]
<1>1. /\ Len(ms) \in Nat /\ n \in Nat /\ n + 1 \in 1..Len(ms)
      /\ \A i \in 1..(n + 1) : i \in 1..n \/ i = n + 1
      /\ \A i \in 1..n : i \in 1..Len(ms) /\ i \in 1..(n + 1) /\ i \in Nat
  OBVIOUS
<1>2. m \in Messages /\ m.role = "tool" /\ ToSet(m.calls) = {}
  BY <1>1, MessagesOf, CallsOf
<1> HIDE DEF m
<1>3. m.of \in st.pending /\ new.pending = st.pending \ {m.of} /\ new.seen = st.seen
  BY <1>2, ScanOfResult DEF m
<1>4. PICK o \in 1..n : ms[o].role = "assistant" /\ n < o + Len(ms[o].calls)
  BY <1>3 DEF ScanKnows
<1>5. ASSUME NEW i \in 1..n, ms[i].role = "assistant"
      PROVE  /\ Window(ms, i, n + 1, new.pending)
             /\ n + 1 = i + Len(ms[i].calls) => new.pending = {}
  <2> DEFINE L == Len(ms[i].calls)
             ids == ToSet(ms[i].calls)
  <2>1. L \in Nat /\ IsFiniteSet(ids) /\ i \in Nat /\ n - i \in Nat
    BY <1>1, CallsOf
  <2>2. /\ Cardinality(ids) = L
        /\ \A k \in 1..L : i + k <= n => ms[i + k].role = "tool" /\ ms[i + k].of \in ids
        /\ n <= i + L =>
             /\ st.pending \subseteq ids /\ Cardinality(st.pending) = i + L - n
             /\ \A id \in ids : \/ id \in st.pending
                                \/ \E k \in 1..L : i + k <= n /\ ms[i + k].of = id
        /\ n >= i + L => \A id \in ids : \E k \in 1..L : ms[i + k].of = id
    BY <1>5 DEF ScanKnows, Window
  <2> HIDE DEF L, ids
  <2>3. CASE n >= i + L
    <3>1. n # i + L
      <4> SUFFICES ASSUME n = i + L PROVE FALSE
        OBVIOUS
      <4>1. st.pending \subseteq ids /\ Cardinality(st.pending) = 0
        BY <1>1, <2>1, <2>2
      <4>2. IsFiniteSet(st.pending)
        BY <2>1, <4>1, FS_Subset
      <4>3. st.pending = {}
        BY <4>1, <4>2, FS_EmptySet
      <4> QED
        BY <1>3, <4>3
    <3>2. /\ ~(n + 1 <= i + L) /\ n + 1 # i + L
          /\ \A k \in 1..L : i + k <= n
      BY <1>1, <2>1, <2>3, <3>1
    <3>3. \A k \in 1..L : ms[i + k].role = "tool" /\ ms[i + k].of \in ids
      BY <2>2, <3>2
    <3>4. Window(ms, i, n + 1, new.pending)
      BY <2>2, <2>3, <3>2, <3>3 DEF Window, L, ids
    <3> QED
      BY <3>2, <3>4 DEF L
  <2>4. CASE n < i + L
    <3>1. /\ st.pending \subseteq ids /\ Cardinality(st.pending) = i + L - n
          /\ \A id \in ids : \/ id \in st.pending
                             \/ \E k \in 1..L : i + k <= n /\ ms[i + k].of = id
      BY <1>1, <2>1, <2>2, <2>4
    <3>2. PICK q \in 1..L : i + q = n + 1
      <4>1. (n + 1) - i \in 1..L /\ i + ((n + 1) - i) = n + 1
        BY <1>1, <2>1, <2>4
      <4> QED
        BY <4>1
    <3>3. ms[i + q].role = "tool" /\ ms[i + q].of \in ids /\ ms[i + q].of = m.of
      BY <1>2, <1>3, <3>1, <3>2 DEF m
    <3>4. \A k \in 1..L : i + k <= n + 1 => i + k <= n \/ k = q
      BY <1>1, <2>1, <3>2
    <3>5. \A k \in 1..L : i + k <= n + 1 => ms[i + k].role = "tool" /\ ms[i + k].of \in ids
      BY <2>2, <3>3, <3>4
    <3>6. IsFiniteSet(st.pending) /\ IsFiniteSet(new.pending)
      BY <1>3, <2>1, <3>1, FS_Subset, FS_RemoveElement
    <3>7. Cardinality(new.pending) = Cardinality(st.pending) - 1
      BY <1>3, <3>6, FS_RemoveElement
    <3>8. new.pending \subseteq ids /\ Cardinality(new.pending) = i + L - (n + 1)
      BY <1>1, <1>3, <2>1, <3>1, <3>7
    <3>9. \A k \in 1..L : i + k <= n => i + k <= n + 1
      BY <1>1, <2>1
    <3>10. \A id \in ids : \/ id \in new.pending
                           \/ \E k \in 1..L : i + k <= n + 1 /\ ms[i + k].of = id
      <4> TAKE id \in ids
      <4>1. CASE id = m.of
        BY <1>1, <3>2, <3>3, <4>1
      <4>2. CASE id # m.of
        BY <1>3, <3>1, <3>9, <4>2
      <4> QED
        BY <4>1, <4>2
    <3>11. n + 1 = i + L => new.pending = {}
      <4> SUFFICES ASSUME n + 1 = i + L PROVE new.pending = {}
        OBVIOUS
      <4>1. Cardinality(new.pending) = 0
        BY <1>1, <2>1, <3>8
      <4> QED
        BY <3>6, <4>1, FS_EmptySet
    <3>12. n + 1 >= i + L => \A id \in ids : \E k \in 1..L : ms[i + k].of = id
      <4> SUFFICES ASSUME n + 1 >= i + L PROVE \A id \in ids : \E k \in 1..L : ms[i + k].of = id
        OBVIOUS
      <4>1. n + 1 = i + L
        BY <1>1, <2>1, <2>4
      <4> QED
        BY <3>10, <3>11, <4>1
    <3>13. Window(ms, i, n + 1, new.pending)
      BY <2>2, <3>5, <3>8, <3>10, <3>12 DEF Window, L, ids
    <3> QED
      BY <3>11, <3>13 DEF L
  <2> QED
    BY <1>1, <2>1, <2>3, <2>4
<1>6. \A i \in 1..(n + 1) : ms[i].role = "assistant" => Window(ms, i, n + 1, new.pending)
  BY <1>1, <1>2, <1>5 DEF m
<1>7. ASSUME NEW i \in 1..(n + 1), ms[i].role = "tool"
      PROVE  \E j \in 1..(n + 1) :
                j < i /\ ms[j].role = "assistant" /\ i <= j + Len(ms[j].calls)
  <2>1. CASE i = n + 1
    <3>1. o \in 1..(n + 1) /\ o < n + 1 /\ Len(ms[o].calls) \in Nat
      BY <1>1, CallsOf
    <3>2. n + 1 <= o + Len(ms[o].calls)
      BY <1>1, <1>4, <3>1
    <3> QED
      BY <1>4, <2>1, <3>1, <3>2
  <2>2. CASE i \in 1..n
    BY <1>1, <1>7, <2>2 DEF ScanKnows
  <2> QED
    BY <1>1, <2>1, <2>2
<1>8. new.pending # {} =>
        \E i \in 1..(n + 1) : ms[i].role = "assistant" /\ n + 1 < i + Len(ms[i].calls)
  <2> SUFFICES ASSUME new.pending # {}
               PROVE  n + 1 < o + Len(ms[o].calls)
    BY <1>1, <1>4
  <2>1. Len(ms[o].calls) \in Nat
    BY <1>1, CallsOf
  <2>2. n + 1 # o + Len(ms[o].calls)
    BY <1>4, <1>5
  <2> QED
    BY <1>1, <1>4, <2>1, <2>2
<1>9. \A i \in 1..(n + 1) : ToSet(ms[i].calls) \subseteq new.seen
  BY <1>1, <1>2, <1>3 DEF ScanKnows, m
<1>10. \A i, j \in 1..(n + 1) : i # j => ToSet(ms[i].calls) \intersect ToSet(ms[j].calls) = {}
  BY <1>1, <1>2 DEF ScanKnows, m
<1> QED
  BY <1>6, <1>7, <1>8, <1>9, <1>10 DEF ScanKnows

\* One message more that is no result: nothing was pending.
LEMMA ScanKnowsMessage ==
    ASSUME NEW ms \in Seq(Messages), NEW n \in 0..(Len(ms) - 1),
           NEW st \in ScanStates, ScanKnows(ms, n, st), ms[n + 1].role # "tool",
           NEW new, new = Scan(st, ms[n + 1]), new.ok
    PROVE  ScanKnows(ms, n + 1, new)
<1> DEFINE m == ms[n + 1]
           ids == ToSet(m.calls)
<1>1. /\ Len(ms) \in Nat /\ n \in Nat /\ n + 1 \in 1..Len(ms) /\ n \in 0..Len(ms)
      /\ \A i \in 1..(n + 1) : i \in 1..n \/ i = n + 1
      /\ \A i \in 1..n : i \in 1..Len(ms) /\ i \in 1..(n + 1) /\ i \in Nat
  OBVIOUS
<1>2. /\ m \in Messages /\ m.role # "tool" /\ Len(m.calls) \in Nat /\ IsFiniteSet(ids)
      /\ m.role # "assistant" => ids = {}
      /\ Len(m.calls) = 0 => ids = {}
  BY <1>1, MessagesOf, CallsOf
<1> HIDE DEF m
<1>3. /\ st.pending = {}
      /\ new.pending = ids /\ new.seen = st.seen \union ids
      /\ ids \intersect st.seen = {}
      /\ m.role = "assistant" => Cardinality(ids) = Len(m.calls)
  <2>1. CASE m.role = "assistant"
    <3>1. new = Scan(st, m) /\ new.ok
      BY DEF m
    <3> QED
      <4>1. /\ st.pending = {} /\ Cardinality(ids) = Len(m.calls)
            /\ ids \intersect st.seen = {}
            /\ new.pending = st.pending \union ids /\ new.seen = st.seen \union ids
        BY <1>2, <2>1, <3>1, ScanOfAssistant
      <4> QED
        BY <4>1
  <2>2. CASE m.role # "assistant"
    <3>1. new = Scan(st, m) /\ new.ok
      BY DEF m
    <3> QED
      <4>1. st.pending = {} /\ new.pending = st.pending /\ new.seen = st.seen
        BY <1>2, <2>2, <3>1, ScanOfOther
      <4>2. ids = {}
        BY <1>2, <2>2
      <4> HIDE DEF ids
      <4> QED
        BY <2>2, <4>1, <4>2
  <2> QED
    BY <2>1, <2>2
<1>4. \A i \in 1..n : ms[i].role = "assistant" => Window(ms, i, n + 1, new.pending)
  BY <1>1, <1>3, ClosedWindows
<1>5. ASSUME m.role = "assistant" PROVE Window(ms, n + 1, n + 1, new.pending)
  <2> DEFINE L == Len(m.calls)
  <2>1. Cardinality(ids) = L /\ L \in Nat
    BY <1>2, <1>3, <1>5
  <2> HIDE DEF L, ids
  <2>2. \A k \in 1..L : ~((n + 1) + k <= n + 1)
    BY <1>1, <2>1
  <2>3. Cardinality(new.pending) = (n + 1) + L - (n + 1)
    BY <1>1, <1>3, <2>1
  <2>4. n + 1 >= (n + 1) + L => ids = {}
    BY <1>1, <1>2, <2>1 DEF L
  <2> QED
    BY <1>3, <2>1, <2>2, <2>3, <2>4 DEF Window, L, ids, m
<1>6. \A i \in 1..(n + 1) : ms[i].role = "assistant" => Window(ms, i, n + 1, new.pending)
  BY <1>1, <1>4, <1>5 DEF m
<1>7. ASSUME NEW i \in 1..(n + 1), ms[i].role = "tool"
      PROVE  \E j \in 1..(n + 1) :
                j < i /\ ms[j].role = "assistant" /\ i <= j + Len(ms[j].calls)
  BY <1>1, <1>2, <1>7 DEF ScanKnows, m
<1>8. new.pending # {} =>
        \E i \in 1..(n + 1) : ms[i].role = "assistant" /\ n + 1 < i + Len(ms[i].calls)
  <2> SUFFICES ASSUME ids # {}
               PROVE  \E i \in 1..(n + 1) :
                         ms[i].role = "assistant" /\ n + 1 < i + Len(ms[i].calls)
    BY <1>3
  <2>1. m.role = "assistant" /\ Len(m.calls) # 0
    BY <1>2
  <2>2. n + 1 \in 1..(n + 1) /\ n + 1 < (n + 1) + Len(m.calls)
    <3>1. PICK L \in Nat \ {0} : L = Len(m.calls)
      BY <1>2, <2>1
    <3>2. n + 1 < (n + 1) + L /\ n + 1 \in 1..(n + 1)
      BY <1>1
    <3> QED
      BY <3>1, <3>2
  <2> QED
    BY <2>1, <2>2 DEF m
<1>9. \A i \in 1..(n + 1) : ToSet(ms[i].calls) \subseteq new.seen
  BY <1>1, <1>3 DEF ScanKnows, m
<1>10. \A i, j \in 1..(n + 1) : i # j => ToSet(ms[i].calls) \intersect ToSet(ms[j].calls) = {}
  <2> SUFFICES ASSUME NEW i \in 1..(n + 1), NEW j \in 1..(n + 1), i # j
               PROVE  ToSet(ms[i].calls) \intersect ToSet(ms[j].calls) = {}
    OBVIOUS
  <2>1. \A k \in 1..n : ToSet(ms[k].calls) \intersect ids = {}
    BY <1>3 DEF ScanKnows
  <2>2. CASE i \in 1..n /\ j \in 1..n
    BY <2>2 DEF ScanKnows
  <2>3. CASE i = n + 1
    BY <1>1, <2>1, <2>3 DEF m
  <2>4. CASE j = n + 1
    BY <1>1, <2>1, <2>4 DEF m
  <2> QED
    BY <1>1, <2>2, <2>3, <2>4
<1> QED
  BY <1>6, <1>7, <1>8, <1>9, <1>10 DEF ScanKnows

-----------------------------------------------------------------------------
LEMMA ScanKnowsPrefix ==
    ASSUME NEW ms \in Seq(Messages), NEW n \in 0..Len(ms), Scans(ms)[n].ok
    PROVE  ScanKnows(ms, n, Scans(ms)[n])
<1> DEFINE T == {k \in 0..Len(ms) : Scans(ms)[k].ok /\ ~ScanKnows(ms, k, Scans(ms)[k])}
<1>1. Len(ms) \in Nat /\ T \subseteq Nat
  OBVIOUS
<1> SUFFICES ASSUME T # {} PROVE FALSE
  OBVIOUS
<1>2. PICK x \in T : \A y \in T : x <= y
  BY <1>1, LeastNumber
<1>3. /\ x \in Nat /\ x \in 0..Len(ms)
      /\ Scans(ms)[x].ok /\ ~ScanKnows(ms, x, Scans(ms)[x])
  BY <1>1
<1>4. IsScan(ms, Len(ms), Scans(ms))
  BY ScansIsScan
<1>5. x # 0
  <2>1. Scans(ms)[0].pending = {}
    BY <1>4 DEF IsScan, Unscanned
  <2>2. ScanKnows(ms, 0, Scans(ms)[0])
    BY <2>1 DEF ScanKnows
  <2> QED
    BY <1>3, <2>2
<1>6. PICK n1 \in 0..(Len(ms) - 1) : n1 + 1 = x
  <2>1. x - 1 \in 0..(Len(ms) - 1) /\ (x - 1) + 1 = x
    BY <1>1, <1>3, <1>5
  <2> QED
    BY <2>1
<1>7. PICK st : st = Scans(ms)[n1]
  OBVIOUS
<1>8. PICK new : new = Scans(ms)[x]
  OBVIOUS
<1>9. n1 \in Nat /\ n1 \in 0..Len(ms) /\ ~(x <= n1) /\ x \in 1..Len(ms) /\ x - 1 = n1
  BY <1>1, <1>3, <1>6
<1>10. st \in ScanStates /\ new = Scan(st, ms[x]) /\ ms[x] \in Messages
  BY <1>4, <1>7, <1>8, <1>9, MessagesOf DEF IsScan
<1>11. new.ok /\ ~ScanKnows(ms, x, new)
  BY <1>3, <1>8
<1>12. st.ok
  <2>1. CASE ms[x].role = "assistant"
    BY <1>10, <1>11, <2>1, ScanOfAssistant
  <2>2. CASE ms[x].role = "tool"
    BY <1>10, <1>11, <2>2, ScanOfResult
  <2>3. CASE ms[x].role # "assistant" /\ ms[x].role # "tool"
    BY <1>10, <1>11, <2>3, ScanOfOther
  <2> QED
    BY <2>1, <2>2, <2>3
<1>13. ScanKnows(ms, n1, st)
  BY <1>2, <1>7, <1>9, <1>12
<1> HIDE DEF T
<1>14. new = Scan(st, ms[n1 + 1])
  BY <1>6, <1>10
<1>15. ScanKnows(ms, n1 + 1, new)
  BY <1>10, <1>11, <1>13, <1>14, ScanKnowsResult, ScanKnowsMessage
<1> QED
  BY <1>6, <1>11, <1>15

\* The check before every request is sound: a transcript of any length, with any roles
\* and call ids, that validateTranscriptPairing lets pass is what the providers demand.
THEOREM ValidTranscriptsArePaired ==
    ASSUME NEW ms \in Seq(Messages), ValidPairing(ms)
    PROVE  Paired(ms)
<1>1. PICK n \in Nat : n = Len(ms) /\ n \in 0..Len(ms)
  <2>1. Len(ms) \in Nat /\ Len(ms) \in 0..Len(ms)
    OBVIOUS
  <2> QED
    BY <2>1
<1>2. PICK st : st = Scans(ms)[n]
  OBVIOUS
<1>3. st.ok /\ st.pending = {}
  BY <1>1, <1>2 DEF ValidPairing, Scanned
<1>4. ScanKnows(ms, n, st)
  BY <1>1, <1>2, <1>3, ScanKnowsPrefix
<1>5. DOMAIN ms = 1..n
  BY <1>1
<1>6. ASSUME NEW i \in 1..n, ms[i].role = "assistant" PROVE ResultsFollow(ms, i)
  <2>1. i \in 1..Len(ms)
    BY <1>1
  <2>2. PICK L \in Nat : L = Len(ms[i].calls)
    BY <2>1, CallsOf
  <2>3. i + L <= n
    BY <1>1, <1>3, <1>4, <1>6, <2>2, ClosedWindows
  <2>4. /\ Cardinality(ToSet(ms[i].calls)) = L
        /\ \A k \in 1..L :
              i + k <= n => ms[i + k].role = "tool" /\ ms[i + k].of \in ToSet(ms[i].calls)
        /\ n >= i + L => \A id \in ToSet(ms[i].calls) : \E k \in 1..L : ms[i + k].of = id
    BY <1>4, <1>6, <2>2 DEF ScanKnows, Window
  <2>5. n >= i + L /\ \A k \in 1..L : i + k <= n
    BY <1>1, <2>1, <2>3
  <2>6. \A k \in 1..L : ms[i + k].role = "tool" /\ ms[i + k].of \in ToSet(ms[i].calls)
    BY <2>4, <2>5
  <2>7. {ms[i + k].of : k \in 1..L} = ToSet(ms[i].calls)
    BY <2>4, <2>5, <2>6
  <2> QED
    BY <1>1, <2>2, <2>3, <2>4, <2>6, <2>7 DEF ResultsFollow
<1>7. ASSUME NEW i \in 1..n, ms[i].role = "tool"
      PROVE  \E j \in 1..(i - 1) : ms[j].role = "assistant" /\ i <= j + Len(ms[j].calls)
  <2>1. PICK j \in 1..n : j < i /\ ms[j].role = "assistant" /\ i <= j + Len(ms[j].calls)
    BY <1>4, <1>7 DEF ScanKnows
  <2>2. j \in 1..(i - 1)
    BY <1>1, <2>1
  <2> QED
    BY <2>1, <2>2
<1>8. \A i, j \in 1..n : i # j => ToSet(ms[i].calls) \intersect ToSet(ms[j].calls) = {}
  BY <1>4 DEF ScanKnows
<1> QED
  BY <1>5, <1>6, <1>7, <1>8 DEF Paired

-----------------------------------------------------------------------------
\* The places of the results that a paired transcript has still to bring after n messages.
Awaited(ms, n) ==
    {q \in 1..Len(ms) :
       n < q /\ \E i \in 1..n : ms[i].role = "assistant" /\ q <= i + Len(ms[i].calls)}

\* How far the pass has come with n messages of a paired transcript: what is pending are
\* the ids of those results, and what it has seen or completed is behind it.
ScanGoes(ms, n, st) ==
    /\ st.ok
    /\ st.pending = {ms[q].of : q \in Awaited(ms, n)}
    /\ \A id \in st.seen : \E i \in 1..n : id \in ToSet(ms[i].calls)
    /\ \A id \in st.completed : \E q \in 1..n : ms[q].role = "tool" /\ ms[q].of = id

\* What is awaited from an assistant's message are results, and results only.
LEMMA AwaitedAreResults ==
    ASSUME NEW ms \in Seq(Messages), Paired(ms), NEW i \in 1..Len(ms), ms[i].role = "assistant",
           NEW q \in 1..Len(ms), i < q, q <= i + Len(ms[i].calls)
    PROVE  ms[q].role = "tool" /\ ms[q].of \in ToSet(ms[i].calls)
<1>1. i \in DOMAIN ms /\ i \in Nat /\ q \in Nat
  OBVIOUS
<1>2. PICK L \in Nat : L = Len(ms[i].calls)
  BY CallsOf
<1>3. /\ \A k \in 1..L : ms[i + k].role = "tool"
      /\ {ms[i + k].of : k \in 1..L} = ToSet(ms[i].calls)
  BY <1>1, <1>2 DEF Paired, ResultsFollow
<1>4. q - i \in 1..L /\ i + (q - i) = q
  BY <1>1, <1>2
<1>5. PICK k \in 1..L : i + k = q
  BY <1>4
<1>6. ms[i + k].of \in ToSet(ms[i].calls) /\ ms[i + k].role = "tool"
  BY <1>3
<1> QED
  BY <1>5, <1>6

\* Every result is awaited from one assistant's message.
LEMMA ResultHasItsCall ==
    ASSUME NEW ms \in Seq(Messages), Paired(ms), NEW q \in 1..Len(ms), ms[q].role = "tool"
    PROVE  \E i \in 1..Len(ms) : /\ i < q /\ ms[i].role = "assistant"
                                 /\ q <= i + Len(ms[i].calls)
                                 /\ ms[q].of \in ToSet(ms[i].calls)
<1>1. q \in DOMAIN ms /\ q \in Nat /\ Len(ms) \in Nat
  OBVIOUS
<1>2. PICK i \in 1..(q - 1) : ms[i].role = "assistant" /\ q <= i + Len(ms[i].calls)
  BY <1>1 DEF Paired
<1>3. i \in 1..Len(ms) /\ i < q
  BY <1>1
<1> QED
  BY <1>2, <1>3, AwaitedAreResults

\* No two results answer the same call.
LEMMA ResultsDiffer ==
    ASSUME NEW ms \in Seq(Messages), Paired(ms),
           NEW q \in 1..Len(ms), NEW r \in 1..Len(ms),
           ms[q].role = "tool", ms[r].role = "tool", ms[q].of = ms[r].of
    PROVE  q = r
<1>1. PICK i \in 1..Len(ms) : /\ i < q /\ ms[i].role = "assistant"
                              /\ q <= i + Len(ms[i].calls)
                              /\ ms[q].of \in ToSet(ms[i].calls)
  BY ResultHasItsCall
<1>2. PICK j \in 1..Len(ms) : /\ j < r /\ ms[j].role = "assistant"
                              /\ r <= j + Len(ms[j].calls)
                              /\ ms[r].of \in ToSet(ms[j].calls)
  BY ResultHasItsCall
<1>3. i \in DOMAIN ms /\ j \in DOMAIN ms /\ i \in Nat /\ q \in Nat /\ r \in Nat
  OBVIOUS
<1>4. i = j
  BY <1>1, <1>2, <1>3 DEF Paired
<1>5. PICK L \in Nat : L = Len(ms[i].calls)
  BY CallsOf
<1>6. PICK T : T = {ms[i + k].of : k \in 1..L}
  OBVIOUS
<1>7. T = ToSet(ms[i].calls) /\ Cardinality(T) = L
  BY <1>1, <1>3, <1>5, <1>6 DEF Paired, ResultsFollow
<1>8. PICK f : f = [k \in 1..L |-> ms[i + k].of]
  OBVIOUS
<1>9. \A k \in 1..L : f[k] = ms[i + k].of
  BY <1>8
<1>10. \A k, l \in 1..L : f[k] = f[l] => k = l
  <2>1. T = {f[k] : k \in 1..L}
    BY <1>6, <1>9
  <2>2. Cardinality(T) = L
    BY <1>7
  <2> QED
    BY <2>1, <2>2, DistinctByCounting
<1>11. PICK k \in 1..L : i + k = q
  <2>1. q - i \in 1..L /\ i + (q - i) = q
    BY <1>1, <1>3, <1>5
  <2> QED
    BY <2>1
<1>12. PICK l \in 1..L : i + l = r
  <2>1. r - i \in 1..L /\ i + (r - i) = r
    BY <1>2, <1>3, <1>4, <1>5
  <2> QED
    BY <2>1
<1>13. k = l
  BY <1>9, <1>10, <1>11, <1>12
<1> QED
  BY <1>11, <1>12, <1>13

\* The pass lets a result of a paired transcript pass: its call is pending.
LEMMA ScanGoesOverResult ==
    ASSUME NEW ms \in Seq(Messages), Paired(ms), NEW n \in 0..(Len(ms) - 1),
           NEW st \in ScanStates, ScanGoes(ms, n, st), ms[n + 1].role = "tool",
           NEW new, new = Scan(st, ms[n + 1])
    PROVE  ScanGoes(ms, n + 1, new)
<1> DEFINE x == n + 1
<1>1. /\ Len(ms) \in Nat /\ n \in Nat /\ x \in 1..Len(ms) /\ n < x
      /\ \A i \in 1..n : i \in 1..x /\ i \in 1..Len(ms)
  OBVIOUS
<1>2. \A i \in 1..x : i \in 1..n \/ i = x
  OBVIOUS
<1>3. \A q \in 1..Len(ms) : n < q <=> x < q \/ q = x
  BY <1>1
<1> HIDE DEF x
<1>4. ms[x] \in Messages /\ ms[x].role = "tool" /\ new = Scan(st, ms[x])
  BY <1>1, MessagesOf DEF x
<1>5. /\ new.ok <=> st.ok /\ ms[x].of \in st.pending /\ ms[x].of \notin st.completed
      /\ new.pending = st.pending \ {ms[x].of} /\ new.seen = st.seen
      /\ new.completed = st.completed \union {ms[x].of}
  BY <1>4, ScanOfResult
<1>6. x \in Awaited(ms, n)
  <2>1. PICK i \in 1..Len(ms) : i < x /\ ms[i].role = "assistant" /\ x <= i + Len(ms[i].calls)
    BY <1>1, <1>4, ResultHasItsCall
  <2>2. i \in 1..n
    BY <1>1, <2>1 DEF x
  <2> QED
    BY <1>1, <2>1, <2>2 DEF Awaited
<1>7. ms[x].of \notin st.completed
  <2> SUFFICES ASSUME ms[x].of \in st.completed PROVE FALSE
    OBVIOUS
  <2>1. PICK q \in 1..n : ms[q].role = "tool" /\ ms[q].of = ms[x].of
    BY DEF ScanGoes
  <2>2. q = x
    BY <1>1, <1>4, <2>1, ResultsDiffer
  <2> QED
    BY <1>1, <2>2
<1>8. Awaited(ms, x) = Awaited(ms, n) \ {x}
  <2>1. ASSUME NEW q \in Awaited(ms, x) PROVE q \in Awaited(ms, n) \ {x}
    <3>1. q \in 1..Len(ms) /\ x < q
      BY <2>1 DEF Awaited
    <3>2. PICK i \in 1..x : ms[i].role = "assistant" /\ q <= i + Len(ms[i].calls)
      BY <2>1 DEF Awaited
    <3>3. i \in 1..n /\ n < q /\ q # x
      BY <1>1, <1>2, <1>3, <1>4, <3>1, <3>2
    <3> QED
      BY <3>1, <3>2, <3>3 DEF Awaited
  <2>2. ASSUME NEW q \in Awaited(ms, n), q # x PROVE q \in Awaited(ms, x)
    BY <1>1, <1>3, <2>2 DEF Awaited
  <2> QED
    BY <2>1, <2>2
<1>9. \A q \in Awaited(ms, n) : ms[q].of = ms[x].of => q = x
  <2> SUFFICES ASSUME NEW q \in Awaited(ms, n), ms[q].of = ms[x].of PROVE q = x
    OBVIOUS
  <2>1. q \in 1..Len(ms) /\ n < q
    BY DEF Awaited
  <2>2. PICK i \in 1..n : ms[i].role = "assistant" /\ q <= i + Len(ms[i].calls)
    BY DEF Awaited
  <2>3. i \in 1..Len(ms) /\ i < q
    BY <1>1, <2>1
  <2>4. ms[q].role = "tool"
    BY <2>1, <2>2, <2>3, AwaitedAreResults
  <2> QED
    BY <1>1, <1>4, <2>1, <2>4, ResultsDiffer
<1>10. new.pending = {ms[q].of : q \in Awaited(ms, x)}
  BY <1>5, <1>8, <1>9 DEF ScanGoes
<1>11. new.ok
  BY <1>5, <1>6, <1>7 DEF ScanGoes
<1>12. \A id \in new.seen : \E i \in 1..x : id \in ToSet(ms[i].calls)
  BY <1>1, <1>5 DEF ScanGoes
<1>13. \A id \in new.completed : \E q \in 1..x : ms[q].role = "tool" /\ ms[q].of = id
  <2>1. x \in 1..x
    BY <1>1
  <2> QED
    BY <1>1, <1>4, <1>5, <2>1 DEF ScanGoes
<1> QED
  BY <1>10, <1>11, <1>12, <1>13 DEF ScanGoes, x

\* It lets any other message pass: nothing is pending.
LEMMA ScanGoesOverMessage ==
    ASSUME NEW ms \in Seq(Messages), Paired(ms), NEW n \in 0..(Len(ms) - 1),
           NEW st \in ScanStates, ScanGoes(ms, n, st), ms[n + 1].role # "tool",
           NEW new, new = Scan(st, ms[n + 1])
    PROVE  ScanGoes(ms, n + 1, new)
<1> DEFINE x == n + 1
           ids == ToSet(ms[x].calls)
<1>1. /\ Len(ms) \in Nat /\ n \in Nat /\ x \in 1..Len(ms) /\ x \in DOMAIN ms /\ x \in 1..x
      /\ \A i \in 1..n : i \in 1..x /\ i \in 1..Len(ms) /\ i \in DOMAIN ms /\ i < x /\ i # x
  OBVIOUS
<1>2. \A i \in 1..x : i \in 1..n \/ i = x
  OBVIOUS
<1>3. \A q \in 1..Len(ms) : n < q => x <= q
  BY <1>1
<1> HIDE DEF x, ids
<1>4. ms[x] \in Messages /\ ms[x].role # "tool" /\ new = Scan(st, ms[x])
  BY <1>1, MessagesOf DEF x
<1>5. \A i \in 1..n : ms[i].role = "assistant" => ~(x <= i + Len(ms[i].calls))
  BY <1>1, <1>4, AwaitedAreResults
<1>6. Awaited(ms, n) = {}
  <2> SUFFICES ASSUME NEW q \in Awaited(ms, n) PROVE FALSE
    OBVIOUS
  <2>1. q \in 1..Len(ms) /\ x <= q
    BY <1>3 DEF Awaited
  <2>2. PICK i \in 1..n : ms[i].role = "assistant" /\ q <= i + Len(ms[i].calls)
    BY DEF Awaited
  <2>3. PICK L \in Nat : L = Len(ms[i].calls)
    BY <1>1, CallsOf
  <2>4. x <= i + L
    BY <1>1, <2>1, <2>2, <2>3
  <2> QED
    BY <1>5, <2>2, <2>3, <2>4
<1>7. st.pending = {}
  BY <1>6 DEF ScanGoes
<1>8. ids \intersect st.seen = {}
  <2> SUFFICES ASSUME NEW id \in ids, id \in st.seen PROVE FALSE
    OBVIOUS
  <2>1. PICK i \in 1..n : id \in ToSet(ms[i].calls)
    BY DEF ScanGoes
  <2> QED
    BY <1>1, <2>1 DEF Paired, ids
<1>9. \A q \in Awaited(ms, x) : ms[x].role = "assistant" /\ q <= x + Len(ms[x].calls) /\ x < q
  <2> SUFFICES ASSUME NEW q \in Awaited(ms, x)
               PROVE  ms[x].role = "assistant" /\ q <= x + Len(ms[x].calls) /\ x < q
    OBVIOUS
  <2>1. q \in 1..Len(ms) /\ x < q
    BY DEF Awaited
  <2>2. PICK i \in 1..x : ms[i].role = "assistant" /\ q <= i + Len(ms[i].calls)
    BY DEF Awaited
  <2>3. i \notin 1..n
    <3> SUFFICES ASSUME i \in 1..n PROVE FALSE
      OBVIOUS
    <3>1. n < q
      BY <1>1, <2>1 DEF x
    <3> QED
      BY <1>6, <2>1, <2>2, <3>1 DEF Awaited
  <2> QED
    BY <1>2, <2>1, <2>2, <2>3
<1>10. CASE ms[x].role = "assistant"
  <2>1. PICK L \in Nat : L = Len(ms[x].calls)
    BY <1>1, CallsOf
  <2>2. /\ x + L <= Len(ms) /\ Cardinality(ids) = L
        /\ {ms[x + k].of : k \in 1..L} = ids
    BY <1>1, <1>10, <2>1 DEF Paired, ResultsFollow, ids
  <2>3. /\ new.ok <=> /\ st.ok /\ st.pending = {} /\ Cardinality(ids) = L
                      /\ ids \intersect st.seen = {}
        /\ new.pending = st.pending \union ids /\ new.seen = st.seen \union ids
        /\ new.completed = st.completed
    BY <1>4, <1>10, <2>1, ScanOfAssistant DEF ids
  <2>4. Awaited(ms, x) = {x + k : k \in 1..L}
    <3>1. ASSUME NEW q \in Awaited(ms, x) PROVE q \in {x + k : k \in 1..L}
      <4>1. q \in 1..Len(ms) /\ x < q /\ q <= x + L
        BY <1>9, <2>1 DEF Awaited
      <4>2. q - x \in 1..L /\ x + (q - x) = q
        BY <1>1, <4>1
      <4> QED
        BY <4>2
    <3>2. ASSUME NEW k \in 1..L PROVE x + k \in Awaited(ms, x)
      <4>1. x + k \in 1..Len(ms) /\ x < x + k /\ x + k <= x + L
        BY <1>1, <2>2
      <4> QED
        BY <1>1, <1>10, <2>1, <4>1 DEF Awaited
    <3> QED
      BY <3>1, <3>2
  <2>5. new.pending = {ms[q].of : q \in Awaited(ms, x)}
    BY <1>7, <2>2, <2>3, <2>4
  <2>6. new.ok
    BY <1>7, <1>8, <2>2, <2>3 DEF ScanGoes
  <2>7. \A id \in new.seen : \E i \in 1..x : id \in ToSet(ms[i].calls)
    BY <1>1, <2>3 DEF ScanGoes, ids
  <2>8. \A id \in new.completed : \E q \in 1..x : ms[q].role = "tool" /\ ms[q].of = id
    BY <1>1, <2>3 DEF ScanGoes
  <2> QED
    BY <2>5, <2>6, <2>7, <2>8 DEF ScanGoes, x
<1>11. CASE ms[x].role # "assistant"
  <2>1. /\ new.ok <=> st.ok /\ st.pending = {}
        /\ new.pending = st.pending /\ new.seen = st.seen /\ new.completed = st.completed
    BY <1>4, <1>11, ScanOfOther
  <2>2. Awaited(ms, x) = {}
    BY <1>9, <1>11
  <2>3. new.ok /\ new.pending = {ms[q].of : q \in Awaited(ms, x)}
    BY <1>7, <2>1, <2>2 DEF ScanGoes
  <2>4. \A id \in new.seen : \E i \in 1..x : id \in ToSet(ms[i].calls)
    BY <1>1, <2>1 DEF ScanGoes
  <2>5. \A id \in new.completed : \E q \in 1..x : ms[q].role = "tool" /\ ms[q].of = id
    BY <1>1, <2>1 DEF ScanGoes
  <2> QED
    BY <2>3, <2>4, <2>5 DEF ScanGoes, x
<1> QED
  BY <1>10, <1>11

LEMMA ScanGoesOn ==
    ASSUME NEW ms \in Seq(Messages), Paired(ms), NEW n \in 0..Len(ms)
    PROVE  ScanGoes(ms, n, Scans(ms)[n])
<1> DEFINE T == {k \in 0..Len(ms) : ~ScanGoes(ms, k, Scans(ms)[k])}
<1>1. Len(ms) \in Nat /\ T \subseteq Nat
  OBVIOUS
<1> SUFFICES ASSUME T # {} PROVE FALSE
  OBVIOUS
<1>2. PICK x \in T : \A y \in T : x <= y
  BY <1>1, LeastNumber
<1>3. x \in Nat /\ x \in 0..Len(ms) /\ ~ScanGoes(ms, x, Scans(ms)[x])
  BY <1>1
<1>4. IsScan(ms, Len(ms), Scans(ms))
  BY ScansIsScan
<1>5. x # 0
  <2>1. /\ Scans(ms)[0].ok /\ Scans(ms)[0].pending = {}
        /\ Scans(ms)[0].seen = {} /\ Scans(ms)[0].completed = {}
    BY <1>4 DEF IsScan, Unscanned
  <2>2. Awaited(ms, 0) = {}
    BY DEF Awaited
  <2>3. ScanGoes(ms, 0, Scans(ms)[0])
    BY <2>1, <2>2 DEF ScanGoes
  <2> QED
    BY <1>3, <2>3
<1>6. PICK n1 \in 0..(Len(ms) - 1) : n1 + 1 = x
  <2>1. x - 1 \in 0..(Len(ms) - 1) /\ (x - 1) + 1 = x
    BY <1>1, <1>3, <1>5
  <2> QED
    BY <2>1
<1>7. n1 \in 0..Len(ms) /\ ~(x <= n1) /\ x \in 1..Len(ms) /\ x - 1 = n1
  BY <1>1, <1>3, <1>6
<1>8. PICK st : st = Scans(ms)[n1]
  OBVIOUS
<1>9. ScanGoes(ms, n1, st)
  BY <1>2, <1>7, <1>8
<1> HIDE DEF T
<1>10. st \in ScanStates /\ Scans(ms)[x] = Scan(st, ms[n1 + 1])
  BY <1>4, <1>6, <1>7, <1>8 DEF IsScan
<1>11. ScanGoes(ms, n1 + 1, Scans(ms)[x])
  BY <1>9, <1>10, ScanGoesOverResult, ScanGoesOverMessage
<1> QED
  BY <1>3, <1>6, <1>11

\* The check before every request is complete, too: what the providers demand is all that
\* validateTranscriptPairing demands, so it refuses no transcript that they would take.
THEOREM PairedTranscriptsAreValid ==
    ASSUME NEW ms \in Seq(Messages), Paired(ms)
    PROVE  ValidPairing(ms)
<1>1. PICK n \in Nat : n = Len(ms) /\ n \in 0..Len(ms)
  <2>1. Len(ms) \in Nat /\ Len(ms) \in 0..Len(ms)
    OBVIOUS
  <2> QED
    BY <2>1
<1>2. PICK st : st = Scans(ms)[n]
  OBVIOUS
<1>3. ScanGoes(ms, n, st)
  BY <1>1, <1>2, ScanGoesOn
<1>4. Awaited(ms, n) = {}
  BY <1>1 DEF Awaited
<1>5. st.ok /\ st.pending = {}
  BY <1>3, <1>4 DEF ScanGoes
<1> QED
  BY <1>1, <1>2, <1>5 DEF ValidPairing, Scanned

-----------------------------------------------------------------------------
\* What is being sent has been checked.
SentIsPaired == phase = "model" => Paired(messages)

LEMMA SentIsPairedKept ==
    ASSUME TurnInv, TurnInv', SentIsPaired, [AgentNext]_agentVars
    PROVE  SentIsPaired'
<1> SUFFICES ASSUME phase' = "model" PROVE Paired(messages)'
  BY DEF SentIsPaired
<1>1. CASE phase = "model" /\ UNCHANGED messages
  <2>1. Paired(messages)
    BY <1>1 DEF SentIsPaired
  <2> QED
    BY <1>1, <2>1
<1>2. CASE BeginRound
  <2>1. PICK ms \in {messages, Compacted(messages)} :
           IF ValidPairing(ms) THEN phase' = "model" /\ messages' = ms ELSE Return(ms)
    BY <1>2 DEF BeginRound
  <2>2. ~Return(ms)
    BY DEF Return
  <2>3. ms \in Seq(Messages)
    BY <2>1, CompactedIsWhole DEF TurnInv, Typed
  <2>4. Paired(ms) /\ messages' = ms
    BY <2>1, <2>2, <2>3, ValidTranscriptsArePaired
  <2> QED
    BY <2>4
<1>3. UNCHANGED <<phase, messages>> \/ BeginRound
  <2>1. ASSUME NEW ms PROVE ~Return(ms)
    BY DEF Return
  <2>2. /\ ~(BeginTurn \/ RoundsExceeded \/ ModelFails)
        /\ ~(FinalAnswer \/ ModelCallsTools \/ FinishTools)
    BY <2>1 DEF BeginTurn, RoundsExceeded, ModelFails, FinalAnswer, ModelCallsTools, FinishTools
  <2>3. Cancel \/ StartStep \/ Collect => UNCHANGED <<phase, messages>>
    BY DEF Cancel, StartStep, Collect, Frame
  <2>4. ASSUME NEW i \in DOMAIN calls, TakeJob(i) \/ Acquire(i) \/ AbortWaiting(i) \/ Execute(i)
        PROVE  UNCHANGED <<phase, messages>>
    BY <2>4 DEF TakeJob, Acquire, AbortWaiting, Execute, Sent, Frame
  <2> QED
    BY <2>2, <2>3, <2>4 DEF AgentNext, ToolStep, agentVars
<1> QED
  BY <1>1, <1>2, <1>3

\* TranscriptPaired, for any number of calls, turns and rounds: what is sent to the model
\* is paired, and so is the transcript between rounds and turns, through compaction,
\* cancellation and failures, unless a model used a call id twice; until then the check
\* lets every request of the session pass, compacted or not (RunMessages,
\* compactMessages, validateTranscriptPairing).
THEOREM AgentTranscriptPaired == AgentSpec => []TranscriptPaired
<1>1. AgentInit => SentIsPaired
  BY DEF AgentInit, SentIsPaired
<1>2. TurnInv /\ TurnInv' /\ SentIsPaired /\ [AgentNext]_agentVars => SentIsPaired'
  BY SentIsPairedKept
<1>3. TurnInv /\ SentIsPaired => TranscriptPaired
  <2> SUFFICES ASSUME TurnInv, phase \in {"idle", "round"}, ~reused
               PROVE  /\ Paired(messages)
                      /\ \A ms \in {messages, Compacted(messages)} : ValidPairing(ms)
    BY DEF SentIsPaired, TranscriptPaired
  <2>1. messages \in Seq(Messages) /\ Whole(messages)
    BY OrderlyIsWhole DEF TurnInv, Typed
  <2>2. Compacted(messages) \in Seq(Messages) /\ Whole(Compacted(messages))
    BY <2>1, CompactedIsWhole
  <2>3. Paired(messages) /\ Paired(Compacted(messages))
    BY <2>1, <2>2, WholeIsPaired
  <2> QED
    BY <2>1, <2>2, <2>3, PairedTranscriptsAreValid
<1> QED
  BY <1>1, <1>2, <1>3, TurnInvHolds, PTL DEF AgentSpec
=============================================================================
