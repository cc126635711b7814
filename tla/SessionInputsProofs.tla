------------------------- MODULE SessionInputsProofs --------------------------
(***************************************************************************)
(* Proofs about the input ledger, for any requests, input ids and bounds.  *)
(***************************************************************************)
EXTENDS SessionInputs, SequenceTheorems, TLAPS

LEMMA NoTurns == <<>> \in Seq(Turns) /\ <<>> \in Seq(Bodies)
OBVIOUS

-----------------------------------------------------------------------------
(* What an append and a completion do to the ledger.                       *)
LEMMA Appended ==
    ASSUME TypeOK, NEW i \in Inputs, NEW record \in Records, NEW how, AppendRecord(i, record, how)
    PROVE  /\ ledger' \in [Inputs -> Records] /\ corrupt' \in BOOLEAN /\ faults' \in Nat
           /\ \A j \in Inputs : j # i => ledger'[j] = ledger[j]
           /\ ledger'[i] \in {ledger[i], record}
           /\ how = "ok" => ledger'[i] = record
BY AppendsAssumption DEF TypeOK, AppendRecord

Closed(record, n, status) ==
    [record EXCEPT !.state = "completed", !.status = status,
                   !.runSeq = IF n > 0 THEN n ELSE @]

LEMMA Completed ==
    ASSUME TypeOK, NEW i \in Inputs, NEW n \in Nat, NEW status \in Statuses,
           CompleteRecord(i, n, status)
    PROVE  /\ ledger' \in [Inputs -> Records] /\ corrupt' \in BOOLEAN /\ faults' \in Nat
           /\ \A j \in Inputs : j # i => ledger'[j] = ledger[j]
           /\ ledger'[i] = ledger[i]
              \/ (ledger[i].state \notin {"none", "completed"}
                  /\ ledger'[i] = Closed(ledger[i], n, status))
<1>1. Closed(ledger[i], n, status) \in Records
  <2>1. ledger[i] \in Records
    BY DEF TypeOK
  <2>2. (IF n > 0 THEN n ELSE ledger[i].runSeq) \in Nat
    BY <2>1 DEF Records
  <2> QED
    BY <2>1, <2>2 DEF Records, Closed
<1>2. CASE Completable(i)
  <2>1. PICK how \in Appends : AppendRecord(i, Closed(ledger[i], n, status), how)
    BY <1>2 DEF CompleteRecord, Closed
  <2> QED
    BY <1>1, <1>2, <2>1, Appended DEF Completable
<1>3. CASE ~Completable(i)
  BY <1>3 DEF CompleteRecord, disk, TypeOK
<1> QED
  BY <1>2, <1>3

-----------------------------------------------------------------------------
LEMMA TypeStep == TypeOK /\ [Next]_vars => TypeOK'
<1> SUFFICES ASSUME TypeOK, [Next]_vars PROVE TypeOK'
  OBVIOUS
<1>1. ASSUME NEW r \in Requests, Admit(r) PROVE TypeOK'
  <2>1. ledger' \in [Inputs -> Records] /\ corrupt' \in BOOLEAN /\ faults' \in Nat
    <3>1. CASE UNCHANGED disk
      BY <3>1 DEF disk, TypeOK
    <3>2. ASSUME NEW how \in Appends,
                 AppendRecord(inp[r], [Unknown EXCEPT !.state = "admitted", !.body = body[r]], how)
          PROVE  ledger' \in [Inputs -> Records] /\ corrupt' \in BOOLEAN /\ faults' \in Nat
      <4>1. inp[r] \in Inputs /\ body[r] \in Bodies
        BY <1>1 DEF TypeOK
      <4>2. [Unknown EXCEPT !.state = "admitted", !.body = body[r]] \in Records
        BY <4>1 DEF Unknown, Records, Statuses
      <4> QED
        BY <3>2, <4>1, <4>2, Appended
    <3> QED
      BY <1>1, <3>1, <3>2 DEF Admit
  <2>2. pc' \in [Requests -> {"new", "admitted", "ready", "promoted", "running", "saving",
                              "completing", "done"}]
    BY <1>1 DEF Admit, Goto, TypeOK
  <2> QED
    BY <1>1, <2>1, <2>2 DEF Admit, TypeOK, slotvars, history
<1>2. ASSUME NEW r \in Requests, Preflight(r) PROVE TypeOK'
  BY <1>2 DEF Preflight, Goto, TypeOK, disk, slotvars, history, Statuses
<1>3. ASSUME NEW r \in Requests, Promote(r) PROVE TypeOK'
  <2>1. /\ ledger' \in [Inputs -> Records] /\ corrupt' \in BOOLEAN /\ faults' \in Nat
        /\ seq' \in [Requests -> Nat]
    <3>1. CASE UNCHANGED <<disk, seq>>
      BY <3>1 DEF disk, TypeOK
    <3>2. ASSUME NEW n \in NextRunSeqs, NEW how \in Appends,
                 AppendRecord(inp[r], [ledger[inp[r]] EXCEPT !.state = "promoted", !.runSeq = n], how),
                 seq' = [seq EXCEPT ![r] = n] \/ UNCHANGED seq
          PROVE  /\ ledger' \in [Inputs -> Records] /\ corrupt' \in BOOLEAN /\ faults' \in Nat
                 /\ seq' \in [Requests -> Nat]
      <4>1. inp[r] \in Inputs /\ ledger[inp[r]] \in Records
        BY <1>3 DEF TypeOK
      <4>2. n \in Nat
        <5>1. PICK m \in GivenOut : n = m + 1
          BY <3>2 DEF NextRunSeqs
        <5>2. \A i \in Inputs : ledger[i].runSeq \in Nat
          BY DEF TypeOK, Records
        <5>3. m \in Nat
          BY <5>1, <5>2 DEF GivenOut, TypeOK
        <5> QED
          BY <5>1, <5>3
      <4>3. [ledger[inp[r]] EXCEPT !.state = "promoted", !.runSeq = n] \in Records
        BY <4>1, <4>2 DEF Records
      <4>4. /\ ledger' \in [Inputs -> Records] /\ corrupt' \in BOOLEAN /\ faults' \in Nat
        BY <3>2, <4>1, <4>3, Appended
      <4>5. seq' \in [Requests -> Nat]
        BY <3>2, <4>2 DEF TypeOK
      <4> QED
        BY <4>4, <4>5
    <3> QED
      BY <1>3, <3>1, <3>2 DEF Promote
  <2>2. /\ pc' \in [Requests -> {"new", "admitted", "ready", "promoted", "running", "saving",
                                 "completing", "done"}]
        /\ result' \in [Requests -> Statuses]
    BY <1>3 DEF Promote, Goto, TypeOK, Statuses
  <2> QED
    BY <1>3, <2>1, <2>2 DEF Promote, TypeOK, slotvars, history
<1>4. ASSUME NEW r \in Requests, Begin(r) PROVE TypeOK'
  <2>1. begun' \in [Inputs -> Seq(Bodies)]
    <3>1. begun[inp[r]] \o <<body[r]>> \in Seq(Bodies)
      BY <1>4 DEF TypeOK
    <3> QED
      BY <1>4, <3>1 DEF Begin, TypeOK
  <2> QED
    BY <1>4, <2>1 DEF Begin, Slot!Begin, Goto, TypeOK, disk
<1>5. ASSUME NEW r \in Requests, Busy(r) PROVE TypeOK'
  BY <1>5 DEF Busy, Slot!Refuse, Goto, TypeOK, disk, history, Statuses
<1>6. ASSUME NEW r \in Requests, RunEnds(r) PROVE TypeOK'
  <2>1. transcript' \in Seq(Turns)
    <3>1. Slot!Prompt(r) \in Turns /\ Slot!Answer(r) \in Turns /\ transcript \in Seq(Turns)
      BY <1>6 DEF Slot!Prompt, Slot!Answer, Turns, TypeOK
    <3>2. transcript' \in Slot!Outcomes(r)
      BY <1>6 DEF RunEnds, Slot!End
    <3>3. /\ transcript \o <<Slot!Prompt(r)>> \in Seq(Turns)
          /\ transcript \o <<Slot!Prompt(r)>> \o <<Slot!Answer(r)>> \in Seq(Turns)
      BY <3>1
    <3> QED
      BY <3>1, <3>2, <3>3 DEF Slot!Outcomes
  <2>2. late' \subseteq Requests /\ result' \in [Requests -> Statuses]
    BY <1>6 DEF RunEnds, TypeOK, Statuses
  <2> QED
    BY <1>6, <2>1, <2>2 DEF RunEnds, Slot!End, Goto, TypeOK, disk
<1>7. ASSUME NEW r \in Requests, Save(r) PROVE TypeOK'
  <2>1. faults' \in Nat /\ saved' \in Seq(Turns) /\ result' \in [Requests -> Statuses]
    <3>1. saved' \in {saved, transcript} /\ faults' \in {faults, faults + 1}
          /\ result' \in {result, [result EXCEPT ![r] = "failed"]}
      BY <1>7 DEF Save
    <3>2. faults \in Nat /\ saved \in Seq(Turns) /\ transcript \in Seq(Turns)
          /\ result \in [Requests -> Statuses] /\ "failed" \in Statuses
      BY DEF TypeOK, Statuses
    <3> QED
      BY <3>1, <3>2
  <2> QED
    BY <1>7, <2>1 DEF Save, Goto, TypeOK, slotvars, history
<1>8. ASSUME NEW r \in Requests, Complete(r) PROVE TypeOK'
  <2>1. ledger' \in [Inputs -> Records] /\ corrupt' \in BOOLEAN /\ faults' \in Nat
    <3>1. inp[r] \in Inputs /\ seq[r] \in Nat /\ result[r] \in Statuses
      BY <1>8 DEF TypeOK
    <3> QED
      BY <1>8, <3>1, Completed DEF Complete
  <2> QED
    BY <1>8, <2>1 DEF Complete, Goto, TypeOK, slotvars, history
<1>9. ASSUME NEW i \in Inputs, Close(i) PROVE TypeOK'
  <2>1. ledger' \in [Inputs -> Records] /\ corrupt' \in BOOLEAN /\ faults' \in Nat
    BY <1>9, Completed DEF Close, ClientStatuses, Statuses
  <2>2. claimed' \subseteq Inputs
    BY <1>9 DEF Close, TypeOK
  <2> QED
    BY <1>9, <2>1, <2>2 DEF Close, TypeOK, slotvars, reqvars
<1>10. CASE Crash
  <2>1. ledger' \in [Inputs -> Records]
    <3>1. Unknown \in Records
      BY DEF Unknown, Records, Statuses
    <3>2. ASSUME NEW i \in Inputs PROVE Marked(ledger[i]) \in Records
      <4>1. ledger[i] \in Records
        BY DEF TypeOK
      <4> QED
        BY <4>1 DEF Marked, Records, Statuses
    <3> QED
      BY <1>10, <3>1, <3>2 DEF Crash
  <2>2. pc' \in [Requests -> {"new", "admitted", "ready", "promoted", "running", "saving",
                              "completing", "done"}]
    BY <1>10 DEF Crash, TypeOK
  <2>3. holder' = Nil /\ over' \subseteq Requests /\ transcript' = saved /\ crashes' \in Nat
        /\ corrupt' = FALSE /\ forgotten' \in BOOLEAN /\ claimed' \subseteq Inputs
    <3>1. over \subseteq Requests /\ crashes \in Nat /\ forgotten \in BOOLEAN
      BY DEF TypeOK
    <3>2. over' = over \union InFlight /\ InFlight \subseteq Requests
      BY <1>10 DEF Crash, InFlight
    <3>3. holder' = Nil /\ transcript' = saved /\ corrupt' = FALSE /\ crashes' = crashes + 1
      BY <1>10 DEF Crash
    <3>4. forgotten' \in BOOLEAN
      BY <1>10, <3>1, Zenon DEF Crash
    <3>5. crashes' \in Nat
      BY <3>1, <3>3
    <3>6. claimed' \subseteq Inputs
      BY <1>10 DEF Crash, TypeOK
    <3> QED
      BY <3>1, <3>2, <3>3, <3>4, <3>5, <3>6
  <2> QED
    BY <1>10, <2>1, <2>2, <2>3 DEF Crash, TypeOK
<1>11. CASE UNCHANGED vars
  BY <1>11 DEF vars, disk, slotvars, reqvars, history, TypeOK
<1> QED
  BY <1>1, <1>2, <1>3, <1>4, <1>5, <1>6, <1>7, <1>8, <1>9, <1>10, <1>11
  DEF Next, RequestStep, Terminated

LEMMA TypeInit == Init => TypeOK
<1> SUFFICES ASSUME Init PROVE TypeOK
  OBVIOUS
<1>1. ledger \in [Inputs -> Records]
  BY DEF Init, Unknown, Records, Statuses
<1>2. holder = Nil /\ transcript = <<>> /\ over = {} /\ saved = <<>>
  BY DEF Init, Slot!Init
<1>3. begun \in [Inputs -> Seq(Bodies)]
  BY NoTurns DEF Init
<1> QED
  BY <1>1, <1>2, <1>3, NoTurns DEF Init, TypeOK, Statuses

\* Every variable keeps its type, the records that a restart replays from
\* inputs.jsonl included.
THEOREM TypeCorrect == Spec => []TypeOK
BY TypeInit, TypeStep, PTL DEF Spec

-----------------------------------------------------------------------------
(* The records.  No step but a crash takes a record back: what was         *)
(* admitted stays, with its body, what was promoted is never admitted      *)
(* again, and a run number stays what it is.  A request that has admitted  *)
(* its input, or found it admitted, finds its own body there.              *)
Past == {"promoted", "ambiguous", "completed"}
Going == {"admitted", "ready", "promoted", "running", "saving", "completing"}

Keeps(old, new) ==
    /\ old.state # "none" => new.state # "none" /\ new.body = old.body
    /\ old.state \in Past => new.state \in Past /\ new.runSeq = old.runSeq

Numbered(r) == ledger[inp[r]].state \in Past /\ ledger[inp[r]].runSeq = seq[r]

RequestOK(r) ==
    /\ pc[r] \in Going => ledger[inp[r]].state # "none" /\ ledger[inp[r]].body = body[r]
    /\ pc[r] = "promoted" => seq[r] > 0
    /\ pc[r] # "done" /\ seq[r] > 0 => Numbered(r) /\ pc[r] \in Going
    /\ pc[r] = "promoted" /\ ~forgotten => begun[inp[r]] = <<>>

OneEach ==
    \A q, r \in Requests : pc[q] = "promoted" /\ pc[r] = "promoted" /\ inp[q] = inp[r] => q = r

BegunOK ==
    ~forgotten => \A i \in Inputs : begun[i] # <<>> =>
        ledger[i].state \in Past /\ begun[i] = <<ledger[i].body>>

UnbegunOK == \A i \in Inputs : ledger[i].state \in {"none", "admitted"} => ledger[i].runSeq = 0

LedgerInv ==
    /\ TypeOK /\ (\A r \in Requests : RequestOK(r)) /\ OneEach /\ BegunOK
    /\ UnbegunOK /\ RunNumbersUnique

\* What each step makes of the records.
AdmitsOnly(r) ==
    \A j \in Inputs : ledger'[j] = ledger[j]
        \/ (j = inp[r] /\ ledger[j].state = "none"
            /\ ledger'[j] = [Unknown EXCEPT !.state = "admitted", !.body = body[r]])

LEMMA AdmitRecords ==
    ASSUME LedgerInv, NEW r \in Requests, Admit(r)
    PROVE  /\ AdmitsOnly(r)
           /\ pc'[r] = "done" \/ (pc'[r] = "admitted" /\ ledger'[inp[r]].state # "none"
                                  /\ ledger'[inp[r]].body = body[r])
<1>0. TypeOK /\ inp[r] \in Inputs /\ body[r] \in Bodies
  BY DEF LedgerInv, TypeOK
<1> DEFINE new == [Unknown EXCEPT !.state = "admitted", !.body = body[r]]
<1>1. new \in Records /\ new.state = "admitted" /\ new.body = body[r]
  BY <1>0 DEF Unknown, Records, Statuses
<1>2. ASSUME ledger[inp[r]].state = "none", NEW how \in Appends, AppendRecord(inp[r], new, how),
             NEW label \in (IF how = "ok" THEN {"done", "admitted"} ELSE {"done"}), Goto(r, label)
      PROVE  /\ AdmitsOnly(r)
             /\ pc'[r] = "done" \/ (pc'[r] = "admitted" /\ ledger'[inp[r]] = new)
  <2>1. pc'[r] = label
    BY <1>0, <1>2 DEF Goto, TypeOK
  <2> HIDE DEF new
  <2>2. AdmitsOnly(r)
    BY <1>0, <1>1, <1>2, Appended DEF AdmitsOnly, new
  <2>3. how = "ok" => ledger'[inp[r]] = new
    BY <1>0, <1>1, <1>2, Appended
  <2> QED
    BY <1>2, <2>1, <2>2, <2>3
<1>3. ASSUME UNCHANGED disk,
             NEW label \in (IF ~corrupt /\ ledger[inp[r]].state = "admitted" /\ SameBody(r)
                            THEN {"done", "admitted"} ELSE {"done"}),
             Goto(r, label)
      PROVE  /\ AdmitsOnly(r)
             /\ pc'[r] = "done" \/ (pc'[r] = "admitted" /\ ledger'[inp[r]].state # "none"
                                    /\ ledger'[inp[r]].body = body[r])
  <2>1. pc'[r] = label
    BY <1>0, <1>3 DEF Goto, TypeOK
  <2> QED
    BY <1>3, <2>1 DEF AdmitsOnly, disk, SameBody
<1>4. \/ /\ ledger[inp[r]].state = "none"
         /\ \E how \in Appends : AppendRecord(inp[r], new, how)
              /\ \E label \in (IF how = "ok" THEN {"done", "admitted"} ELSE {"done"}) : Goto(r, label)
      \/ /\ UNCHANGED disk
         /\ \E label \in (IF ~corrupt /\ ledger[inp[r]].state = "admitted" /\ SameBody(r)
                          THEN {"done", "admitted"} ELSE {"done"}) : Goto(r, label)
  BY DEF Admit
<1> QED
  BY <1>1, <1>2, <1>3, <1>4

PromotesOnly(r) ==
    \A j \in Inputs : ledger'[j] = ledger[j]
        \/ (j = inp[r] /\ ledger[j].state = "admitted"
            /\ \E n \in NextRunSeqs :
                 ledger'[j] = [ledger[j] EXCEPT !.state = "promoted", !.runSeq = n])

LEMMA PromoteRecords ==
    ASSUME LedgerInv, NEW r \in Requests, Promote(r)
    PROVE  /\ PromotesOnly(r)
           /\ \/ pc'[r] = "completing" /\ seq' = seq
              \/ /\ pc'[r] = "promoted" /\ seq'[r] > 0 /\ ledger[inp[r]].state = "admitted"
                 /\ ledger'[inp[r]] = [ledger[inp[r]] EXCEPT !.state = "promoted", !.runSeq = seq'[r]]
<1>0. TypeOK /\ inp[r] \in Inputs /\ ledger[inp[r]] \in Records
  BY DEF LedgerInv, TypeOK
<1> DEFINE new(n) == [ledger[inp[r]] EXCEPT !.state = "promoted", !.runSeq = n]
<1>1. CASE Promotable(inp[r])
  <2>1. PICK n \in NextRunSeqs, how \in Appends :
           /\ AppendRecord(inp[r], new(n), how)
           /\ IF how = "ok" THEN Goto(r, "promoted") /\ seq' = [seq EXCEPT ![r] = n]
              ELSE Goto(r, "completing") /\ seq' = seq
    BY <1>1 DEF Promote
  <2>2. n \in Nat /\ n > 0
    BY <1>0 DEF NextRunSeqs, GivenOut, TypeOK, Records
  <2>3. new(n) \in Records /\ ledger[inp[r]].state = "admitted"
    BY <1>0, <1>1, <2>2 DEF Records, Promotable
  <2>4. PromotesOnly(r) /\ (how = "ok" => ledger'[inp[r]] = new(n))
    <3> HIDE DEF new
    <3>1. /\ \A j \in Inputs : j # inp[r] => ledger'[j] = ledger[j]
          /\ ledger'[inp[r]] \in {ledger[inp[r]], new(n)}
          /\ how = "ok" => ledger'[inp[r]] = new(n)
      BY <1>0, <2>1, <2>3, Appended
    <3>2. \A j \in Inputs : ledger'[j] = ledger[j] \/ (j = inp[r] /\ ledger'[j] = new(n))
      BY <3>1
    <3> QED
      BY <2>1, <2>3, <3>1, <3>2 DEF PromotesOnly, new
  <2>5. IF how = "ok" THEN pc'[r] = "promoted" /\ seq'[r] = n
        ELSE pc'[r] = "completing" /\ seq' = seq
    BY <1>0, <2>1 DEF Goto, TypeOK
  <2> QED
    BY <2>2, <2>3, <2>4, <2>5
<1>2. CASE ~Promotable(inp[r])
  BY <1>0, <1>2 DEF Promote, PromotesOnly, disk, Goto, TypeOK
<1> QED
  BY <1>1, <1>2

ClosesOnly ==
    \A j \in Inputs : ledger'[j] = ledger[j]
        \/ (ledger[j].state # "none"
            /\ ledger'[j].state = "completed" /\ ledger'[j].body = ledger[j].body
            /\ ledger'[j].runSeq = ledger[j].runSeq)

LEMMA CloseRecords ==
    ASSUME LedgerInv, (\E r \in Requests : Complete(r)) \/ (\E i \in Inputs : Close(i))
    PROVE  ClosesOnly
<1>0. TypeOK
  BY DEF LedgerInv
<1>1. ASSUME NEW r \in Requests, Complete(r) PROVE ClosesOnly
  <2>1. inp[r] \in Inputs /\ seq[r] \in Nat /\ result[r] \in Statuses /\ ledger[inp[r]] \in Records
    BY <1>0 DEF TypeOK
  <2>2. seq[r] > 0 => ledger[inp[r]].runSeq = seq[r]
    BY <1>1 DEF LedgerInv, RequestOK, Numbered, Complete
  <2>3. /\ \A j \in Inputs : j # inp[r] => ledger'[j] = ledger[j]
        /\ ledger'[inp[r]] = ledger[inp[r]]
           \/ (ledger[inp[r]].state \notin {"none", "completed"}
               /\ ledger'[inp[r]] = Closed(ledger[inp[r]], seq[r], result[r]))
    BY <1>0, <1>1, <2>1, Completed DEF Complete
  <2>4. LET c == Closed(ledger[inp[r]], seq[r], result[r])
        IN  c.state = "completed" /\ c.body = ledger[inp[r]].body
            /\ c.runSeq = ledger[inp[r]].runSeq
    BY <2>1, <2>2 DEF Closed, Records
  <2> QED
    BY <2>3, <2>4 DEF ClosesOnly
<1>2. ASSUME NEW i \in Inputs, Close(i) PROVE ClosesOnly
  <2> PICK status \in ClientStatuses : CompleteRecord(i, 0, status)
    BY <1>2 DEF Close
  <2>1. ledger[i] \in Records /\ status \in Statuses
    BY <1>0 DEF TypeOK, ClientStatuses, Statuses
  <2>2. /\ \A j \in Inputs : j # i => ledger'[j] = ledger[j]
        /\ ledger'[i] = ledger[i]
           \/ (ledger[i].state \notin {"none", "completed"}
               /\ ledger'[i] = Closed(ledger[i], 0, status))
    BY <1>0, <2>1, Completed
  <2>3. LET c == Closed(ledger[i], 0, status)
        IN  c.state = "completed" /\ c.body = ledger[i].body /\ c.runSeq = ledger[i].runSeq
    BY <2>1 DEF Closed, Records
  <2> QED
    BY <2>2, <2>3 DEF ClosesOnly
<1> QED
  BY <1>1, <1>2

\* What every step but a crash and the end of an admission's own life leaves true.
KeepsAll == \A j \in Inputs : Keeps(ledger[j], ledger'[j])
RecordsOK == UnbegunOK /\ RunNumbersUnique

LEMMA SameRecords == ASSUME LedgerInv, UNCHANGED ledger PROVE KeepsAll /\ RecordsOK'
BY DEF LedgerInv, KeepsAll, Keeps, RecordsOK, UnbegunOK, RunNumbersUnique

LEMMA AdmitKeeps ==
    ASSUME LedgerInv, NEW r \in Requests, AdmitsOnly(r)
    PROVE  KeepsAll /\ RecordsOK'
<1> DEFINE new == [Unknown EXCEPT !.state = "admitted", !.body = body[r]]
<1>1. new.state = "admitted" /\ new.runSeq = 0
  BY DEF Unknown
<1> HIDE DEF new
<1>2. \A j \in Inputs : ledger'[j] = ledger[j]
          \/ (j = inp[r] /\ ledger[j].state = "none" /\ ledger'[j] = new)
  BY DEF AdmitsOnly, new
<1>3. KeepsAll
  BY <1>1, <1>2 DEF KeepsAll, Keeps, Past
<1>4. \A j \in Inputs : ledger'[j].runSeq = ledger[j].runSeq
  BY <1>1, <1>2 DEF LedgerInv, UnbegunOK
<1>5. RunNumbersUnique'
  BY <1>4 DEF LedgerInv, RunNumbersUnique
<1>6. UnbegunOK'
  BY <1>1, <1>2 DEF LedgerInv, UnbegunOK
<1> QED
  BY <1>3, <1>5, <1>6 DEF RecordsOK

LEMMA PromoteKeeps ==
    ASSUME LedgerInv, NEW r \in Requests, PromotesOnly(r)
    PROVE  KeepsAll /\ RecordsOK'
<1>0. TypeOK /\ inp[r] \in Inputs /\ ledger[inp[r]] \in Records
  BY DEF LedgerInv, TypeOK
<1>1. CASE UNCHANGED ledger
  BY <1>1, SameRecords
<1>2. CASE \A j \in Inputs : ledger'[j] = ledger[j]
  BY <1>2 DEF LedgerInv, KeepsAll, Keeps, RecordsOK, UnbegunOK, RunNumbersUnique
<1>3. ASSUME NEW n \in NextRunSeqs, ledger[inp[r]].state = "admitted",
             ledger'[inp[r]] = [ledger[inp[r]] EXCEPT !.state = "promoted", !.runSeq = n],
             \A j \in Inputs : j # inp[r] => ledger'[j] = ledger[j]
      PROVE  KeepsAll /\ RecordsOK'
  <2>1. /\ ledger'[inp[r]].state = "promoted" /\ ledger'[inp[r]].runSeq = n
        /\ ledger'[inp[r]].body = ledger[inp[r]].body
    BY <1>0, <1>3 DEF Records
  <2>2. KeepsAll
    BY <1>3, <2>1 DEF KeepsAll, Keeps, Past
  <2>3. UnbegunOK'
    BY <1>3, <2>1 DEF LedgerInv, UnbegunOK
  <2>4. \A j \in Inputs : ledger[j].runSeq # n
    <3>1. \A j \in Inputs : ledger[j].runSeq \in GivenOut /\ ledger[j].runSeq \in Nat
      BY <1>0 DEF GivenOut, TypeOK, Records
    <3>2. n \in Nat /\ \A m \in GivenOut : m < n
      BY <1>0, <1>3, SMTT(30) DEF NextRunSeqs, GivenOut, TypeOK, Records
    <3> QED
      BY <3>1, <3>2
  <2>5. RunNumbersUnique'
    <3> SUFFICES ASSUME NEW i \in Inputs, NEW j \in Inputs, i # j, ledger'[i].runSeq > 0
                 PROVE  ledger'[i].runSeq # ledger'[j].runSeq
      BY DEF RunNumbersUnique
    <3>1. CASE i # inp[r] /\ j # inp[r]
      <4>1. ledger'[i] = ledger[i] /\ ledger'[j] = ledger[j]
        BY <1>3, <3>1
      <4> QED
        BY <4>1 DEF LedgerInv, RunNumbersUnique
    <3>2. CASE i = inp[r]
      BY <1>3, <2>1, <2>4, <3>2
    <3>3. CASE j = inp[r]
      BY <1>3, <2>1, <2>4, <3>3
    <3> QED
      BY <3>1, <3>2, <3>3
  <2> QED
    BY <2>2, <2>3, <2>5 DEF RecordsOK
<1> QED
  BY <1>2, <1>3 DEF PromotesOnly

LEMMA CloseKeeps ==
    ASSUME LedgerInv, ClosesOnly
    PROVE  KeepsAll /\ RecordsOK'
<1>1. KeepsAll
  BY DEF ClosesOnly, KeepsAll, Keeps, Past
<1>2. \A j \in Inputs : ledger'[j].runSeq = ledger[j].runSeq
  BY DEF ClosesOnly
<1>3. RunNumbersUnique'
  BY <1>2 DEF LedgerInv, RunNumbersUnique
<1>4. UnbegunOK'
  BY DEF ClosesOnly, LedgerInv, UnbegunOK
<1> QED
  BY <1>1, <1>3, <1>4 DEF RecordsOK

\* A request that takes no step, and an input that no run begins for.
Untouched(q) ==
    /\ pc'[q] = pc[q] /\ seq'[q] = seq[q]
    /\ pc[q] = "promoted" => begun'[inp[q]] = begun[inp[q]]

LEMMA RequestKept ==
    ASSUME TypeOK, NEW q \in Requests, RequestOK(q), Untouched(q), KeepsAll,
           UNCHANGED <<inp, body, forgotten>>
    PROVE  RequestOK(q)'
<1>1. inp[q] \in Inputs /\ Keeps(ledger[inp[q]], ledger'[inp[q]])
  BY DEF TypeOK, KeepsAll
<1> QED
  BY <1>1 DEF RequestOK, Untouched, Keeps, Numbered, Past

LEMMA BegunKept ==
    ASSUME BegunOK, KeepsAll, UNCHANGED <<begun, forgotten>>
    PROVE  BegunOK'
<1>1. ASSUME NEW i \in Inputs, ~forgotten, begun[i] # <<>>
      PROVE  ledger'[i].state \in Past /\ begun[i] = <<ledger'[i].body>>
  BY <1>1 DEF BegunOK, KeepsAll, Keeps, Past
<1> QED
  BY <1>1 DEF BegunOK

\* A step of r's, and the others stay.
LEMMA StepKept ==
    ASSUME LedgerInv, TypeOK', NEW r \in Requests, KeepsAll, RecordsOK', BegunOK', RequestOK(r)',
           UNCHANGED <<inp, body, forgotten>>,
           \A q \in Requests : q # r => Untouched(q),
           pc'[r] = "promoted" =>
               \A q \in Requests : q # r /\ pc[q] = "promoted" => inp[q] # inp[r]
    PROVE  LedgerInv'
<1>1. \A q \in Requests : RequestOK(q)'
  BY RequestKept DEF LedgerInv
<1>2. OneEach'
  BY DEF LedgerInv, OneEach, Untouched
<1> QED
  BY <1>1, <1>2 DEF LedgerInv, RecordsOK

LEMMA LedgerStep == LedgerInv /\ [Next]_vars => LedgerInv'
<1> SUFFICES ASSUME LedgerInv, [Next]_vars PROVE LedgerInv'
  OBVIOUS
<1>0. TypeOK /\ TypeOK' /\ BegunOK /\ OneEach /\ RunNumbersUnique /\ \A r \in Requests : RequestOK(r)
  BY TypeStep DEF LedgerInv
<1> USE DEF Going
<1>1. ASSUME NEW r \in Requests, Admit(r) PROVE LedgerInv'
  <2>1. KeepsAll /\ RecordsOK'
    BY <1>1, AdmitRecords, AdmitKeeps
  <2>2. pc'[r] = "done" \/ (pc'[r] = "admitted" /\ ledger'[inp[r]].state # "none"
                            /\ ledger'[inp[r]].body = body[r])
    BY <1>1, AdmitRecords
  <2>3. /\ UNCHANGED <<inp, body, seq, begun, forgotten>> /\ pc[r] = "new"
        /\ \A q \in Requests : q # r => pc'[q] = pc[q]
    BY <1>0, <1>1 DEF Admit, Goto, TypeOK, history
  <2>4. BegunOK'
    BY <1>0, <2>1, <2>3, BegunKept
  <2>5. RequestOK(r)'
    BY <1>0, <2>2, <2>3 DEF RequestOK
  <2> QED
    BY <1>0, <2>1, <2>2, <2>3, <2>4, <2>5, StepKept DEF Untouched
<1>2. ASSUME NEW r \in Requests, Promote(r) PROVE LedgerInv'
  <2>0. inp[r] \in Inputs /\ ledger[inp[r]] \in Records
    BY <1>0 DEF TypeOK
  <2>1. KeepsAll /\ RecordsOK'
    BY <1>2, PromoteRecords, PromoteKeeps
  <2>2. \/ pc'[r] = "completing" /\ seq' = seq
        \/ /\ pc'[r] = "promoted" /\ seq'[r] > 0 /\ ledger[inp[r]].state = "admitted"
           /\ ledger'[inp[r]].state = "promoted" /\ ledger'[inp[r]].runSeq = seq'[r]
    BY <1>2, <2>0, PromoteRecords DEF Records
  <2>3. /\ UNCHANGED <<inp, body, begun, forgotten>> /\ pc[r] = "ready"
        /\ \A q \in Requests : q # r => pc'[q] = pc[q] /\ seq'[q] = seq[q]
    BY <1>0, <1>2 DEF Promote, Goto, TypeOK, history
  <2>4. BegunOK'
    BY <1>0, <2>1, <2>3, BegunKept
  <2>5. Keeps(ledger[inp[r]], ledger'[inp[r]])
    BY <2>0, <2>1 DEF KeepsAll
  <2>6. RequestOK(r)'
    <3>1. ledger[inp[r]].state = "admitted" => (~forgotten => begun[inp[r]] = <<>>)
      BY <1>0, <2>0 DEF BegunOK, Past
    <3> QED
      BY <1>0, <2>2, <2>3, <2>5, <3>1 DEF RequestOK, Keeps, Numbered, Past
  <2>7. pc'[r] = "promoted" =>
            \A q \in Requests : q # r /\ pc[q] = "promoted" => inp[q] # inp[r]
    BY <1>0, <2>2 DEF RequestOK, Numbered, Past
  <2> QED
    BY <1>0, <2>1, <2>3, <2>4, <2>6, <2>7, StepKept DEF Untouched
<1>3. ASSUME NEW r \in Requests, Begin(r) PROVE LedgerInv'
  <2>1. KeepsAll /\ RecordsOK'
    BY <1>3, SameRecords DEF Begin, disk
  <2>2. /\ UNCHANGED <<inp, body, seq, forgotten, ledger>> /\ pc[r] = "promoted" /\ pc'[r] = "running"
        /\ \A q \in Requests : q # r => pc'[q] = pc[q]
        /\ inp[r] \in Inputs
        /\ begun'[inp[r]] = begun[inp[r]] \o <<body[r]>>
        /\ \A i \in Inputs : i # inp[r] => begun'[i] = begun[i]
    BY <1>0, <1>3 DEF Begin, Goto, TypeOK, disk
  <2>3. ~forgotten => begun'[inp[r]] = <<body[r]>>
    <3>1. <<>> \o <<body[r]>> = <<body[r]>>
      BY ConcatEmptySeq
    <3> QED
      BY <1>0, <2>2, <3>1 DEF RequestOK
  <2>4. BegunOK'
    BY <1>0, <2>2, <2>3 DEF BegunOK, RequestOK, Numbered
  <2>5. RequestOK(r)'
    BY <1>0, <2>2 DEF RequestOK, Numbered
  <2>6. \A q \in Requests : q # r => Untouched(q)
    BY <1>0, <2>2 DEF Untouched, OneEach, TypeOK
  <2> QED
    BY <1>0, <2>1, <2>2, <2>4, <2>5, <2>6, StepKept
<1>4. ASSUME NEW r \in Requests, Preflight(r) \/ Busy(r) \/ RunEnds(r) \/ Save(r) PROVE LedgerInv'
  <2>1. /\ UNCHANGED <<inp, body, seq, forgotten, begun, ledger>>
        /\ pc[r] \in Going /\ pc'[r] \in Going /\ pc'[r] # "promoted"
        /\ \A q \in Requests : q # r => pc'[q] = pc[q]
    BY <1>0, <1>4 DEF Preflight, Busy, RunEnds, Save, Goto, TypeOK, disk, history
  <2>2. KeepsAll /\ RecordsOK'
    BY <2>1, SameRecords
  <2>3. BegunOK'
    BY <1>0, <2>1, <2>2, BegunKept
  <2>4. RequestOK(r)'
    BY <1>0, <2>1 DEF RequestOK, Numbered
  <2> QED
    BY <1>0, <2>1, <2>2, <2>3, <2>4, StepKept DEF Untouched
<1>5. ASSUME NEW r \in Requests, Complete(r) PROVE LedgerInv'
  <2>1. KeepsAll /\ RecordsOK'
    BY <1>5, CloseRecords, CloseKeeps
  <2>2. /\ UNCHANGED <<inp, body, seq, forgotten, begun>> /\ pc'[r] = "done"
        /\ \A q \in Requests : q # r => pc'[q] = pc[q]
    BY <1>0, <1>5 DEF Complete, Goto, TypeOK, history
  <2>3. BegunOK'
    BY <1>0, <2>1, <2>2, BegunKept
  <2>4. RequestOK(r)'
    BY <2>2 DEF RequestOK
  <2> QED
    BY <1>0, <2>1, <2>2, <2>3, <2>4, StepKept DEF Untouched
<1>6. ASSUME NEW i \in Inputs, Close(i) PROVE LedgerInv'
  <2>1. KeepsAll /\ RecordsOK'
    BY <1>6, CloseRecords, CloseKeeps
  <2>2. UNCHANGED <<inp, body, seq, pc, forgotten, begun>>
    BY <1>6 DEF Close, reqvars, history
  <2>3. BegunOK' /\ \A q \in Requests : RequestOK(q)'
    BY <1>0, <2>1, <2>2, BegunKept, RequestKept DEF Untouched
  <2>4. OneEach'
    BY <1>0, <2>2 DEF OneEach
  <2> QED
    BY <1>0, <2>1, <2>3, <2>4 DEF LedgerInv, RecordsOK
<1>7. CASE Crash
  <2>1. UNCHANGED <<inp, body, seq, begun>>
        /\ \A q \in Requests : pc'[q] \in {"new", "done"} /\ (pc'[q] = "new" => pc[q] = "new")
    BY <1>0, <1>7 DEF Crash, InFlight, TypeOK
  <2>2. \/ forgotten' = forgotten /\ \A i \in Inputs : ledger'[i] = Marked(ledger[i])
        \/ forgotten' /\ \A i \in Inputs : ledger'[i] = Unknown
    BY <1>7 DEF Crash
  <2>3. \A i \in Inputs : Marked(ledger[i]) = ledger[i]
          \/ (ledger[i].state = "promoted" /\ Marked(ledger[i]).state = "ambiguous"
              /\ Marked(ledger[i]).body = ledger[i].body
              /\ Marked(ledger[i]).runSeq = ledger[i].runSeq)
    <3>1. \A i \in Inputs : ledger[i] \in Records
      BY <1>0 DEF TypeOK
    <3> QED
      BY <3>1 DEF Marked, Records
  <2>4. RunNumbersUnique'
    <3>1. CASE \A i \in Inputs : ledger'[i] = Marked(ledger[i])
      <4>1. \A i \in Inputs : ledger'[i].runSeq = ledger[i].runSeq
        BY <2>3, <3>1
      <4> QED
        BY <1>0, <4>1 DEF RunNumbersUnique
    <3>2. CASE \A i \in Inputs : ledger'[i] = Unknown
      BY <3>2 DEF RunNumbersUnique, Unknown
    <3> QED
      BY <2>2, <3>1, <3>2
  <2>5. UnbegunOK'
    BY <2>2, <2>3 DEF LedgerInv, UnbegunOK, Unknown
  <2>6. BegunOK'
    BY <1>0, <2>1, <2>2, <2>3 DEF BegunOK, Past
  <2>7. \A q \in Requests : RequestOK(q)'
    BY <1>0, <2>1 DEF RequestOK
  <2>8. OneEach'
    BY <2>1 DEF OneEach
  <2> QED
    BY <1>0, <2>4, <2>5, <2>6, <2>7, <2>8 DEF LedgerInv
<1>8. CASE UNCHANGED vars
  <2>1. UNCHANGED <<inp, body, seq, pc, forgotten, begun, ledger>>
    BY <1>8 DEF vars, reqvars, history, disk
  <2>2. KeepsAll /\ RecordsOK'
    BY <2>1, SameRecords
  <2>3. BegunOK' /\ \A q \in Requests : RequestOK(q)'
    BY <1>0, <2>1, <2>2, BegunKept, RequestKept DEF Untouched
  <2>4. OneEach'
    BY <1>0, <2>1 DEF OneEach
  <2> QED
    BY <1>0, <2>2, <2>3, <2>4 DEF LedgerInv, RecordsOK
<1> QED
  BY <1>1, <1>2, <1>3, <1>4, <1>5, <1>6, <1>7, <1>8 DEF Next, RequestStep, Terminated

LEMMA LedgerInit == Init => LedgerInv
<1> SUFFICES ASSUME Init PROVE LedgerInv
  OBVIOUS
<1>1. TypeOK
  BY TypeInit
<1>2. \A i \in Inputs : ledger[i] = Unknown /\ begun[i] = <<>>
  BY DEF Init
<1>3. \A r \in Requests : pc[r] = "new" /\ seq[r] = 0
  BY DEF Init
<1> QED
  BY <1>1, <1>2, <1>3
  DEF LedgerInv, RequestOK, OneEach, BegunOK, UnbegunOK, RunNumbersUnique, Unknown, Going

LEMMA LedgerInvariant == Spec => []LedgerInv
BY LedgerInit, LedgerStep, PTL DEF Spec

\* Until a restart has quarantined the ledger, an input runs at most once and with
\* the body it was admitted with (AdmitInput, promoteInput, the run handler),
\* however often it is sent, closed or interrupted by a restart.
THEOREM RunsOnce == Spec => []OnceAsAdmitted
<1>1. LedgerInv => OnceAsAdmitted
  BY DEF LedgerInv, BegunOK, OnceAsAdmitted
<1> QED
  BY <1>1, LedgerInvariant, PTL

\* promoteInput gives no two inputs the same run number, across restarts.
THEOREM RunNumbersDiffer == Spec => []RunNumbersUnique
<1>1. LedgerInv => RunNumbersUnique
  BY DEF LedgerInv
<1> QED
  BY <1>1, LedgerInvariant, PTL

-----------------------------------------------------------------------------
(* The store.  A transcript only grows, a restart goes back to what was    *)
(* saved, and a save takes the whole of it: so the answer of a run that    *)
(* has ended well is in the transcript until it is in the store.           *)
LEMMA RangeJoin ==
    ASSUME NEW S, NEW s \in Seq(S), NEW x \in S
    PROVE  Range(s \o <<x>>) = Range(s) \union {x}
<1>1. /\ DOMAIN (s \o <<x>>) = 1..(Len(s) + 1) /\ DOMAIN s = 1..Len(s) /\ Len(s) \in Nat
      /\ (s \o <<x>>)[Len(s) + 1] = x
      /\ \A i \in 1..Len(s) : (s \o <<x>>)[i] = s[i]
  OBVIOUS
<1>2. 1..(Len(s) + 1) = (1..Len(s)) \union {Len(s) + 1}
  BY <1>1
<1> QED
  BY <1>1, <1>2 DEF Range

AnswerIn(r, s) == r \in late \/ Slot!Answer(r) \in Range(s)

AnswersOK ==
    \A r \in Requests : result[r] = "completed" =>
        /\ pc[r] \in {"saving", "completing", "done"}
        /\ pc[r] = "saving" => AnswerIn(r, transcript)
        /\ pc[r] = "completing" => AnswerIn(r, saved)

StoreInv == TypeOK /\ AnswersOK /\ Range(saved) \subseteq Range(transcript) /\ CompletedIsSaved

\* What most steps leave of the store: nothing is taken out, and only a completion
\* records one.
Stored ==
    /\ UNCHANGED inp /\ late \subseteq late'
    /\ Range(saved) \subseteq Range(saved') /\ Range(saved') \subseteq Range(transcript')
    /\ \A i \in Inputs : ledger'[i].status = "completed" =>
           \/ i \in claimed'
           \/ ledger[i].status = "completed" /\ i \notin claimed
           \/ \E r \in Requests : inp[r] = i /\ AnswerIn(r, saved)

LEMMA StoredKeeps ==
    ASSUME StoreInv, Stored
    PROVE  CompletedIsSaved' /\ (Range(saved) \subseteq Range(transcript))'
<1>1. \A i \in Inputs : ledger'[i].status = "completed" =>
          i \in claimed' \/ \E r \in Requests : inp[r] = i /\ AnswerIn(r, saved)
  BY DEF StoreInv, CompletedIsSaved, Stored, AnswerIn
<1>2. \A r \in Requests : AnswerIn(r, saved) => AnswerIn(r, saved)'
  BY DEF Stored, AnswerIn, Slot!Answer
<1> QED
  BY <1>1, <1>2 DEF Stored, CompletedIsSaved, AnswerIn

\* The answers of the requests that take no step of their own.
LEMMA AnswersKept ==
    ASSUME StoreInv, NEW q \in Requests, UNCHANGED <<pc[q], result[q]>>, late \subseteq late',
           Range(transcript) \subseteq Range(transcript'), Range(saved) \subseteq Range(saved')
    PROVE  result'[q] = "completed" =>
               /\ pc'[q] \in {"saving", "completing", "done"}
               /\ pc'[q] = "saving" => AnswerIn(q, transcript)'
               /\ pc'[q] = "completing" => AnswerIn(q, saved)'
BY DEF StoreInv, AnswersOK, AnswerIn, Slot!Answer

\* A step of r's that says nothing of a success.
Quiet(r) ==
    /\ UNCHANGED <<transcript, saved, late, claimed, inp>>
    /\ \A q \in Requests : q # r => UNCHANGED <<pc[q], result[q]>>
    /\ result'[r] = "completed" => result[r] = "completed"
                                   /\ pc[r] = "completing" /\ pc'[r] = "done"
    /\ \A i \in Inputs : ledger'[i].status = "completed" =>
           ledger[i].status = "completed"
           \/ (inp[r] = i /\ pc[r] = "completing" /\ result[r] = "completed")

LEMMA QuietStored ==
    ASSUME StoreInv, TypeOK', NEW r \in Requests, Quiet(r)
    PROVE  StoreInv'
<1>1. Stored
  BY DEF Quiet, Stored, StoreInv, AnswersOK
<1>2. AnswersOK'
  <2>1. ASSUME NEW q \in Requests, q # r
        PROVE  result'[q] = "completed" =>
                   /\ pc'[q] \in {"saving", "completing", "done"}
                   /\ pc'[q] = "saving" => AnswerIn(q, transcript)'
                   /\ pc'[q] = "completing" => AnswerIn(q, saved)'
    BY <2>1, AnswersKept DEF Quiet
  <2> QED
    BY <2>1 DEF AnswersOK, Quiet
<1> QED
  BY <1>1, <1>2, StoredKeeps DEF StoreInv

LEMMA StoreStep == LedgerInv /\ StoreInv /\ [Next]_vars => StoreInv'
<1> SUFFICES ASSUME LedgerInv, StoreInv, [Next]_vars PROVE StoreInv'
  OBVIOUS
<1>0. TypeOK /\ TypeOK' /\ AnswersOK /\ Range(saved) \subseteq Range(transcript)
  BY TypeStep DEF StoreInv
<1>1. ASSUME NEW r \in Requests, Admit(r) PROVE StoreInv'
  <2>1. \A i \in Inputs : ledger'[i].status = "completed" => ledger[i].status = "completed"
    <3>1. [Unknown EXCEPT !.state = "admitted", !.body = body[r]].status = "none"
      BY DEF Unknown
    <3>2. AdmitsOnly(r)
      BY <1>1, AdmitRecords
    <3> QED
      BY <3>1, <3>2 DEF AdmitsOnly
  <2>2. UNCHANGED <<transcript, saved, late, claimed, inp, result>> /\ pc[r] = "new"
        /\ \A q \in Requests : q # r => pc'[q] = pc[q]
    BY <1>0, <1>1 DEF Admit, Goto, TypeOK, history, slotvars
  <2> QED
    BY <1>0, <1>1, <2>1, <2>2, QuietStored DEF Quiet, AnswersOK
<1>2. ASSUME NEW r \in Requests, Promote(r) PROVE StoreInv'
  <2>1. \A i \in Inputs : ledger'[i].status = "completed" => ledger[i].status = "completed"
    <3>1. \A i \in Inputs : ledger[i] \in Records
      BY <1>0 DEF TypeOK
    <3>2. \A i \in Inputs, n \in NextRunSeqs :
              [ledger[i] EXCEPT !.state = "promoted", !.runSeq = n].status = ledger[i].status
      BY <3>1 DEF Records
    <3>3. PromotesOnly(r)
      BY <1>2, PromoteRecords
    <3> QED
      BY <3>2, <3>3, ZenonT(30) DEF PromotesOnly
  <2>2. UNCHANGED <<transcript, saved, late, claimed, inp>> /\ pc[r] = "ready"
        /\ result'[r] \in {result[r], "preflight_failed"}
        /\ \A q \in Requests : q # r => pc'[q] = pc[q] /\ result'[q] = result[q]
    BY <1>0, <1>2 DEF Promote, Goto, TypeOK, history, slotvars
  <2> QED
    BY <1>0, <1>2, <2>1, <2>2, QuietStored DEF Quiet, AnswersOK
<1>3. ASSUME NEW r \in Requests, Preflight(r) \/ Begin(r) \/ Busy(r) PROVE StoreInv'
  <2>1. UNCHANGED <<transcript, saved, late, claimed, inp, ledger>> /\ pc[r] \in {"admitted", "promoted"}
        /\ result'[r] \in {result[r], "preflight_failed", "busy"}
        /\ \A q \in Requests : q # r => pc'[q] = pc[q] /\ result'[q] = result[q]
    BY <1>0, <1>3 DEF Preflight, Begin, Busy, Slot!Begin, Slot!Refuse, Goto, TypeOK, disk, history, slotvars
  <2> QED
    BY <1>0, <2>1, QuietStored DEF Quiet, AnswersOK
<1>4. ASSUME NEW r \in Requests, RunEnds(r) PROVE StoreInv'
  <2>1. Slot!Prompt(r) \in Turns /\ Slot!Answer(r) \in Turns /\ transcript \in Seq(Turns)
    BY <1>0 DEF Slot!Prompt, Slot!Answer, Turns, TypeOK
  <2>2. /\ Range(transcript \o <<Slot!Prompt(r)>>) = Range(transcript) \union {Slot!Prompt(r)}
        /\ Range(transcript \o <<Slot!Prompt(r)>> \o <<Slot!Answer(r)>>)
             = Range(transcript) \union {Slot!Prompt(r), Slot!Answer(r)}
    <3>1. transcript \o <<Slot!Prompt(r)>> \in Seq(Turns)
      BY <2>1
    <3>2. Range(transcript \o <<Slot!Prompt(r)>>) = Range(transcript) \union {Slot!Prompt(r)}
      BY <2>1, RangeJoin
    <3> DEFINE prompted == transcript \o <<Slot!Prompt(r)>>
    <3>3. prompted \in Seq(Turns)
      BY <3>1
    <3> HIDE DEF prompted
    <3>4. Range(prompted \o <<Slot!Answer(r)>>) = Range(prompted) \union {Slot!Answer(r)}
      BY <2>1, <3>3, RangeJoin
    <3> QED
      BY <3>2, <3>4 DEF prompted
  <2>3. Range(transcript) \subseteq Range(transcript')
    BY <1>4, <2>2 DEF RunEnds, Slot!End, Slot!Outcomes
  <2>4. UNCHANGED <<saved, claimed, inp, ledger>> /\ late \subseteq late' /\ pc'[r] = "saving"
        /\ \A q \in Requests : q # r => UNCHANGED <<pc[q], result[q]>>
    BY <1>0, <1>4 DEF RunEnds, Goto, TypeOK, disk
  <2>5. result'[r] = "completed" => AnswerIn(r, transcript)'
    BY <1>0, <1>4, <2>2 DEF RunEnds, AnswerIn, Slot!Answer, TypeOK
  <2>6. Stored
    BY <1>0, <2>3, <2>4 DEF Stored
  <2>7. AnswersOK'
    <3>1. ASSUME NEW q \in Requests, q # r
          PROVE  result'[q] = "completed" =>
                     /\ pc'[q] \in {"saving", "completing", "done"}
                     /\ pc'[q] = "saving" => AnswerIn(q, transcript)'
                     /\ pc'[q] = "completing" => AnswerIn(q, saved)'
      BY <2>3, <2>4, <3>1, AnswersKept
    <3> QED
      BY <2>4, <2>5, <3>1 DEF AnswersOK
  <2> QED
    BY <1>0, <2>6, <2>7, StoredKeeps DEF StoreInv
<1>5. ASSUME NEW r \in Requests, Save(r) PROVE StoreInv'
  <2>1. /\ UNCHANGED <<transcript, late, claimed, inp, ledger>> /\ pc[r] = "saving" /\ pc'[r] = "completing"
        /\ \A q \in Requests : q # r => UNCHANGED <<pc[q], result[q]>>
        /\ \/ saved' = transcript /\ result'[r] = result[r]
           \/ saved' = saved /\ result'[r] = "failed"
    BY <1>0, <1>5 DEF Save, Goto, TypeOK, slotvars, history
  <2>2. Stored
    BY <1>0, <2>1 DEF Stored
  <2>3. AnswersOK'
    <3>1. ASSUME NEW q \in Requests, q # r
          PROVE  result'[q] = "completed" =>
                     /\ pc'[q] \in {"saving", "completing", "done"}
                     /\ pc'[q] = "saving" => AnswerIn(q, transcript)'
                     /\ pc'[q] = "completing" => AnswerIn(q, saved)'
      BY <1>0, <2>1, <3>1, AnswersKept
    <3>2. result'[r] = "completed" => AnswerIn(r, saved)'
      BY <1>0, <2>1 DEF AnswersOK, AnswerIn, Slot!Answer
    <3> QED
      BY <2>1, <3>1, <3>2 DEF AnswersOK
  <2> QED
    BY <1>0, <2>2, <2>3, StoredKeeps DEF StoreInv
<1>6. ASSUME NEW r \in Requests, Complete(r) PROVE StoreInv'
  <2>1. inp[r] \in Inputs /\ seq[r] \in Nat /\ result[r] \in Statuses
        /\ \A i \in Inputs : ledger[i] \in Records
    BY <1>0 DEF TypeOK
  <2>2. /\ \A j \in Inputs : j # inp[r] => ledger'[j] = ledger[j]
        /\ ledger'[inp[r]] = ledger[inp[r]]
           \/ ledger'[inp[r]] = Closed(ledger[inp[r]], seq[r], result[r])
    BY <1>0, <1>6, <2>1, Completed DEF Complete
  <2>3. Closed(ledger[inp[r]], seq[r], result[r]).status = result[r]
    BY <2>1 DEF Closed, Records
  <2>4. UNCHANGED <<transcript, saved, late, claimed, inp, result>>
        /\ pc[r] = "completing" /\ pc'[r] = "done"
        /\ \A q \in Requests : q # r => pc'[q] = pc[q]
    BY <1>0, <1>6 DEF Complete, Goto, TypeOK, history, slotvars
  <2> QED
    BY <1>0, <2>2, <2>3, <2>4, QuietStored DEF Quiet
<1>7. ASSUME NEW i \in Inputs, Close(i) PROVE StoreInv'
  <2>1. PICK status \in ClientStatuses :
           /\ CompleteRecord(i, 0, status)
           /\ claimed' = IF status = "completed" /\ ledger'[i] # ledger[i]
                         THEN claimed \union {i} ELSE claimed
    BY <1>7 DEF Close
  <2>2. /\ \A j \in Inputs : j # i => ledger'[j] = ledger[j]
        /\ ledger'[i] = ledger[i] \/ ledger'[i] = Closed(ledger[i], 0, status)
    BY <1>0, <2>1, Completed DEF ClientStatuses, Statuses
  <2>3. Closed(ledger[i], 0, status).status = status
    BY <1>0 DEF Closed, Records, TypeOK
  <2>4. UNCHANGED <<transcript, saved, late, inp, result, pc>>
    BY <1>7 DEF Close, reqvars, slotvars
  <2>6. \A j \in Inputs : ledger'[j].status = "completed" =>
           j \in claimed' \/ (ledger[j].status = "completed" /\ j \notin claimed)
    BY <2>1, <2>2, <2>3
  <2>7. Stored
    BY <1>0, <2>4, <2>6 DEF Stored
  <2>8. AnswersOK'
    BY <1>0, <2>4 DEF AnswersOK, AnswerIn, Slot!Answer
  <2> QED
    BY <1>0, <2>7, <2>8, StoredKeeps DEF StoreInv
<1>8. CASE Crash
  <2>1. UNCHANGED <<saved, late, inp, result>> /\ transcript' = saved
        /\ \A q \in Requests : pc'[q] \in {"new", "done"} /\ (pc'[q] = "new" => pc[q] = "new")
    BY <1>0, <1>8 DEF Crash, InFlight, TypeOK
  <2>2. \A i \in Inputs : ledger'[i].status = "completed" =>
           ledger[i].status = "completed" /\ UNCHANGED claimed
    <3>1. \A i \in Inputs : ledger[i] \in Records
      BY <1>0 DEF TypeOK
    <3>2. \A i \in Inputs : Marked(ledger[i]).status = "completed" => ledger[i].status = "completed"
      BY <3>1 DEF Marked, Records
    <3> QED
      BY <1>8, <3>2 DEF Crash, Unknown
  <2>3. Stored
    BY <2>1, <2>2 DEF Stored
  <2>4. AnswersOK'
    BY <1>0, <2>1 DEF AnswersOK
  <2> QED
    BY <1>0, <2>3, <2>4, StoredKeeps DEF StoreInv
<1>9. CASE UNCHANGED vars
  <2>1. UNCHANGED <<transcript, saved, late, claimed, inp, result, pc, ledger>>
    BY <1>9 DEF vars, disk, slotvars, reqvars, history
  <2>2. Stored /\ AnswersOK'
    BY <1>0, <2>1 DEF Stored, AnswersOK, AnswerIn, Slot!Answer
  <2> QED
    BY <1>0, <2>2, StoredKeeps DEF StoreInv
<1> QED
  BY <1>1, <1>2, <1>3, <1>4, <1>5, <1>6, <1>7, <1>8, <1>9 DEF Next, RequestStep, Terminated

\* An input that CompleteInput has recorded as completed has its answer in the saved
\* transcript, unless its run was cancelled after the runner had succeeded or a client
\* of the complete endpoint had it recorded so.
THEOREM CompletedIsStored == Spec => []CompletedIsSaved
<1>1. Init => StoreInv
  <2> SUFFICES ASSUME Init PROVE StoreInv
    OBVIOUS
  <2>1. TypeOK
    BY TypeInit
  <2>2. saved = <<>> /\ transcript = <<>>
    BY DEF Init, Slot!Init
  <2>3. \A r \in Requests : result[r] = "none"
    BY DEF Init
  <2>4. \A i \in Inputs : ledger[i].status = "none"
    BY DEF Init, Unknown
  <2> QED
    BY <2>1, <2>2, <2>3, <2>4 DEF StoreInv, AnswersOK, CompletedIsSaved
<1>2. StoreInv => CompletedIsSaved
  BY DEF StoreInv
<1> QED
  BY <1>1, <1>2, LedgerInvariant, StoreStep, PTL DEF Spec

\* No handler, duplicate or close rewrites the record of a completed input
\* (CompleteInput, AdmitInput, promoteInput), until a restart has quarantined the ledger.
THEOREM CompletedIsFinal == Spec => TerminalIsFinal
<1>1. ASSUME LedgerInv, [Next]_vars, NEW i \in Inputs, ledger[i].state = "completed", ~forgotten'
      PROVE  ledger'[i] = ledger[i]
  <2>0. TypeOK
    BY <1>1 DEF LedgerInv
  <2>1. ASSUME NEW r \in Requests, Admit(r) PROVE ledger'[i] = ledger[i]
    BY <1>1, <2>1, AdmitRecords DEF AdmitsOnly
  <2>2. ASSUME NEW r \in Requests, Promote(r) PROVE ledger'[i] = ledger[i]
    BY <1>1, <2>2, PromoteRecords DEF PromotesOnly
  <2>3. ASSUME NEW r \in Requests, Complete(r) PROVE ledger'[i] = ledger[i]
    <3>1. inp[r] \in Inputs /\ seq[r] \in Nat /\ result[r] \in Statuses
      BY <2>0 DEF TypeOK
    <3> QED
      BY <1>1, <2>0, <2>3, <3>1, Completed DEF Complete
  <2>4. ASSUME NEW j \in Inputs, Close(j) PROVE ledger'[i] = ledger[i]
    BY <1>1, <2>0, <2>4, Completed DEF Close, ClientStatuses, Statuses
  <2>5. CASE Crash
    BY <1>1, <2>5 DEF Crash, Marked
  <2>6. ASSUME NEW r \in Requests, Preflight(r) \/ Begin(r) \/ Busy(r) \/ RunEnds(r) \/ Save(r)
        PROVE  ledger'[i] = ledger[i]
    BY <2>6 DEF Preflight, Begin, Busy, RunEnds, Save, disk
  <2>7. CASE UNCHANGED vars
    BY <2>7 DEF vars, disk
  <2> QED
    BY <1>1, <2>1, <2>2, <2>3, <2>4, <2>5, <2>6, <2>7 DEF Next, RequestStep, Terminated
<1>2. LedgerInv /\ [Next]_vars =>
          [\A i \in Inputs : ledger[i].state = "completed" /\ ~forgotten' => ledger'[i] = ledger[i]]_vars
  BY <1>1
<1> QED
  BY <1>2, LedgerInvariant, PTL DEF Spec, TerminalIsFinal
=============================================================================
