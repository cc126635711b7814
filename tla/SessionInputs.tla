---------------------------- MODULE SessionInputs ----------------------------
(***************************************************************************)
(* The input ledger of one gateway session (session_inputs.go) under the   *)
(* handlers that use it (gateway.go): POST /inputs, POST /run and POST     *)
(* /inputs/{id}/complete, crashes and restarts included.  A run request    *)
(* admits its input, does its preflight work, promotes the input, takes    *)
(* the session's run slot (module RunSlot), saves the transcript and       *)
(* completes the input; another request may step in between any two.       *)
(*                                                                         *)
(* inputs.jsonl is kept as what replaySessionInputs makes of it: the state *)
(* of every input, or "corrupt" once a line of it is torn.                 *)
(***************************************************************************)
EXTENDS Naturals, Sequences, Functions

CONSTANTS
    Requests,   \* HTTP requests that admit, or admit and run, an input
    Inputs,     \* input ids: several requests may use the same one
    Bodies,     \* what the requests carry, up to the body hash
    Appends,    \* what AppendJSONL may do: see AppendRecord
    MaxFaults,  \* bound: writes to disk that go wrong
    MaxCloses,  \* bound: calls of the complete endpoint
    MaxCrashes, \* bound: crashes of the gateway
    Nil

ASSUME AppendsAssumption ==
    "ok" \in Appends /\ Appends \subseteq {"ok", "refused", "unsure", "torn"}

VARIABLES
    ledger,     \* the replayed inputs.jsonl
    corrupt,    \* a line of inputs.jsonl is torn
    statusSeq,  \* Session.status.RunSeq, which the event log restores
    holder, transcript, over,   \* the run slot
    saved,      \* the transcript in the session store
    pc, inp, body, seq, result, \* per request
    faults, closes, crashes,
    \* history
    begun,      \* [Inputs -> the bodies of the runs begun for it, in order]
    late,       \* the requests cancelled after their runner had succeeded
    claimed,    \* the inputs that a client has closed as completed
    forgotten   \* a restart has found a torn line and renamed inputs.jsonl away

disk == <<ledger, corrupt, faults>>
slotvars == <<holder, transcript, over>>
reqvars == <<pc, inp, body, seq, result>>
history == <<begun, late, claimed, forgotten>>
vars == <<disk, statusSeq, slotvars, saved, reqvars, closes, crashes, history>>

Slot == INSTANCE RunSlot WITH Callers <- Requests

Unknown == [state |-> "none", body |-> Nil, runSeq |-> 0, status |-> "none"]

-----------------------------------------------------------------------------
Init == /\ ledger = [i \in Inputs |-> Unknown]
        /\ corrupt = FALSE /\ statusSeq = 0
        /\ Slot!Init /\ saved = <<>>
        /\ pc = [r \in Requests |-> "new"]
        /\ inp \in [Requests -> Inputs]
        /\ body \in [Requests -> Bodies]
        /\ seq = [r \in Requests |-> 0]
        /\ result = [r \in Requests |-> "none"]
        /\ faults = 0 /\ closes = 0 /\ crashes = 0
        /\ begun = [i \in Inputs |-> <<>>]
        /\ late = {} /\ claimed = {} /\ forgotten = FALSE

Goto(r, label) == pc' = [pc EXCEPT ![r] = label]

\* eventlog.AppendJSONL: the record is written; or nothing is; or it is, and
\* the fsync, chmod or close that follows fails; or a part of it is.
AppendRecord(i, record, how) ==
    /\ how \in Appends
    /\ how # "ok" => faults < MaxFaults
    /\ faults' = IF how = "ok" THEN faults ELSE faults + 1
    /\ ledger' = IF how \in {"ok", "unsure"} THEN [ledger EXCEPT ![i] = record] ELSE ledger
    /\ corrupt' = (how = "torn")

\* The body hash of a duplicate.
SameBody(r) == ledger[inp[r]].body = body[r]

\* AdmitInput.  POST /inputs ends with the answer; POST /run goes on when the
\* input is new, or admitted and no more.
Admit(r) ==
    LET old == ledger[inp[r]]
        goOn == {"done", "admitted"}
    IN  /\ pc[r] = "new"
        /\ \/ /\ ~corrupt /\ old.state = "none"
              /\ \E how \in Appends :
                   /\ AppendRecord(inp[r], [Unknown EXCEPT !.state = "admitted", !.body = body[r]], how)
                   /\ \E label \in IF how = "ok" THEN goOn ELSE {"done"} : Goto(r, label)
           \/ /\ corrupt \/ old.state # "none"
              /\ \E label \in IF ~corrupt /\ old.state = "admitted" /\ SameBody(r)
                              THEN goOn ELSE {"done"} : Goto(r, label)
              /\ UNCHANGED disk
        /\ UNCHANGED <<statusSeq, slotvars, saved, inp, body, seq, result, closes,
                       crashes, history>>

\* The interrupt policy, the settings and the agent: any of them may fail.
Preflight(r) ==
    /\ pc[r] = "admitted"
    /\ \/ Goto(r, "ready") /\ UNCHANGED result
       \/ Goto(r, "completing") /\ result' = [result EXCEPT ![r] = "preflight_failed"]
    /\ UNCHANGED <<disk, statusSeq, slotvars, saved, inp, body, seq, closes,
                   crashes, history>>

\* nextSessionInputRunSeq: one above the session's own run number and every one
\* the ledger has given out.
GivenOut == {statusSeq} \union {ledger[i].runSeq : i \in Inputs}
NextRunSeqs == {n \in {m + 1 : m \in GivenOut} : \A m \in GivenOut : m < n}

\* Mutant: only a completed input is refused.
Uncompleted(i) == ~corrupt /\ ledger[i].state # "completed"

\* What promoteInput requires of the input.
Promotable(i) == ~corrupt /\ ledger[i].state = "admitted"

\* promoteInput, and the completion "preflight_failed" when it fails.
Promote(r) ==
    LET old == ledger[inp[r]]
        PreflightFailed == /\ Goto(r, "completing")
                           /\ result' = [result EXCEPT ![r] = "preflight_failed"]
    IN  /\ pc[r] = "ready"
        /\ \/ /\ Promotable(inp[r])
              /\ \E n \in NextRunSeqs, how \in Appends :
                   /\ AppendRecord(inp[r], [old EXCEPT !.state = "promoted", !.runSeq = n], how)
                   /\ IF how = "ok"
                      THEN /\ Goto(r, "promoted") /\ seq' = [seq EXCEPT ![r] = n]
                           /\ UNCHANGED result
                      ELSE PreflightFailed /\ UNCHANGED seq
           \/ /\ ~Promotable(inp[r])
              /\ PreflightFailed /\ UNCHANGED <<disk, seq>>
        /\ UNCHANGED <<statusSeq, slotvars, saved, inp, body, closes, crashes, history>>

\* RunMessage takes the slot and the runner's run.started goes through
\* beginRunStatus, which moves the session's run number.
Begin(r) ==
    /\ pc[r] = "promoted" /\ Slot!Begin(r)
    /\ statusSeq' = IF seq[r] > statusSeq THEN seq[r] ELSE statusSeq + 1
    /\ begun' = [begun EXCEPT ![inp[r]] = @ \o <<body[r]>>]
    /\ Goto(r, "running")
    /\ UNCHANGED <<disk, saved, inp, body, seq, result, closes, crashes, late,
                   claimed, forgotten>>

\* ErrBusy: the input is spent, and nothing is saved.
Busy(r) ==
    /\ pc[r] = "promoted" /\ holder # Nil /\ Slot!Refuse(r)
    /\ result' = [result EXCEPT ![r] = "busy"]
    /\ Goto(r, "completing")
    /\ UNCHANGED <<disk, statusSeq, saved, inp, body, seq, closes, crashes, history>>

\* The run ends: with an answer; with an error, the turn kept or not; or rolled
\* back by a cancellation that came after the runner had returned no error.
RunEnds(r) ==
    /\ pc[r] = "running" /\ Slot!End(r)
    /\ LET answered == transcript' = transcript \o <<Slot!Prompt(r)>> \o <<Slot!Answer(r)>>
       IN  \/ answered /\ result' = [result EXCEPT ![r] = "completed"] /\ UNCHANGED late
           \/ ~answered /\ result' = [result EXCEPT ![r] = "failed"] /\ UNCHANGED late
           \/ /\ transcript' = transcript
              /\ result' = [result EXCEPT ![r] = "completed"] /\ late' = late \union {r}
    /\ Goto(r, "saving")
    /\ UNCHANGED <<disk, statusSeq, saved, inp, body, seq, closes, crashes, begun,
                   claimed, forgotten>>

\* Mutant: the transcript is not saved, or its error is not looked at.
SaveUnchecked(r) ==
    /\ pc[r] = "saving"
    /\ saved' = saved
    /\ Goto(r, "completing")
    /\ UNCHANGED <<disk, statusSeq, slotvars, inp, body, seq, result, closes,
                   crashes, history>>

\* saveSession: the transcript as it is by now.  A failed save fails the input.
Save(r) ==
    /\ pc[r] = "saving"
    /\ \/ saved' = transcript /\ UNCHANGED <<result, faults>>
       \/ /\ faults < MaxFaults /\ faults' = faults + 1
          /\ result' = [result EXCEPT ![r] = "failed"] /\ UNCHANGED saved
    /\ Goto(r, "completing")
    /\ UNCHANGED <<ledger, corrupt, statusSeq, slotvars, inp, body, seq, closes, crashes, history>>

\* Mutant: a completed input is completed again.
Known(i) == ~corrupt /\ ledger[i].state # "none"

\* What CompleteInputWithOptions requires of the input.
Completable(i) == ~corrupt /\ ledger[i].state \notin {"none", "completed"}

\* CompleteInputWithOptions: whatever the state of an admitted input, unless it
\* is completed already.
CompleteRecord(i, n, status) ==
    IF Completable(i)
    THEN \E how \in Appends :
           AppendRecord(i, [ledger[i] EXCEPT !.state = "completed", !.status = status,
                                       !.runSeq = IF n > 0 THEN n ELSE @], how)
    ELSE UNCHANGED disk

Complete(r) ==
    /\ pc[r] = "completing"
    /\ CompleteRecord(inp[r], seq[r], result[r])
    /\ Goto(r, "done")
    /\ UNCHANGED <<statusSeq, slotvars, saved, inp, body, seq, result, closes, crashes, history>>

\* defaultSessionInputTerminalStatus: a client may give any status, and one that
\* gives none says "completed", whatever has become of the input.
ClientStatuses == {"closed", "completed"}

\* POST /inputs/{input_id}/complete, by a client that admitted the input.
Close(i) ==
    /\ closes < MaxCloses
    /\ closes' = closes + 1
    /\ \E status \in ClientStatuses :
         /\ CompleteRecord(i, 0, status)
         /\ claimed' = IF status = "completed" /\ ledger'[i] # ledger[i]
                       THEN claimed \union {i} ELSE claimed
    /\ UNCHANGED <<statusSeq, slotvars, saved, reqvars, crashes, begun, late, forgotten>>

InFlight == {r \in Requests : pc[r] \notin {"new", "done"}}

\* markPromotedSessionInputsAmbiguous.
Marked(record) ==
    IF record.state = "promoted"
    THEN [record EXCEPT !.state = "ambiguous", !.status = "ambiguous_after_restart"]
    ELSE record

\* The gateway dies and starts again: handlers are gone, the transcript is the
\* saved one, promoted inputs are marked ambiguous, a corrupt ledger is renamed
\* away.  The crash may itself tear a line that was being appended.
Crash ==
    /\ crashes < MaxCrashes
    /\ crashes' = crashes + 1
    /\ pc' = [r \in Requests |-> IF r \in InFlight THEN "done" ELSE pc[r]]
    /\ holder' = Nil /\ transcript' = saved /\ over' = over \union InFlight
    /\ corrupt' = FALSE
    /\ \/ /\ ~corrupt
          /\ ledger' = [i \in Inputs |-> Marked(ledger[i])]
          /\ UNCHANGED <<claimed, forgotten>>
       \/ /\ corrupt \/ ("torn" \in Appends /\ InFlight # {})
          /\ ledger' = [i \in Inputs |-> Unknown]
          /\ claimed' = {} /\ forgotten' = TRUE
    /\ UNCHANGED <<statusSeq, saved, inp, body, seq, result, faults, closes, begun, late>>

RequestStep(r) ==
    \/ Admit(r) \/ Preflight(r) \/ Promote(r) \/ Begin(r) \/ Busy(r) \/ RunEnds(r)
    \/ Save(r) \/ Complete(r)

Terminated == (\A r \in Requests : pc[r] = "done") /\ UNCHANGED vars

Next == \/ \E r \in Requests : RequestStep(r)
        \/ \E i \in Inputs : Close(i)
        \/ Crash
        \/ Terminated

Spec == Init /\ [][Next]_vars

-----------------------------------------------------------------------------
Statuses == {"none", "completed", "failed", "busy", "preflight_failed", "closed",
             "ambiguous_after_restart"}
Records == [state : {"none", "admitted", "promoted", "completed", "ambiguous"},
            body : Bodies \union {Nil}, runSeq : Nat, status : Statuses]
Turns == Requests \X {"prompt", "answer"}

\* Every variable has its type.
TypeOK ==
    /\ ledger \in [Inputs -> Records] /\ corrupt \in BOOLEAN /\ faults \in Nat /\ statusSeq \in Nat
    /\ holder \in Requests \union {Nil} /\ over \subseteq Requests
    /\ transcript \in Seq(Turns) /\ saved \in Seq(Turns)
    /\ pc \in [Requests -> {"new", "admitted", "ready", "promoted", "running", "saving",
                            "completing", "done"}]
    /\ inp \in [Requests -> Inputs] /\ body \in [Requests -> Bodies]
    /\ seq \in [Requests -> Nat] /\ result \in [Requests -> Statuses]
    /\ closes \in Nat /\ crashes \in Nat
    /\ begun \in [Inputs -> Seq(Bodies)]
    /\ late \subseteq Requests /\ claimed \subseteq Inputs /\ forgotten \in BOOLEAN

\* An input runs at most once, and what runs is what was admitted under its id,
\* however often it is sent, retried or closed, whichever appends fail and however
\* often the gateway restarts: until a restart finds a torn line and forgets every
\* input id.
OnceAsAdmitted ==
    ~forgotten => \A i \in Inputs : begun[i] \in {<<>>, <<ledger[i].body>>}

\* The ledger gives no two inputs the same run number, although runs start in
\* any order after their promotion and a restart forgets the handlers.
RunNumbersUnique ==
    \A i, j \in Inputs :
        i # j /\ ledger[i].runSeq > 0 => ledger[i].runSeq # ledger[j].runSeq

\* The gateway records an input as completed only after its turn is in the store,
\* so a crash right after the record loses nothing, and a failed save, a busy
\* thread or a lost promotion is never recorded so.  Two exceptions: RunMessage
\* returns no error for a run that is cancelled after its runner has succeeded,
\* and rolls it back; and the complete endpoint takes a client's word for it.
CompletedIsSaved ==
    \A i \in Inputs : ledger[i].status = "completed" =>
        \/ i \in claimed
        \/ \E r \in Requests : inp[r] = i /\ (r \in late \/ Slot!Answer(r) \in Range(saved))

\* A completed input keeps its record: a late handler, a duplicate request or
\* a client's close never rewrites how it ended.
TerminalIsFinal ==
    [][\A i \in Inputs : ledger[i].state = "completed" /\ ~forgotten'
            => ledger'[i] = ledger[i]]_vars
=============================================================================
