------------------------------- MODULE RunSlot -------------------------------
(***************************************************************************)
(* What a session promises about its runs: the slot is held by at most one *)
(* run at a time, and when a run lets go of it the transcript is either    *)
(* exactly what it was, or extended by what that one run adds.  RunThread  *)
(* implements this with a mutex, a cancel function and an idle channel.    *)
(***************************************************************************)
EXTENDS Sequences

CONSTANTS Callers,      \* the RunMessage calls made on one session
          Nil           \* nobody holds the slot

VARIABLES holder,       \* the call whose run owns the slot, or Nil
          transcript,   \* the messages of the session
          over          \* the calls whose run has ended, or that were refused

svars == <<holder, transcript, over>>

Prompt(c) == <<c, "prompt">>
Answer(c) == <<c, "answer">>

\* What the run of c may leave behind: nothing, its prompt (the model failed),
\* or its prompt with an answer.
Outcomes(c) ==
    {transcript, transcript \o <<Prompt(c)>>,
     transcript \o <<Prompt(c)>> \o <<Answer(c)>>}

-----------------------------------------------------------------------------
Init == /\ holder = Nil
        /\ transcript = <<>>
        /\ over = {}

Begin(c) == /\ holder = Nil
            /\ c \notin over
            /\ holder' = c
            /\ UNCHANGED <<transcript, over>>

End(c) == /\ holder = c
          /\ holder' = Nil
          /\ over' = over \union {c}
          /\ transcript' \in Outcomes(c)

Refuse(c) == /\ holder # c
             /\ c \notin over
             /\ over' = over \union {c}
             /\ UNCHANGED <<holder, transcript>>

Next == \E c \in Callers : Begin(c) \/ End(c) \/ Refuse(c)

Spec == Init /\ [][Next]_svars
=============================================================================
