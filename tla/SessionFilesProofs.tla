-------------------------- MODULE SessionFilesProofs --------------------------
(***************************************************************************)
(* What a session keeps in files, and what it does to the user's.  For any *)
(* transcripts, any ways in which an append may fail and any window that a *)
(* failure or a restart may fall into: what a loaded session finds         *)
(* (SessionStore).  For any files, contents, requests and changes: what    *)
(* undo and redo write over, that the log tells the files, and that a      *)
(* session's own undos and redos are not refused (UndoRedo).  The first    *)
(* needs that who has looked at files is alone with them (Alone), the      *)
(* second what a handler that stands between two files has done (Partway), *)
(* the third that the changes that are applied form a stack (Stack).       *)
(***************************************************************************)
EXTENDS SessionStore, UndoRedo, FiniteSetTheorems, SequenceTheorems, TLAPS

Records == [seq : Nat, messages : Transcripts]
Manifests == [historySeq : Nat, hash : Transcripts, eventSeq : Nat]
Saves == [kind : {"save"}, messages : Transcripts, seq : Nat]
Published == [kind |-> "append"]

TypeInv == TypeOK /\ Len(history) > 0

-----------------------------------------------------------------------------
(* What an append leaves: the records as they were, or with one more.      *)
Longer(s, t, e) ==
    /\ Len(t) = Len(s) + 1 /\ t[Len(s) + 1] = e
    /\ \A i \in 1..Len(s) : t[i] = s[i]
    /\ \A i \in 1..Len(t) : i \in 1..Len(s) \/ i = Len(s) + 1

LEMMA AppendLonger ==
    ASSUME NEW S, NEW s \in Seq(S), NEW e \in S
    PROVE  Append(s, e) \in Seq(S) /\ Longer(s, Append(s, e), e) /\ Len(s) \in Nat
<1>1. /\ Append(s, e) \in Seq(S) /\ Len(Append(s, e)) = Len(s) + 1
      /\ \A i \in 1..Len(s) : Append(s, e)[i] = s[i]
      /\ Append(s, e)[Len(s) + 1] = e /\ Len(s) \in Nat
  BY AppendProperties
<1>2. \A i \in 1..(Len(s) + 1) : i \in 1..Len(s) \/ i = Len(s) + 1
  BY <1>1
<1> QED
  BY <1>1, <1>2 DEF Longer

\* The outcomes of an append of a record to one of the files.
Outcome(file, how, s, t, e) ==
    /\ how \in Appends
    /\ torn' = IF how = "torn" THEN torn \union {file} ELSE torn
    /\ slipped' = (slipped \/ how \in {"unsure", "torn"})
    /\ \/ t = s /\ (how \in {"refused", "torn"} \/ file \in torn)
       \/ Longer(s, t, e) /\ how \in {"ok", "unsure"} /\ file \notin torn

LEMMA AppendHistory ==
    ASSUME TypeOK, NEW e \in Records, NEW how, AppendJSONL("history", history, e, how)
    PROVE  history' \in Seq(Records) /\ Outcome("history", how, history, history', e)
<1>1. history \in Seq(Records)
  BY DEF TypeOK, Records
<1>2. Append(history, e) \in Seq(Records) /\ Longer(history, Append(history, e), e)
  BY <1>1, AppendLonger
<1>3. /\ how \in Appends
      /\ torn' = IF how = "torn" THEN torn \union {"history"} ELSE torn
      /\ slipped' = (slipped \/ how \in {"unsure", "torn"})
      /\ history' = IF how \in {"ok", "unsure"} /\ "history" \notin torn
                    THEN Append(history, e) ELSE history
  BY DEF AppendJSONL
<1>4. how \in {"ok", "refused", "unsure", "torn"}
  BY <1>3, AppendsAssumption
<1> QED
  BY <1>1, <1>2, <1>3, <1>4 DEF Outcome

LEMMA AppendEvents ==
    ASSUME TypeOK, NEW e \in Nat, NEW how, AppendJSONL("events", events, e, how)
    PROVE  events' \in Seq(Nat) /\ Outcome("events", how, events, events', e)
<1>1. events \in Seq(Nat)
  BY DEF TypeOK
<1>2. Append(events, e) \in Seq(Nat) /\ Longer(events, Append(events, e), e)
  BY <1>1, AppendLonger
<1>3. /\ how \in Appends
      /\ torn' = IF how = "torn" THEN torn \union {"events"} ELSE torn
      /\ slipped' = (slipped \/ how \in {"unsure", "torn"})
      /\ events' = IF how \in {"ok", "unsure"} /\ "events" \notin torn
                   THEN Append(events, e) ELSE events
  BY DEF AppendJSONL
<1>4. how \in {"ok", "refused", "unsure", "torn"}
  BY <1>3, AppendsAssumption
<1> QED
  BY <1>1, <1>2, <1>3, <1>4 DEF Outcome

-----------------------------------------------------------------------------
(* Types.                                                                  *)
LEMMA Lengths ==
    ASSUME TypeOK
    PROVE  /\ Len(history) \in Nat /\ Len(events) \in Nat
           /\ \A i \in 1..Len(history) : history[i] \in Records
           /\ Len(history) > 0 => Last(history) = history[Len(history)] /\ Last(history) \in Records
<1>1. history \in Seq(Records) /\ events \in Seq(Nat)
  BY DEF TypeOK, Records
<1>2. Len(history) \in Nat /\ Len(events) \in Nat /\ \A i \in 1..Len(history) : history[i] \in Records
  BY <1>1, LenProperties, ElementOfSeq
<1> QED
  BY <1>2 DEF Last

LEMMA TypeStep == TypeInv /\ [Next]_vars => TypeInv'
<1> SUFFICES ASSUME TypeInv, [Next]_vars PROVE TypeInv'
  OBVIOUS
<1>0. TypeOK /\ Len(history) \in Nat /\ Len(events) \in Nat /\ Len(history) > 0
      /\ Last(history) \in Records
  BY Lengths DEF TypeInv
<1>1. CASE ChangeTranscript
  BY <1>0, <1>1 DEF ChangeTranscript, files, TypeInv, TypeOK
<1>2. CASE SaveHistory
  <2> DEFINE seq == manifest.historySeq + 1
  <2>0. manifest.historySeq \in Nat /\ seq \in Nat /\ messages \in Transcripts
    BY <1>0 DEF TypeOK
  <2>1. CASE \E how \in Appends :
               /\ AppendJSONL("history", history, [seq |-> seq, messages |-> messages], how)
               /\ op' = IF how = "ok" THEN [kind |-> "save", messages |-> messages, seq |-> seq] ELSE Idle
    <3>1. PICK how \in Appends :
               /\ AppendJSONL("history", history, [seq |-> seq, messages |-> messages], how)
               /\ op' = IF how = "ok" THEN [kind |-> "save", messages |-> messages, seq |-> seq] ELSE Idle
      BY <2>1
    <3> DEFINE e == [seq |-> seq, messages |-> messages]
    <3>2. e \in Records
      BY <2>0 DEF Records
    <3> HIDE DEF e
    <3>3. AppendJSONL("history", history, e, how)
      BY <3>1 DEF e
    <3>4. history' \in Seq(Records) /\ Outcome("history", how, history, history', e)
      BY <1>0, <3>2, <3>3, AppendHistory
    <3>5. Len(history') > 0 /\ torn' \subseteq {"history", "events"} /\ slipped' \in BOOLEAN
      <4>1. Len(history') = Len(history) \/ Len(history') = Len(history) + 1
        BY <3>4 DEF Outcome, Longer
      <4>2. Len(history') > 0
        BY <1>0, <4>1
      <4>3. torn' \subseteq {"history", "events"}
        BY <1>0, <3>4 DEF Outcome, TypeOK
      <4>4. slipped' \in BOOLEAN
        BY <3>4, Zenon DEF Outcome
      <4> QED
        BY <4>2, <4>3, <4>4
    <3>6. op' \in {Idle} \union Saves
      BY <2>0, <3>1 DEF Saves
    <3>7. /\ UNCHANGED <<messages, events, manifest, eventState, loaded, crashes, saved, published>>
          /\ begun' = begun \union {messages}
      BY <1>2 DEF SaveHistory
    <3> QED
      BY <1>0, <2>0, <3>4, <3>5, <3>6, <3>7 DEF TypeInv, TypeOK, Records, Saves
  <2>2. CASE op' = [kind |-> "save", messages |-> messages, seq |-> manifest.historySeq]
             /\ UNCHANGED <<history, torn, slipped>>
    <3>1. op' \in Saves
      BY <2>0, <2>2 DEF Saves
    <3>2. /\ UNCHANGED <<messages, events, manifest, eventState, loaded, crashes, saved, published>>
          /\ begun' = begun \union {messages}
      BY <1>2 DEF SaveHistory
    <3> QED
      BY <1>0, <2>0, <2>2, <3>1, <3>2 DEF TypeInv, TypeOK, Saves
  <2> QED
    BY <1>2, <2>1, <2>2 DEF SaveHistory, NextHistorySeq
<1>3. CASE SaveManifest
  <2>1. op \in Saves
    BY <1>0, <1>3 DEF SaveManifest, TypeOK, Idle, Saves
  <2>2. op.seq \in Nat /\ op.messages \in Transcripts
    BY <2>1 DEF Saves
  <2>3. SavedManifest \in Manifests
    <3>1. manifest.eventSeq \in Nat /\ eventState \in Nat
      BY <1>0 DEF TypeOK
    <3> QED
      BY <1>0, <2>2, <3>1 DEF SavedManifest, Manifests
  <2>4. /\ op' = Idle
        /\ UNCHANGED <<messages, history, events, torn, eventState, loaded, crashes, published>>
    BY <1>3 DEF SaveManifest
  <2>5. manifest' \in Manifests /\ saved' \in Transcripts /\ begun' \subseteq Transcripts
    BY <1>0, <1>3, <2>2, <2>3 DEF SaveManifest, TypeOK, Manifests
  <2>6. slipped' \in BOOLEAN
    <3>1. slipped' = slipped \/ slipped' = (slipped \/ op.seq # manifest.historySeq)
      BY <1>3, Zenon DEF SaveManifest
    <3>2. slipped \in BOOLEAN
      BY <1>0 DEF TypeOK
    <3> QED
      BY <3>1, <3>2, Zenon
  <2> QED
    BY <1>0, <2>4, <2>5, <2>6 DEF TypeInv, TypeOK, Manifests
<1>4. CASE AppendEvent
  <2>1. LastEventSeq \in Nat /\ LastEventSeq + 1 \in Nat
    <3>1. eventState \in Nat
      BY <1>0 DEF TypeOK
    <3>2. LastEventSeq \in Nat
      BY <1>0, <3>1 DEF LastEventSeq
    <3> QED
      BY <3>2
  <2>2. PICK how \in Appends :
             /\ AppendJSONL("events", events, LastEventSeq + 1, how)
             /\ IF how = "ok" THEN eventState' = LastEventSeq + 1 /\ op' = [kind |-> "append"]
                              ELSE UNCHANGED <<eventState, op>>
    BY <1>4 DEF AppendEvent
  <2>3. events' \in Seq(Nat) /\ Outcome("events", how, events, events', LastEventSeq + 1)
    BY <1>0, <2>1, <2>2, AppendEvents
  <2>4. torn' \subseteq {"history", "events"}
    BY <1>0, <2>3 DEF Outcome, TypeOK
  <2>5. slipped' \in BOOLEAN
    BY <2>3, Zenon DEF Outcome
  <2>6. eventState' \in Nat /\ (op' = op \/ op' = Published)
    BY <1>0, <2>1, <2>2 DEF TypeOK, Published
  <2>7. UNCHANGED <<messages, history, manifest, loaded, crashes, saved, begun, published>>
    BY <1>4 DEF AppendEvent
  <2> QED
    BY <1>0, <2>3, <2>4, <2>5, <2>6, <2>7 DEF TypeInv, TypeOK, Published
<1>5. CASE AppendManifest
  BY <1>0, <1>5 DEF AppendManifest, TypeInv, TypeOK
<1>6. CASE Restart
  <2>1. messages' \in Transcripts /\ loaded' \in BOOLEAN
    <3>1. Last(history).messages \in Transcripts
      BY <1>0 DEF Records
    <3> QED
      BY <1>0, <1>6, <3>1 DEF Restart, TypeOK
  <2>2. crashes' \in Nat
    <3>1. crashes' = crashes + 1 /\ crashes \in Nat
      BY <1>0, <1>6 DEF Restart, TypeOK
    <3> QED
      BY <3>1
  <2>3. slipped' \in BOOLEAN
    BY <1>6, Zenon DEF Restart
  <2>4. op' = Idle /\ eventState' = 0 /\ UNCHANGED <<history, events, torn, manifest, saved, begun, published>>
    BY <1>6 DEF Restart, files
  <2> QED
    BY <1>0, <2>1, <2>2, <2>3, <2>4 DEF TypeInv, TypeOK
<1>7. CASE UNCHANGED vars
  BY <1>0, <1>7 DEF vars, files, TypeInv, TypeOK
<1> QED
  BY <1>1, <1>2, <1>3, <1>4, <1>5, <1>6, <1>7 DEF Next, Unavailable

LEMMA TypeInit == Init => TypeInv
<1> SUFFICES ASSUME Init PROVE TypeInv
  OBVIOUS
<1> DEFINE e == [seq |-> 1, messages |-> Start]
<1>1. e \in Records
  BY StartAssumption DEF Records
<1>2. history = <<e>> /\ events = <<>>
  BY DEF Init
<1> HIDE DEF e
<1>3. <<e>> \in Seq(Records) /\ Len(<<e>>) = 1 /\ <<>> \in Seq(Nat)
  BY <1>1
<1>4. history \in Seq(Records) /\ Len(history) = 1 /\ events \in Seq(Nat)
  BY <1>2, <1>3
<1>5. manifest \in Manifests
  BY StartAssumption DEF Init, Manifests
<1>6. loaded \in BOOLEAN /\ slipped \in BOOLEAN
  BY Zenon DEF Init
<1>7. /\ messages \in Transcripts /\ saved \in Transcripts /\ begun = {} /\ torn = {}
      /\ eventState = 0 /\ published = 0 /\ crashes = 0 /\ op = Idle
  BY StartAssumption DEF Init
<1> QED
  BY <1>4, <1>5, <1>6, <1>7 DEF TypeInv, TypeOK, Records, Manifests

\* Every variable keeps its type, the records of history.jsonl and events.jsonl and
\* the manifest included.
THEOREM TypeCorrect == Spec => []TypeOK
<1>1. TypeInv => TypeOK
  BY DEF TypeInv
<1> QED
  BY <1>1, TypeInit, TypeStep, PTL DEF Spec

-----------------------------------------------------------------------------
(* Event numbers.  What is in memory is at or above what was published; and *)
(* a log that can be read has at least as many records.                    *)
EventInv ==
    /\ eventState # 0 => published <= eventState
    /\ op.kind = "append" => published < eventState
    /\ "events" \notin torn => eventState <= Len(events) /\ published <= Len(events)

LEMMA EventStep == TypeInv /\ EventInv /\ [Next]_vars => EventInv'
<1> SUFFICES ASSUME TypeInv, EventInv, [Next]_vars PROVE EventInv'
  OBVIOUS
<1>0. TypeOK /\ Len(events) \in Nat /\ eventState \in Nat /\ published \in Nat
  BY Lengths DEF TypeInv, TypeOK
<1>1. CASE ChangeTranscript \/ UNCHANGED vars
  BY <1>1 DEF ChangeTranscript, vars, files, EventInv
<1>2. CASE SaveHistory
  <2>1. UNCHANGED <<events, eventState, published>>
    BY <1>2 DEF SaveHistory
  <2>2. op'.kind \in {"idle", "save"}
    BY <1>2 DEF SaveHistory, Idle
  <2>3. torn \subseteq torn'
    BY <1>2 DEF SaveHistory, AppendJSONL
  <2> QED
    BY <2>1, <2>2, <2>3 DEF EventInv
<1>3. CASE SaveManifest
  <2>1. UNCHANGED <<events, torn, eventState, published>> /\ op'.kind = "idle"
    BY <1>3 DEF SaveManifest, Idle
  <2> QED
    BY <2>1 DEF EventInv
<1>4. CASE AppendEvent
  <2> DEFINE last == LastEventSeq
  <2>1. /\ last \in Nat /\ published <= last
        /\ "events" \notin torn => last <= Len(events)
    <3>1. CASE eventState # 0
      BY <1>0, <3>1 DEF LastEventSeq, EventInv
    <3>2. CASE eventState = 0
      <4>1. "events" \notin torn
        BY <1>4, <3>2 DEF AppendEvent, EventsReadable
      <4> QED
        BY <1>0, <3>2, <4>1 DEF LastEventSeq, EventInv
    <3> QED
      BY <3>1, <3>2
  <2>2. op.kind = "idle" /\ published' = published
    BY <1>4 DEF AppendEvent, Idle
  <2>3. PICK how \in Appends :
             /\ AppendJSONL("events", events, last + 1, how)
             /\ IF how = "ok" THEN eventState' = last + 1 /\ op' = [kind |-> "append"]
                              ELSE UNCHANGED <<eventState, op>>
    BY <1>4 DEF AppendEvent
  <2> HIDE DEF last
  <2>4. Outcome("events", how, events, events', last + 1)
    <3>1. last + 1 \in Nat
      BY <2>1
    <3> QED
      BY <1>0, <2>3, <3>1, AppendEvents
  <2>5. "events" \notin torn' => "events" \notin torn
    BY <2>4 DEF Outcome
  <2>6. Len(events') \in {Len(events), Len(events) + 1}
        /\ (how = "ok" /\ "events" \notin torn' => Len(events') = Len(events) + 1)
    BY <2>4 DEF Outcome, Longer
  <2>7. CASE how = "ok"
    <3>1. eventState' = last + 1 /\ published < last + 1 /\ published <= last + 1
      BY <1>0, <2>1, <2>3, <2>7
    <3>2. "events" \notin torn' => last + 1 <= Len(events') /\ published <= Len(events')
      <4>1. SUFFICES ASSUME "events" \notin torn'
                     PROVE  last + 1 <= Len(events') /\ published <= Len(events')
        OBVIOUS
      <4>2. Len(events') = Len(events) + 1 /\ last <= Len(events) /\ published <= Len(events)
        BY <2>1, <2>5, <2>6, <2>7, <4>1 DEF EventInv
      <4> QED
        BY <1>0, <2>1, <4>2
    <3> QED
      BY <2>2, <3>1, <3>2 DEF EventInv
  <2>8. CASE how # "ok"
    <3>1. eventState' = eventState /\ op' = op
      BY <2>3, <2>8
    <3>2. "events" \notin torn' => eventState <= Len(events') /\ published <= Len(events')
      <4>1. SUFFICES ASSUME "events" \notin torn'
                     PROVE  eventState <= Len(events') /\ published <= Len(events')
        OBVIOUS
      <4>2. eventState <= Len(events) /\ published <= Len(events)
        BY <2>5, <4>1 DEF EventInv
      <4>3. Len(events') = Len(events) \/ Len(events') = Len(events) + 1
        BY <2>6
      <4> QED
        BY <1>0, <4>2, <4>3
    <3> QED
      BY <2>2, <3>1, <3>2 DEF EventInv
  <2> QED
    BY <2>7, <2>8
<1>5. CASE AppendManifest
  <2>1. /\ UNCHANGED <<events, torn, eventState>> /\ op'.kind = "idle" /\ op.kind = "append"
        /\ published' = eventState \/ published' = published
    BY <1>5 DEF AppendManifest, Idle
  <2>2. eventState <= eventState
    BY <1>0
  <2> QED
    BY <2>1, <2>2 DEF EventInv
<1>6. CASE Restart
  <2>1. UNCHANGED <<events, torn, published>> /\ op'.kind = "idle" /\ eventState' = 0
    BY <1>6 DEF Restart, files, Idle
  <2>2. 0 <= Len(events)
    BY <1>0
  <2> QED
    BY <2>1, <2>2 DEF EventInv
<1> QED
  BY <1>1, <1>2, <1>3, <1>4, <1>5, <1>6 DEF Next, Unavailable

LEMMA EventInit == Init => EventInv
BY EmptySeq DEF Init, EventInv, Idle

\* AppendEvent never gives a published sequence number away again, although an append
\* may fail after its bytes are written and the manifest may lag at a restart.
THEOREM NumbersOnce == Spec => PublishedOnce
<1>1. TypeInv /\ EventInv /\ [Next]_vars => (published' # published => published' > published)
  <2> SUFFICES ASSUME TypeInv, EventInv, [Next]_vars, published' # published
               PROVE  published' > published
    OBVIOUS
  <2>1. AppendManifest
    BY DEF Next, ChangeTranscript, SaveHistory, SaveManifest, AppendEvent, Restart, Unavailable, vars
  <2>2. published' = eventState /\ published < eventState
    BY <2>1 DEF AppendManifest, EventInv
  <2>3. published \in Nat /\ eventState \in Nat
    BY DEF TypeInv, TypeOK
  <2> QED
    BY <2>2, <2>3
<1> QED
  BY <1>1, TypeInit, TypeStep, EventInit, EventStep, PTL DEF Spec, PublishedOnce

-----------------------------------------------------------------------------
(* As long as no record has slipped past the numbering, both files are     *)
(* whole and numbered from one; the manifest tells the last transcript of  *)
(* the history and its number, and during a save the operation does; and   *)
(* the number of the last event, once it is known, is that of the file.    *)
Numbered == /\ \A i \in 1..Len(history) : history[i].seq = i
            /\ \A i \in 1..Len(events) : events[i] = i
            /\ torn = {} /\ loaded

EventsCounted == eventState # 0 => eventState = Len(events)

ManifestTells ==
    op.kind # "save" => manifest.historySeq = Len(history) /\ manifest.hash = Last(history).messages

SaveTells ==
    op.kind = "save" =>
        /\ op.seq = Len(history) /\ op.messages = Last(history).messages /\ op.messages \in begun
        /\ op.seq = manifest.historySeq => op.messages = manifest.hash

LastIsSaved == Last(history).messages \in {saved} \union begun

Whole == Numbered /\ EventsCounted /\ ManifestTells /\ SaveTells /\ LastIsSaved
StoreInv == ~slipped => Whole

\* The two ways to state that a file is numbered.
LEMMA WholeIsReadable ==
    ASSUME TypeInv, Whole
    PROVE  HistoryReadable /\ EventsReadable /\ loaded
<1>0. Len(history) \in Nat /\ Len(events) \in Nat
  BY Lengths DEF TypeInv
<1> DEFINE n == Len(history)
           s == [i \in 1..n |-> history[i].seq]
<1>1. \A i \in 1..n : history[i].seq = i
  BY DEF Whole, Numbered
<1> HIDE DEF n
<1>2. n \in Nat
  BY <1>0 DEF n
<1>3. s = [i \in 1..n |-> i]
  BY <1>1
<1>4. [i \in 1..n |-> i] \in Seq(Nat) /\ Len([i \in 1..n |-> i]) = n
  BY <1>2
<1>5. InOrder(s)
  BY <1>1, <1>3, <1>4 DEF InOrder
<1>6. InOrder([i \in 1..Len(history) |-> history[i].seq])
  BY <1>5 DEF n
<1> QED
  BY <1>6 DEF Whole, Numbered, HistoryReadable, EventsReadable, InOrder

LEMMA SaveHistoryStep == TypeInv /\ StoreInv /\ SaveHistory => StoreInv'
<1> SUFFICES ASSUME TypeInv, StoreInv, SaveHistory, ~slipped' PROVE Whole'
  BY DEF StoreInv
<1>0. TypeOK /\ Len(history) \in Nat /\ Len(events) \in Nat /\ Len(history) > 0
      /\ Last(history) = history[Len(history)]
  BY Lengths DEF TypeInv
<1> DEFINE seq == manifest.historySeq + 1
           e == [seq |-> seq, messages |-> messages]
<1>1. /\ op = Idle /\ begun' = begun \union {messages}
      /\ UNCHANGED <<messages, events, manifest, eventState, loaded, saved>>
      /\ \/ \E how \in Appends :
              /\ AppendJSONL("history", history, e, how)
              /\ op' = IF how = "ok" THEN [kind |-> "save", messages |-> messages, seq |-> seq] ELSE Idle
         \/ /\ manifest.hash = messages
            /\ op' = [kind |-> "save", messages |-> messages, seq |-> manifest.historySeq]
            /\ UNCHANGED <<history, torn, slipped>>
  BY DEF SaveHistory, NextHistorySeq
<1>2. ~slipped
  BY <1>1 DEF AppendJSONL
<1>3. Whole /\ manifest.historySeq = Len(history) /\ manifest.hash = Last(history).messages
      /\ seq = Len(history) + 1
  BY <1>1, <1>2 DEF StoreInv, Whole, ManifestTells, Idle
<1>4. e \in Records /\ e.seq = seq /\ e.messages = messages
  BY <1>0, <1>3 DEF Records, TypeOK
<1> HIDE DEF e, seq
<1>5. CASE manifest.hash = messages
           /\ op' = [kind |-> "save", messages |-> messages, seq |-> manifest.historySeq]
           /\ UNCHANGED <<history, torn, slipped>>
  <2>1. op'.kind = "save" /\ op'.messages = messages /\ op'.seq = Len(history)
    BY <1>3, <1>5
  <2>2. Numbered' /\ EventsCounted' /\ LastIsSaved'
    BY <1>1, <1>3, <1>5 DEF Whole, Numbered, EventsCounted, LastIsSaved
  <2>3. ManifestTells' /\ SaveTells'
    BY <1>1, <1>3, <1>5, <2>1 DEF ManifestTells, SaveTells
  <2> QED
    BY <2>2, <2>3 DEF Whole
<1>6. ASSUME NEW how \in Appends, AppendJSONL("history", history, e, how),
             op' = IF how = "ok" THEN [kind |-> "save", messages |-> messages, seq |-> seq] ELSE Idle
      PROVE  Whole'
  <2>1. Outcome("history", how, history, history', e)
    BY <1>0, <1>4, <1>6, AppendHistory
  <2>2. how \in {"ok", "refused"} /\ torn' = torn /\ torn = {}
    <3>1. how \in {"ok", "refused", "unsure", "torn"}
      BY <1>6, AppendsAssumption
    <3> QED
      BY <1>3, <2>1, <3>1 DEF Outcome, Whole, Numbered
  <2>3. CASE how = "ok"
    <3>1. Longer(history, history', e)
      BY <1>3, <2>1, <2>2, <2>3 DEF Outcome
    <3>2. /\ Len(history') = Len(history) + 1 /\ history'[Len(history) + 1] = e
          /\ \A i \in 1..Len(history) : history'[i] = history[i]
          /\ \A i \in 1..Len(history') : i \in 1..Len(history) \/ i = Len(history) + 1
      BY <3>1 DEF Longer
    <3>3. Last(history') = e
      BY <3>2 DEF Last
    <3>4. op'.kind = "save" /\ op'.messages = messages /\ op'.seq = seq
      BY <1>6, <2>3
    <3>5. \A i \in 1..Len(history') : history'[i].seq = i
      <4>1. ASSUME NEW i \in 1..Len(history') PROVE history'[i].seq = i
        <5>1. CASE i \in 1..Len(history)
          BY <1>3, <3>2, <5>1 DEF Whole, Numbered
        <5>2. CASE i = Len(history) + 1
          BY <1>3, <1>4, <3>2, <5>2
        <5> QED
          BY <3>2, <4>1, <5>1, <5>2
      <4> QED
        BY <4>1
    <3>6. Numbered' /\ EventsCounted'
      BY <1>1, <1>3, <2>2, <3>5 DEF Whole, Numbered, EventsCounted
    <3>7. LastIsSaved'
      BY <1>1, <1>4, <3>3 DEF LastIsSaved
    <3>8. ManifestTells'
      BY <3>4 DEF ManifestTells
    <3>9. SaveTells'
      <4>1. seq # manifest.historySeq
        BY <1>0, <1>3
      <4> QED
        BY <1>1, <1>3, <1>4, <3>2, <3>3, <3>4, <4>1 DEF SaveTells
    <3> QED
      BY <3>6, <3>7, <3>8, <3>9 DEF Whole
  <2>4. CASE how = "refused"
    <3>1. history' = history /\ op' = Idle
      BY <1>6, <2>1, <2>4 DEF Outcome
    <3> QED
      BY <1>1, <1>3, <2>2, <3>1
      DEF Whole, Numbered, EventsCounted, ManifestTells, SaveTells, LastIsSaved, Idle
  <2> QED
    BY <2>2, <2>3, <2>4
<1> QED
  BY <1>1, <1>5, <1>6

LEMMA SaveManifestStep == TypeInv /\ StoreInv /\ SaveManifest => StoreInv'
<1> SUFFICES ASSUME TypeInv, StoreInv, SaveManifest, ~slipped' PROVE Whole'
  BY DEF StoreInv
<1>1. /\ op.kind = "save" /\ op'.kind = "idle"
      /\ UNCHANGED <<messages, history, events, torn, eventState, loaded>>
  BY DEF SaveManifest, Idle
<1>2. \/ manifest' = SavedManifest /\ saved' = op.messages /\ begun' = {} /\ slipped' = slipped
      \/ slipped' = (slipped \/ op.seq # manifest.historySeq) /\ UNCHANGED <<manifest, saved, begun>>
  BY DEF SaveManifest
<1>3. ~slipped /\ Whole
  <2>1. ~slipped
    BY <1>2
  <2> QED
    BY <2>1 DEF StoreInv
<1>4. Numbered' /\ EventsCounted' /\ SaveTells'
  BY <1>1, <1>3 DEF Whole, Numbered, EventsCounted, SaveTells
<1>5. CASE manifest' = SavedManifest /\ saved' = op.messages /\ begun' = {}
  <2>1. manifest'.historySeq = op.seq /\ manifest'.hash = op.messages
    BY <1>5 DEF SavedManifest
  <2> QED
    BY <1>1, <1>3, <1>4, <1>5, <2>1 DEF Whole, ManifestTells, SaveTells, LastIsSaved
<1>6. CASE slipped' = (slipped \/ op.seq # manifest.historySeq) /\ UNCHANGED <<manifest, saved, begun>>
  <2>1. op.seq = manifest.historySeq
    BY <1>3, <1>6
  <2> QED
    BY <1>1, <1>3, <1>4, <1>6, <2>1 DEF Whole, ManifestTells, SaveTells, LastIsSaved
<1> QED
  BY <1>2, <1>5, <1>6

LEMMA AppendEventStep == TypeInv /\ StoreInv /\ AppendEvent => StoreInv'
<1> SUFFICES ASSUME TypeInv, StoreInv, AppendEvent, ~slipped' PROVE Whole'
  BY DEF StoreInv
<1> DEFINE last == LastEventSeq
<1>0. TypeOK /\ Len(history) \in Nat /\ Len(events) \in Nat /\ eventState \in Nat
  BY Lengths DEF TypeInv, TypeOK
<1>1. PICK how \in Appends :
           /\ AppendJSONL("events", events, last + 1, how)
           /\ IF how = "ok" THEN eventState' = last + 1 /\ op' = [kind |-> "append"]
                            ELSE UNCHANGED <<eventState, op>>
  BY DEF AppendEvent
<1>2. op = Idle /\ UNCHANGED <<messages, history, manifest, loaded, saved, begun>>
  BY DEF AppendEvent
<1>3. ~slipped /\ Whole
  BY <1>1 DEF AppendJSONL, StoreInv
<1>4. last = Len(events)
  BY <1>3 DEF LastEventSeq, Whole, EventsCounted
<1> HIDE DEF last
<1>5. Outcome("events", how, events, events', last + 1)
  BY <1>0, <1>1, <1>4, AppendEvents
<1>6. how \in {"ok", "refused"} /\ torn' = torn /\ torn = {}
  <2>1. how \in {"ok", "refused", "unsure", "torn"}
    BY <1>1, AppendsAssumption
  <2> QED
    BY <1>3, <1>5, <2>1 DEF Outcome, Whole, Numbered
<1>7. op'.kind \in {"idle", "append"}
  BY <1>1, <1>2 DEF Idle
<1>8. ManifestTells' /\ SaveTells' /\ LastIsSaved'
  BY <1>2, <1>3, <1>7 DEF Whole, ManifestTells, SaveTells, LastIsSaved, Idle
<1>9. CASE how = "ok"
  <2>1. Longer(events, events', last + 1)
    BY <1>5, <1>6, <1>9 DEF Outcome
  <2>2. /\ Len(events') = Len(events) + 1 /\ events'[Len(events) + 1] = last + 1
        /\ \A i \in 1..Len(events) : events'[i] = events[i]
        /\ \A i \in 1..Len(events') : i \in 1..Len(events) \/ i = Len(events) + 1
    BY <2>1 DEF Longer
  <2>3. \A i \in 1..Len(events') : events'[i] = i
    BY <1>3, <1>4, <2>2 DEF Whole, Numbered
  <2>4. eventState' = Len(events')
    BY <1>1, <1>4, <1>9, <2>2
  <2>5. Numbered' /\ EventsCounted'
    BY <1>2, <1>3, <1>6, <2>3, <2>4 DEF Whole, Numbered, EventsCounted
  <2> QED
    BY <1>8, <2>5 DEF Whole
<1>10. CASE how = "refused"
  <2>1. events' = events /\ eventState' = eventState
    BY <1>1, <1>5, <1>10 DEF Outcome
  <2> QED
    BY <1>2, <1>3, <1>6, <1>8, <2>1 DEF Whole, Numbered, EventsCounted
<1> QED
  BY <1>6, <1>9, <1>10

LEMMA StoreStep == TypeInv /\ StoreInv /\ [Next]_vars => StoreInv'
<1> SUFFICES ASSUME TypeInv, StoreInv, [Next]_vars PROVE StoreInv'
  OBVIOUS
<1>1. CASE ChangeTranscript \/ UNCHANGED vars
  <2>1. UNCHANGED <<history, events, torn, manifest, eventState, op, loaded, saved, begun, slipped>>
    BY <1>1 DEF ChangeTranscript, vars, files
  <2> QED
    BY <2>1 DEF StoreInv, Whole, Numbered, EventsCounted, ManifestTells, SaveTells, LastIsSaved
<1>2. CASE AppendManifest
  <2>1. /\ op.kind = "append" /\ op'.kind = "idle"
        /\ UNCHANGED <<history, events, torn, eventState, loaded, saved, begun, slipped>>
        /\ manifest' = [manifest EXCEPT !.eventSeq = eventState] \/ manifest' = manifest
    BY <1>2 DEF AppendManifest, Idle
  <2>2. manifest'.historySeq = manifest.historySeq /\ manifest'.hash = manifest.hash
    BY <2>1 DEF TypeInv, TypeOK
  <2> QED
    BY <2>1, <2>2
       DEF StoreInv, Whole, Numbered, EventsCounted, ManifestTells, SaveTells, LastIsSaved
<1>3. CASE Restart
  <2> SUFFICES ASSUME ~slipped' PROVE Whole'
    BY DEF StoreInv
  <2>1. /\ op'.kind = "idle" /\ eventState' = 0
        /\ UNCHANGED <<history, events, torn, manifest, saved, begun>>
        /\ slipped' = (slipped \/ (op.kind = "save" /\ op.seq # manifest.historySeq))
    BY <1>3 DEF Restart, files, Idle
  <2>2. ~slipped /\ Whole /\ (op.kind = "save" => op.seq = manifest.historySeq)
    BY <2>1 DEF StoreInv
  <2>3. HistoryReadable /\ EventsReadable
    BY <2>2, WholeIsReadable
  <2>4. loaded' = loaded
    BY <1>3, <2>3 DEF Restart
  <2> QED
    BY <2>1, <2>2, <2>4
    DEF Whole, Numbered, EventsCounted, ManifestTells, SaveTells, LastIsSaved
<1> QED
  BY <1>1, <1>2, <1>3, SaveHistoryStep, SaveManifestStep, AppendEventStep DEF Next, Unavailable

LEMMA StoreInit == Init => StoreInv
<1> SUFFICES ASSUME Init PROVE Whole
  BY DEF StoreInv
<1> DEFINE e == [seq |-> 1, messages |-> Start]
<1>1. e.seq = 1 /\ e.messages = Start
  OBVIOUS
<1>2. history = <<e>> /\ events = <<>> /\ op.kind = "idle" /\ torn = {} /\ loaded /\ eventState = 0
      /\ saved = Start /\ manifest.historySeq = 1 /\ manifest.hash = Start
  BY DEF Init, Idle
<1> HIDE DEF e
<1>3. Len(history) = 1 /\ history[1] = e /\ Last(history) = e /\ Len(events) = 0
  BY <1>2, EmptySeq DEF Last
<1> QED
  BY <1>1, <1>2, <1>3 DEF Whole, Numbered, EventsCounted, ManifestTells, SaveTells, LastIsSaved

LEMMA StoreInvariant == Spec => [](TypeInv /\ StoreInv)
BY TypeInit, TypeStep, StoreInit, StoreStep, PTL DEF Spec

\* loadSessionDir can replay what saveLocked and AppendEvent have written, as long as
\* no history record has slipped past the manifest's numbering.
THEOREM Readable == Spec => []StaysReadable
<1>1. TypeInv /\ StoreInv => StaysReadable
  BY WholeIsReadable DEF StoreInv, StaysReadable
<1> QED
  BY <1>1, StoreInvariant, PTL

\* The last history record is the transcript of the last successful saveLocked, or of
\* one begun later, although a save is skipped when the manifest has its hash.
THEOREM SavedIsKept == Spec => []SavedSurvives
<1>1. StoreInv => SavedSurvives
  BY DEF StoreInv, Whole, LastIsSaved, SavedSurvives
<1> QED
  BY <1>1, StoreInvariant, PTL

-----------------------------------------------------------------------------
UndoTypes ==
    /\ disk \in States /\ expect \in States /\ before \in States
    /\ changes \in Seq([before : States, after : States])
    /\ log \in Seq([type : {"recorded", "reverted"}, change : Nat])
    /\ run \in {"idle", "running", "tool", "written"}
    /\ pc \in [Requests -> {"new", "find", "check", "write", "publish"}]
    /\ redo \in [Requests -> BOOLEAN] /\ conflict \in [Requests -> BOOLEAN]
    /\ rollback \in [Requests -> BOOLEAN]
    /\ change \in [Requests -> Nat] /\ todo \in [Requests -> SUBSET Files]
    /\ edits \in Nat /\ faults \in Nat /\ restarts \in Nat

HandlersInOrder ==
    /\ \A i \in 1..Len(log) : log[i].change \in 1..Len(changes)
    /\ \A h \in Restoring : change[h] \in 1..Len(changes) /\ todo[h] \subseteq FilesOf(change[h])
    /\ \A h \in Requests : rollback[h] => pc[h] \in {"check", "write"}
    /\ \A h \in Requests : conflict[h] => pc[h] = "check"

\* Somebody who has not looked at a file yet.
FreshAt(h) ==
    pc[h] = "check" /\ ~rollback[h] /\ todo[h] = FilesOf(change[h])

Alone ==
    "race" \notin marks =>
        /\ \A h, k \in Restoring : h = k \/ FreshAt(h) \/ FreshAt(k)
        /\ AtFiles => \A h \in Restoring : FreshAt(h)

\* The files that a handler has checked, and those it still has to write, are as its
\* checkpoint says.
Fit(h) ==
    /\ pc[h] = "check" /\ ~conflict[h] =>
          \A f \in FilesOf(change[h]) \ todo[h] : disk[f] = Current(h, f)
    /\ pc[h] = "write" => \A f \in todo[h] : disk[f] = Current(h, f)
Fitting == "race" \notin marks => \A h \in Requests : Fit(h)

\* Nothing has happened that the log cannot tell.
Undisturbed == marks \subseteq {"edit", "named", "overlap"}

\* A handler has files in its hands: what it wrote is of one side of its change, the
\* rest of the other; the log tells of the side it came from.
AtWork(h) == pc[h] \in {"write", "publish"} \/ (pc[h] = "check" /\ rollback[h])
Partway(h) ==
    \A f \in FilesOf(change[h]) :
       /\ expect[f] = Side(change[h], ~redo[h], f)
       /\ pc[h] # "write" => disk[f] = Side(change[h], redo[h], f)
       /\ pc[h] = "write" => disk[f] = IF f \in todo[h] THEN Current(h, f) ELSE Target(h, f)

TellsNow ==
    /\ run = "tool" => before = disk
    /\ run = "written" => expect = before
    /\ run # "written" =>
          \A f \in Files :
             disk[f] = expect[f] \/ \E h \in Requests : AtWork(h) /\ f \in FilesOf(change[h])
    /\ \A h \in Requests : AtWork(h) => Partway(h)
Tells == Undisturbed => TellsNow

\* Requests and runs follow one another.
NoOverlap ==
    "overlap" \notin marks =>
        /\ \A h, k \in InFlight : h = k
        /\ InFlight # {} => run = "idle"

\* The events of a change have a last one.
HasLast ==
    \A c \in Nat : LogsOf(c) # {} => \E m \in LogsOf(c) : \A i \in LogsOf(c) : i <= m

\* The applied changes form a stack: each found the files as the one below it left them,
\* and they are now as the topmost left them.  What can be redone lies above them all.
Top(c) == c \in 1..Len(changes) /\ Applied(c) /\ \A d \in (c + 1)..Len(changes) : ~Applied(d)
StackNow ==
    /\ \A c \in 1..Len(changes) : Top(c) => expect = changes[c].after
    /\ \A c, d \in 1..Len(changes) :
          c < d /\ Applied(c) /\ Applied(d) /\ (\A e \in (c + 1)..(d - 1) : ~Applied(e))
            => changes[d].before = changes[c].after
    /\ \A c \in Redoable :
          expect = changes[c].before /\ \A d \in 1..Len(changes) : Applied(d) => d < c
Stack == marks = {} => StackNow

\* A handler's change is still the next one in turn.
InTurn(h) == change[h] \in (IF redo[h] THEN Redoable ELSE Undoable(0))
Chosen == marks = {} => \A h \in Restoring : InTurn(h)

\* A conflict that a handler has met is in its change.
Barred(h) == \E f \in FilesOf(change[h]) : Irreversible(h, f)
Conflicts ==
    marks = {} =>
       \A h \in Requests : pc[h] = "check" /\ ~rollback[h] /\ conflict[h] => Barred(h)

-----------------------------------------------------------------------------
\* The handler of a request moves no other one.
OthersStay(h) ==
    \A k \in Requests \ {h} :
       /\ pc'[k] = pc[k] /\ redo'[k] = redo[k] /\ change'[k] = change[k]
       /\ todo'[k] = todo[k] /\ conflict'[k] = conflict[k] /\ rollback'[k] = rollback[k]

Typed ==
    /\ pc' \in [Requests -> {"new", "find", "check", "write", "publish"}]
    /\ redo' \in [Requests -> BOOLEAN] /\ conflict' \in [Requests -> BOOLEAN]
    /\ rollback' \in [Requests -> BOOLEAN]
    /\ change' \in [Requests -> Nat] /\ todo' \in [Requests -> SUBSET Files]

\* The request is answered.
Over(h) == pc'[h] = "new" /\ rollback'[h] = FALSE /\ conflict'[h] = FALSE

LEMMA AnswerEnds ==
    ASSUME UndoTypes, NEW h \in Requests, Answer(h)
    PROVE  /\ Over(h)
           /\ Typed /\ OthersStay(h)
<1>1. /\ pc' = [pc EXCEPT ![h] = "new"] /\ redo' = [redo EXCEPT ![h] = FALSE]
      /\ change' = [change EXCEPT ![h] = 0] /\ todo' = [todo EXCEPT ![h] = {}]
      /\ conflict' = [conflict EXCEPT ![h] = FALSE] /\ rollback' = [rollback EXCEPT ![h] = FALSE]
  BY DEF Answer, Goto
<1>2. {} \in SUBSET Files /\ 0 \in Nat
  OBVIOUS
<1>3. OthersStay(h)
  BY <1>1 DEF UndoTypes, OthersStay
<1>4. Typed
  BY <1>1, <1>2 DEF UndoTypes, Typed
<1> QED
  BY <1>1, <1>3, <1>4 DEF UndoTypes, Over

LEMMA FilesAreFiles == ASSUME NEW c PROVE FilesOf(c) \in SUBSET Files
BY DEF FilesOf

\* What the steps of a handler do to the variables of its request.
LEMMA CheckIdleMoves ==
    ASSUME UndoTypes, NEW h \in Requests, CheckIdle(h)
    PROVE  /\ pc[h] = "new" /\ pc'[h] = "find"
           /\ UNCHANGED <<change, todo, conflict, rollback>>
           /\ Typed /\ OthersStay(h)
<1>1. PICK r \in BOOLEAN : redo' = [redo EXCEPT ![h] = r]
  BY DEF CheckIdle
<1>2. pc' = [pc EXCEPT ![h] = "find"] /\ UNCHANGED <<change, todo, conflict, rollback>>
  BY DEF CheckIdle, Goto
<1> QED
  BY <1>1, <1>2 DEF UndoTypes, Typed, OthersStay, CheckIdle

LEMMA FindMoves ==
    ASSUME UndoTypes, NEW h \in Requests, Find(h)
    PROVE  /\ pc[h] = "find"
           /\ Typed /\ OthersStay(h)
           /\ \/ Over(h)
              \/ /\ \E named \in 0..Len(changes) :
                       /\ change'[h] \in (IF redo[h] THEN Redoable ELSE Undoable(named))
                       /\ named # 0 => "named" \in marks'
                 /\ pc'[h] = "check" /\ todo'[h] = FilesOf(change'[h])
                 /\ UNCHANGED <<redo, conflict, rollback>>
<1>1. CASE Answer(h)
  BY <1>1, AnswerEnds DEF Find
<1>2. CASE ~Answer(h)
  <2>1. PICK named \in 0..Len(changes) :
           /\ named # 0 => "named" \in marks'
           /\ \E c \in (IF redo[h] THEN Redoable ELSE Undoable(named)) :
                /\ change' = [change EXCEPT ![h] = c]
                /\ todo' = [todo EXCEPT ![h] = FilesOf(c)]
                /\ Goto(h, "check")
                /\ UNCHANGED <<redo, conflict, rollback>>
    BY <1>2 DEF Find
  <2>2. PICK c \in (IF redo[h] THEN Redoable ELSE Undoable(named)) :
              /\ change' = [change EXCEPT ![h] = c]
              /\ todo' = [todo EXCEPT ![h] = FilesOf(c)]
              /\ pc' = [pc EXCEPT ![h] = "check"]
              /\ UNCHANGED <<redo, conflict, rollback>>
    BY <2>1 DEF Goto
  <2>3. c \in Nat
    <3>1. Redoable \subseteq Nat
      BY LenProperties DEF Redoable, UndoTypes
    <3>2. Undoable(named) \subseteq Nat
      BY DEF Undoable
    <3> QED
      BY <2>2, <3>1, <3>2
  <2>4. FilesOf(c) \in SUBSET Files
    BY FilesAreFiles
  <2>5. Typed /\ OthersStay(h)
    BY <2>2, <2>3, <2>4 DEF UndoTypes, Typed, OthersStay
  <2>6. change'[h] = c /\ todo'[h] = FilesOf(c) /\ pc'[h] = "check"
    BY <2>2 DEF UndoTypes
  <2> QED
    BY <2>1, <2>2, <2>5, <2>6 DEF Find
<1> QED
  BY <1>1, <1>2

LEMMA CheckFileMoves ==
    ASSUME UndoTypes, NEW h \in Requests, CheckFile(h)
    PROVE  /\ pc[h] = "check"
           /\ Typed /\ OthersStay(h)
           /\ \E f \in todo[h], bad \in BOOLEAN :
                 /\ bad = (conflict[h] \/ ~Fits(h, f))
                 /\ \/ /\ bad /\ todo[h] \ {f} = {}
                       /\ Over(h)
                    \/ /\ ~bad /\ todo[h] \ {f} = {}
                       /\ pc'[h] = "write" /\ todo'[h] = FilesOf(change[h])
                       /\ conflict'[h] = FALSE
                       /\ UNCHANGED <<redo, change, rollback>>
                    \/ /\ todo[h] \ {f} # {} /\ conflict'[h] = bad
                       /\ pc'[h] = "check" /\ todo'[h] = todo[h] \ {f}
                       /\ UNCHANGED <<redo, change, rollback>>
<1>1. pc[h] = "check"
  BY DEF CheckFile
<1>2. PICK f \in todo[h] :
        LET bad == conflict[h] \/ ~Fits(h, f)
            rest == todo[h] \ {f}
        IN IF bad /\ rest = {} THEN Answer(h)
           ELSE /\ conflict' = [conflict EXCEPT ![h] = bad]
                /\ todo' = [todo EXCEPT ![h] = IF rest = {} THEN FilesOf(change[h]) ELSE rest]
                /\ Goto(h, IF rest = {} THEN "write" ELSE "check")
                /\ UNCHANGED <<redo, change, rollback>>
  BY DEF CheckFile
<1> DEFINE bad == conflict[h] \/ ~Fits(h, f)
           rest == todo[h] \ {f}
<1>3. bad \in BOOLEAN
  OBVIOUS
<1>4. CASE bad /\ rest = {}
  <2>1. Answer(h)
    BY <1>2, <1>4
  <2> QED
    BY <1>1, <1>3, <1>4, <2>1, AnswerEnds
<1>5. CASE ~(bad /\ rest = {})
  <2>1. /\ conflict' = [conflict EXCEPT ![h] = bad]
        /\ todo' = [todo EXCEPT ![h] = IF rest = {} THEN FilesOf(change[h]) ELSE rest]
        /\ pc' = [pc EXCEPT ![h] = IF rest = {} THEN "write" ELSE "check"]
        /\ UNCHANGED <<redo, change, rollback>>
    BY <1>2, <1>5 DEF Goto
  <2>2. FilesOf(change[h]) \in SUBSET Files /\ rest \in SUBSET Files
    BY FilesAreFiles DEF UndoTypes
  <2> HIDE DEF bad, rest
  <2>3. Typed /\ OthersStay(h)
    BY <1>3, <2>1, <2>2 DEF UndoTypes, Typed, OthersStay
  <2>4. /\ conflict'[h] = bad
        /\ todo'[h] = (IF rest = {} THEN FilesOf(change[h]) ELSE rest)
        /\ pc'[h] = (IF rest = {} THEN "write" ELSE "check")
    BY <2>1 DEF UndoTypes
  <2>5. \/ rest # {} /\ conflict'[h] = bad /\ pc'[h] = "check" /\ todo'[h] = rest
        \/ /\ ~bad /\ rest = {} /\ pc'[h] = "write" /\ todo'[h] = FilesOf(change[h])
           /\ conflict'[h] = FALSE
    BY <1>3, <1>5, <2>4
  <2> QED
    BY <1>1, <1>3, <2>1, <2>3, <2>5 DEF bad, rest
<1> QED
  BY <1>4, <1>5

LEMMA WriteFileMoves ==
    ASSUME UndoTypes, NEW h \in Requests, WriteFile(h)
    PROVE  /\ pc[h] = "write"
           /\ Typed /\ OthersStay(h)
           /\ \E f \in todo[h] :
                 /\ disk' = [disk EXCEPT ![f] = Target(h, f)]
                 /\ \/ /\ todo[h] = {f} /\ rollback[h]
                       /\ Over(h)
                    \/ /\ pc'[h] = (IF todo[h] = {f} THEN "publish" ELSE "write")
                       /\ todo[h] = {f} => ~rollback[h]
                       /\ todo'[h] = todo[h] \ {f}
                       /\ UNCHANGED <<redo, change, conflict, rollback>>
<1>1. pc[h] = "write"
  BY DEF WriteFile
<1>2. PICK f \in todo[h] :
         /\ disk' = [disk EXCEPT ![f] = Target(h, f)]
         /\ IF todo[h] = {f} /\ rollback[h] THEN Answer(h)
            ELSE /\ todo' = [todo EXCEPT ![h] = @ \ {f}]
                 /\ Goto(h, IF todo[h] = {f} THEN "publish" ELSE "write")
                 /\ UNCHANGED <<redo, change, conflict, rollback>>
  BY DEF WriteFile
<1>3. CASE todo[h] = {f} /\ rollback[h]
  BY <1>1, <1>2, <1>3, AnswerEnds
<1>4. CASE ~(todo[h] = {f} /\ rollback[h])
  <2>1. /\ todo' = [todo EXCEPT ![h] = todo[h] \ {f}]
        /\ pc' = [pc EXCEPT ![h] = IF todo[h] = {f} THEN "publish" ELSE "write"]
        /\ UNCHANGED <<redo, change, conflict, rollback>>
    BY <1>2, <1>4 DEF Goto
  <2>2. todo[h] \ {f} \in SUBSET Files
    BY DEF UndoTypes
  <2>3. Typed /\ OthersStay(h)
    BY <2>1, <2>2 DEF UndoTypes, Typed, OthersStay
  <2>4. todo'[h] = todo[h] \ {f} /\ pc'[h] = (IF todo[h] = {f} THEN "publish" ELSE "write")
    BY <2>1 DEF UndoTypes
  <2> QED
    BY <1>1, <1>2, <1>4, <2>1, <2>3, <2>4
<1> QED
  BY <1>3, <1>4

LEMMA PublishFailsMoves ==
    ASSUME UndoTypes, NEW h \in Requests, PublishFails(h)
    PROVE  /\ pc[h] = "publish"
           /\ Typed /\ OthersStay(h)
           /\ pc'[h] = "check" /\ todo'[h] = FilesOf(change[h]) /\ rollback'[h] = TRUE
           /\ UNCHANGED <<redo, change, conflict>>
<1>1. /\ rollback' = [rollback EXCEPT ![h] = TRUE]
      /\ todo' = [todo EXCEPT ![h] = FilesOf(change[h])]
      /\ pc' = [pc EXCEPT ![h] = "check"]
      /\ UNCHANGED <<redo, change, conflict>> /\ pc[h] = "publish"
  BY DEF PublishFails, RollBack, Goto
<1>2. FilesOf(change[h]) \in SUBSET Files
  BY FilesAreFiles
<1> QED
  BY <1>1, <1>2 DEF UndoTypes, Typed, OthersStay

Recorded == [before |-> before, after |-> disk]
Changes == [before : States, after : States]
Events == [type : {"recorded", "reverted"}, change : Nat]

\* A step other than Find, and the marks it leaves.
Moves ==
    \/ RunBegins \/ RunEnds \/ ToolBegins \/ ToolWrites \/ ToolRecords \/ Edit \/ Crash
    \/ \E h \in Requests : HandlerStep(h)

LEMMA Steps ==
    ASSUME [UndoNext]_undoVars
    PROVE  \/ Moves /\ marks' = marks \union Marked
           \/ \E h \in Requests : Find(h)
           \/ UNCHANGED undoVars
BY DEF UndoNext, Moves

LEMMA ChangeIsKept ==
    ASSUME NEW S, NEW q \in Seq(S), NEW x \in S
    PROVE  /\ Append(q, x) \in Seq(S) /\ Len(q) \in Nat /\ Len(Append(q, x)) = Len(q) + 1
           /\ 1..Len(q) \subseteq 1..Len(Append(q, x))
           /\ \A i \in 1..Len(q) : Append(q, x)[i] = q[i]
           /\ Append(q, x)[Len(q) + 1] = x
<1>1. Len(q) \in Nat
  BY LenProperties
<1>2. /\ Append(q, x) \in Seq(S) /\ Len(Append(q, x)) = Len(q) + 1
      /\ \A i \in 1..Len(q) : Append(q, x)[i] = q[i]
      /\ Append(q, x)[Len(q) + 1] = x
  BY AppendProperties
<1> QED
  BY <1>1, <1>2

LEMMA ChangesGrow ==
    ASSUME UndoTypes, [UndoNext]_undoVars
    PROVE  /\ \/ changes' = changes
              \/ run = "written" /\ changes' = Append(changes, Recorded)
           /\ changes' \in Seq(Changes)
           /\ Len(changes) \in Nat /\ 1..Len(changes) \subseteq 1..Len(changes')
           /\ \A c \in 1..Len(changes) : changes'[c] = changes[c]
<1>1. changes' = changes \/ (run = "written" /\ changes' = Append(changes, Recorded))
  <2>1. CASE ToolRecords
    BY <2>1 DEF ToolRecords, Recorded
  <2>2. CASE RunBegins \/ RunEnds \/ ToolBegins \/ ToolWrites \/ Edit \/ Crash
    BY <2>2 DEF RunBegins, RunEnds, ToolBegins, ToolWrites, Edit, Crash, workspace
  <2>3. ASSUME NEW h \in Requests, HandlerStep(h) \/ Find(h) PROVE changes' = changes
    BY <2>3
       DEF HandlerStep, Find, CheckIdle, CheckFile, WriteFile, WriteFails, Publish, PublishFails,
         workspace
  <2>4. CASE UNCHANGED undoVars
    BY <2>4 DEF undoVars, workspace
  <2> QED
    BY <2>1, <2>2, <2>3, <2>4, Steps DEF Moves
<1>2. Recorded \in Changes
  BY DEF UndoTypes, Recorded, Changes
<1>3. changes \in Seq(Changes)
  BY DEF UndoTypes, Changes
<1> QED
  BY <1>1, <1>2, <1>3, ChangeIsKept, LenProperties

LEMMA ChangesTyped ==
    ASSUME UndoTypes, NEW c \in 1..Len(changes)
    PROVE  changes[c] \in Changes /\ changes[c].before \in States /\ changes[c].after \in States
<1>1. changes[c] \in Changes
  BY ElementOfSeq DEF UndoTypes, Changes
<1> QED
  BY <1>1 DEF Changes

LEMMA SameSides ==
    ASSUME UndoTypes, [UndoNext]_undoVars, NEW c \in 1..Len(changes)
    PROVE  FilesOf(c)' = FilesOf(c) /\ \A after, f : Side(c, after, f)' = Side(c, after, f)
BY ChangesGrow DEF FilesOf, Side

-----------------------------------------------------------------------------
\* The three ways in which the log, or what it tells, changes.
ToolTells ==
    /\ ToolRecords /\ before # disk
    /\ changes' = Append(changes, Recorded)
    /\ log' = Append1("recorded", Len(changes) + 1)
    /\ expect' = [f \in Files |-> IF before[f] # disk[f] THEN disk[f] ELSE expect[f]]
Tell(h) == (Publish(h) \/ PublishFails(h)) /\ Known(h)

LEMMA LogGrows ==
    ASSUME UndoTypes, [UndoNext]_undoVars
    PROVE  \/ ToolTells
           \/ \E h \in Requests : Tell(h)
           \/ Edit /\ log' = log
           \/ log' = log /\ expect' = expect
<1>1. CASE ToolRecords
  <2>1. CASE before = disk
    BY <1>1, <2>1 DEF ToolRecords
  <2>2. CASE before # disk
    <3>1. CASE UNCHANGED <<log, expect>>
      BY <3>1
    <3>2. CASE ~UNCHANGED <<log, expect>>
      BY <1>1, <2>2, <3>2 DEF ToolRecords, ToolTells, Recorded
    <3> QED
      BY <3>1, <3>2
  <2> QED
    BY <2>1, <2>2
<1>2. CASE RunBegins \/ RunEnds \/ ToolBegins \/ ToolWrites \/ Crash
  BY <1>2 DEF RunBegins, RunEnds, ToolBegins, ToolWrites, Crash, workspace
<1>3. CASE Edit
  BY <1>3 DEF Edit
<1>4. ASSUME NEW h \in Requests, HandlerStep(h) \/ Find(h)
      PROVE  Tell(h) \/ (log' = log /\ expect' = expect)
  <2>1. CASE CheckIdle(h) \/ CheckFile(h) \/ WriteFile(h) \/ WriteFails(h) \/ Find(h)
    BY <2>1 DEF CheckIdle, CheckFile, WriteFile, WriteFails, Find, workspace
  <2>2. CASE Publish(h)
    BY <2>2 DEF Tell, Publish
  <2>3. CASE PublishFails(h)
    BY <2>3 DEF Tell, PublishFails
  <2> QED
    BY <1>4, <2>1, <2>2, <2>3 DEF HandlerStep
<1>5. CASE UNCHANGED undoVars
  BY <1>5 DEF undoVars, workspace
<1> QED
  BY <1>1, <1>2, <1>3, <1>4, <1>5, Steps DEF Moves

LEMMA TellTyped ==
    ASSUME UndoTypes, HandlersInOrder, NEW h \in Requests, Tell(h)
    PROVE  /\ change[h] \in 1..Len(changes)
           /\ log' = Append(log, [type |-> IF redo[h] THEN "recorded" ELSE "reverted",
                                  change |-> change[h]])
           /\ [type |-> IF redo[h] THEN "recorded" ELSE "reverted", change |-> change[h]] \in Events
           /\ expect' \in States
<1>1. change[h] \in 1..Len(changes)
  BY DEF Tell, Publish, PublishFails, HandlersInOrder, Restoring, InFlight
<1>2. log' = Append(log, [type |-> IF redo[h] THEN "recorded" ELSE "reverted",
                          change |-> change[h]])
  BY DEF Tell, Known, Append1
<1>3. [type |-> IF redo[h] THEN "recorded" ELSE "reverted", change |-> change[h]] \in Events
  BY <1>1 DEF Events
<1>4. \A f \in Files : \A after : Side(change[h], after, f) \in Contents
  BY <1>1, ChangesTyped DEF Side, States
<1>5. expect' \in States
  BY <1>4 DEF Tell, Known, Told, States, UndoTypes
<1> QED
  BY <1>1, <1>2, <1>3, <1>5

LEMMA ToolTellsTyped ==
    ASSUME UndoTypes, ToolTells
    PROVE  /\ log' = Append(log, [type |-> "recorded", change |-> Len(changes) + 1])
           /\ [type |-> "recorded", change |-> Len(changes) + 1] \in Events
           /\ expect' \in States
           /\ Len(changes') = Len(changes) + 1 /\ changes'[Len(changes) + 1] = Recorded
<1>1. changes \in Seq(Changes) /\ Recorded \in Changes
  BY DEF UndoTypes, Changes, Recorded
<1>2. Len(changes) \in Nat /\ Len(changes') = Len(changes) + 1
      /\ changes'[Len(changes) + 1] = Recorded
  BY <1>1, ChangeIsKept DEF ToolTells
<1>3. expect' \in States
  BY DEF ToolTells, UndoTypes, States
<1> QED
  BY <1>2, <1>3 DEF ToolTells, Append1, Events

LEMMA DataTyped ==
    ASSUME UndoTypes, HandlersInOrder, [UndoNext]_undoVars
    PROVE  /\ disk' \in States /\ expect' \in States /\ before' \in States
           /\ log' \in Seq(Events) /\ run' \in {"idle", "running", "tool", "written"}
           /\ edits' \in Nat /\ faults' \in Nat /\ restarts' \in Nat
<1> DEFINE Writes == expect' \in States /\ log' \in Seq(Events)
           Rest == /\ disk' \in States /\ before' \in States
                   /\ run' \in {"idle", "running", "tool", "written"}
                   /\ edits' \in Nat /\ faults' \in Nat /\ restarts' \in Nat
<1>1. log \in Seq(Events) /\ disk \in States /\ expect \in States
  BY DEF UndoTypes, Events
<1>2. Nothing \in States
  BY DEF Nothing, States, Contents
<1>3. \A f \in Files, c \in Contents, d \in States : [d EXCEPT ![f] = c] \in States
  BY DEF States
<1>4. ASSUME Edit PROVE disk' \in States /\ expect' \in States
  <2>1. PICK f \in Files, c \in Contents :
           disk' = [disk EXCEPT ![f] = c] /\ expect' = [expect EXCEPT ![f] = c]
    BY <1>4 DEF Edit
  <2> QED
    BY <1>1, <1>3, <2>1
<1>5. Writes
  <2>1. CASE ToolTells
    BY <1>1, <2>1, ToolTellsTyped, ChangeIsKept
  <2>2. ASSUME NEW h \in Requests, Tell(h) PROVE Writes
    <3>1. PICK e \in Events : log' = Append(log, e)
      BY <2>2, TellTyped
    <3>2. expect' \in States
      BY <2>2, TellTyped
    <3> QED
      BY <1>1, <3>1, <3>2, AppendProperties
  <2>3. CASE Edit /\ log' = log
    <3>1. expect' \in States
      BY <1>4, <2>3
    <3> QED
      BY <1>1, <2>3, <3>1
  <2>4. CASE log' = log /\ expect' = expect
    BY <1>1, <2>4
  <2> QED
    BY <2>1, <2>2, <2>3, <2>4, LogGrows
<1> HIDE DEF Writes
<1>6. Rest
  <2>1. CASE RunBegins \/ RunEnds
    BY <1>1, <2>1 DEF RunBegins, RunEnds, UndoTypes, workspace, bounds
  <2>8. CASE ToolBegins \/ ToolWrites
    BY <1>1, <2>8 DEF ToolBegins, ToolWrites, UndoTypes, workspace, bounds
  <2>2. CASE ToolRecords
    <3>1. run' \in {"idle", "running"} /\ faults' \in {faults, faults + 1}
      BY <2>2 DEF ToolRecords
    <3> QED
      BY <1>1, <1>2, <2>2, <3>1 DEF ToolRecords, UndoTypes
  <2>3. CASE Edit
    <3>1. UNCHANGED <<run, before, faults, restarts>> /\ edits' = edits + 1
      BY <2>3 DEF Edit, attempt
    <3> QED
      BY <1>1, <1>4, <2>3, <3>1 DEF UndoTypes
  <2>4. CASE Crash
    BY <1>1, <1>2, <2>4 DEF Crash, UndoTypes, workspace
  <2>5. ASSUME NEW h \in Requests, WriteFile(h) PROVE Rest
    <3>1. PICK f \in todo[h] : disk' = [disk EXCEPT ![f] = Target(h, f)]
      BY <2>5, WriteFileMoves
    <3>2. f \in Files /\ change[h] \in 1..Len(changes)
      BY <2>5 DEF WriteFile, UndoTypes, HandlersInOrder, Restoring, InFlight
    <3>3. Target(h, f) \in Contents
      BY <3>2, ChangesTyped DEF Target, Side, States
    <3> QED
      BY <1>1, <1>3, <2>5, <3>1, <3>2, <3>3 DEF WriteFile, UndoTypes, attempt, bounds
  <2>6. ASSUME NEW h \in Requests, HandlerStep(h) \/ Find(h), ~WriteFile(h) PROVE Rest
    <3>1. UNCHANGED <<disk, attempt, edits, restarts>> /\ faults' \in {faults, faults + 1}
      BY <2>6 DEF HandlerStep, CheckIdle, CheckFile, WriteFails, Publish, PublishFails, Find,
           workspace, bounds
    <3> QED
      BY <1>1, <3>1 DEF UndoTypes, attempt
  <2>7. CASE UNCHANGED undoVars
    BY <1>1, <2>7 DEF undoVars, UndoTypes, workspace, attempt, bounds
  <2> QED
    BY <2>1, <2>2, <2>3, <2>4, <2>5, <2>6, <2>7, <2>8, Steps DEF Moves
<1> QED
  BY <1>5, <1>6 DEF Writes

\* Steps that are none of a handler's.
Elsewhere == RunBegins \/ RunEnds \/ ToolBegins \/ ToolWrites \/ ToolRecords \/ Edit

LEMMA HandlersStay ==
    ASSUME Elsewhere \/ UNCHANGED undoVars
    PROVE  UNCHANGED <<pc, redo, change, todo, conflict, rollback>>
BY DEF Elsewhere, RunBegins, RunEnds, ToolBegins, ToolWrites, ToolRecords, Edit, undoVars, handler

LEMMA AnyStep ==
    ASSUME [UndoNext]_undoVars
    PROVE  \/ Elsewhere
           \/ Crash
           \/ \E h \in Requests : CheckIdle(h) \/ Find(h) \/ CheckFile(h) \/ WriteFile(h)
           \/ \E h \in Requests : PublishFails(h)
           \/ \E h \in Requests : (WriteFails(h) \/ Publish(h)) /\ Answer(h)
           \/ UNCHANGED undoVars
BY Steps DEF Moves, HandlerStep, Elsewhere, WriteFails, Publish

LEMMA UndoTypesStep ==
    ASSUME UndoTypes, HandlersInOrder, [UndoNext]_undoVars
    PROVE  UndoTypes'
<1>1. Typed
  <2>1. CASE Elsewhere \/ UNCHANGED undoVars
    BY <2>1, HandlersStay DEF UndoTypes, Typed
  <2>2. CASE Crash
    BY <2>2 DEF Crash, Typed
  <2>3. ASSUME NEW h \in Requests, CheckIdle(h) \/ Find(h) \/ CheckFile(h) \/ WriteFile(h)
        PROVE  Typed
    BY <2>3, CheckIdleMoves, FindMoves, CheckFileMoves, WriteFileMoves
  <2>4. ASSUME NEW h \in Requests, PublishFails(h) PROVE Typed
    BY <2>4, PublishFailsMoves
  <2>5. ASSUME NEW h \in Requests, Answer(h) PROVE Typed
    BY <2>5, AnswerEnds
  <2> QED
    BY <2>1, <2>2, <2>3, <2>4, <2>5, AnyStep
<1>2. changes' \in Seq(Changes)
  BY ChangesGrow
<1> QED
  BY <1>1, <1>2, DataTyped DEF UndoTypes, Typed, Changes, Events

LEMMA EventsOfChanges ==
    ASSUME UndoTypes, HandlersInOrder, [UndoNext]_undoVars
    PROVE  \A i \in 1..Len(log') : log'[i].change \in 1..Len(changes')
<1>0. /\ log \in Seq(Events) /\ Len(changes) \in Nat /\ 1..Len(changes) \subseteq 1..Len(changes')
      /\ \A i \in 1..Len(log) : log[i].change \in 1..Len(changes')
  BY ChangesGrow DEF UndoTypes, HandlersInOrder, Events
<1>1. ASSUME NEW e \in Events, log' = Append(log, e), e.change \in 1..Len(changes')
      PROVE  \A i \in 1..Len(log') : log'[i].change \in 1..Len(changes')
  BY <1>0, <1>1, AppendProperties, LenProperties
<1>2. CASE ToolTells
  <2>1. Len(changes) + 1 \in 1..Len(changes')
    BY <1>0, <1>2, ToolTellsTyped
  <2> QED
    BY <1>1, <1>2, <2>1, ToolTellsTyped
<1>3. ASSUME NEW h \in Requests, Tell(h)
      PROVE  \A i \in 1..Len(log') : log'[i].change \in 1..Len(changes')
  BY <1>0, <1>1, <1>3, TellTyped
<1>4. CASE log' = log
  BY <1>0, <1>4
<1> QED
  BY <1>2, <1>3, <1>4, LogGrows

\* What is known of one handler.
KeepsOrder(h) ==
    /\ h \in Restoring => change[h] \in 1..Len(changes) /\ todo[h] \subseteq FilesOf(change[h])
    /\ rollback[h] => pc[h] \in {"check", "write"}
    /\ conflict[h] => pc[h] = "check"

LEMMA Undone ==
    /\ Redoable \subseteq 1..Len(changes)
    /\ \A named \in 0..Len(changes) : Undoable(named) \subseteq 1..Len(changes)
BY DEF Redoable, Undoable

LEMMA OrderKept ==
    ASSUME UndoTypes, HandlersInOrder, [UndoNext]_undoVars, NEW k \in Requests,
           UNCHANGED <<pc[k], change[k], todo[k], conflict[k], rollback[k]>>
    PROVE  KeepsOrder(k)'
<1>1. KeepsOrder(k)
  BY DEF HandlersInOrder, KeepsOrder
<1>2. k \in Restoring' => k \in Restoring
  BY DEF Restoring, InFlight
<1>3. change[k] \in 1..Len(changes) =>
         change[k] \in 1..Len(changes') /\ FilesOf(change[k])' = FilesOf(change[k])
  BY ChangesGrow, SameSides
<1> QED
  BY <1>1, <1>2, <1>3 DEF KeepsOrder

LEMMA HandlersInOrderStep ==
    ASSUME UndoTypes, HandlersInOrder, [UndoNext]_undoVars
    PROVE  HandlersInOrder'
<1>0. ASSUME \A k \in Requests : KeepsOrder(k)' PROVE HandlersInOrder'
  BY <1>0, EventsOfChanges DEF KeepsOrder, HandlersInOrder, Restoring, InFlight
<1>1. ASSUME NEW h \in Requests, OthersStay(h), KeepsOrder(h)' PROVE HandlersInOrder'
  <2>1. \A k \in Requests \ {h} : KeepsOrder(k)'
    BY <1>1, OrderKept DEF OthersStay
  <2> QED
    BY <1>0, <1>1, <2>1
<1>2. CASE Elsewhere \/ UNCHANGED undoVars
  <2>1. \A k \in Requests : KeepsOrder(k)'
    BY <1>2, HandlersStay, OrderKept
  <2> QED
    BY <1>0, <2>1
<1>3. CASE Crash
  <2>1. \A k \in Requests : KeepsOrder(k)'
    BY <1>3 DEF Crash, KeepsOrder, Restoring, InFlight
  <2> QED
    BY <1>0, <2>1
<1>4. ASSUME NEW h \in Requests, Answer(h) PROVE HandlersInOrder'
  <2>1. KeepsOrder(h)'
    BY <1>4, AnswerEnds DEF KeepsOrder, Restoring, InFlight, Over
  <2> QED
    BY <1>1, <1>4, <2>1, AnswerEnds
<1>5. ASSUME NEW h \in Requests PROVE KeepsOrder(h)
  BY DEF HandlersInOrder, KeepsOrder
<1>6. ASSUME NEW c \in 1..Len(changes) PROVE c \in 1..Len(changes') /\ FilesOf(c)' = FilesOf(c)
  BY ChangesGrow, SameSides
<1>7. ASSUME NEW h \in Requests, CheckIdle(h) PROVE HandlersInOrder'
  <2>1. KeepsOrder(h)'
    BY <1>5, <1>7, CheckIdleMoves DEF KeepsOrder, Restoring, InFlight, Over
  <2> QED
    BY <1>1, <1>7, <2>1, CheckIdleMoves
<1>8. ASSUME NEW h \in Requests, Find(h) PROVE HandlersInOrder'
  <2>1. ASSUME Over(h) PROVE KeepsOrder(h)'
    BY <2>1 DEF KeepsOrder, Restoring, InFlight, Over
  <2>2. ASSUME \E named \in 0..Len(changes) :
                  change'[h] \in (IF redo[h] THEN Redoable ELSE Undoable(named)),
               pc'[h] = "check" /\ todo'[h] = FilesOf(change'[h])
        PROVE  KeepsOrder(h)'
    <3>1. change'[h] \in 1..Len(changes)
      BY <2>2, Undone
    <3> QED
      BY <1>6, <2>2, <3>1 DEF KeepsOrder
  <2>3. KeepsOrder(h)'
    <3>1. CASE Over(h)
      BY <2>1, <3>1
    <3>2. CASE ~(Over(h))
      <4>1. \E named \in 0..Len(changes) :
               change'[h] \in (IF redo[h] THEN Redoable ELSE Undoable(named))
        BY <1>8, <3>2, FindMoves
      <4>2. pc'[h] = "check" /\ todo'[h] = FilesOf(change'[h])
        BY <1>8, <3>2, FindMoves
      <4> QED
        BY <2>2, <4>1, <4>2
    <3> QED
      BY <3>1, <3>2
  <2> QED
    BY <1>1, <1>8, <2>3, FindMoves
<1>9. ASSUME NEW h \in Requests, CheckFile(h) PROVE HandlersInOrder'
  <2>1. pc[h] = "check" /\ change[h] \in 1..Len(changes) /\ todo[h] \subseteq FilesOf(change[h])
    BY <1>5, <1>9, CheckFileMoves DEF KeepsOrder, Restoring, InFlight, Over
  <2>2. \/ Over(h)
        \/ /\ pc'[h] = "check" \/ (pc'[h] = "write" /\ conflict'[h] = FALSE)
           /\ change'[h] = change[h] /\ todo'[h] \subseteq FilesOf(change[h])
    BY <1>9, <2>1, CheckFileMoves
  <2>3. KeepsOrder(h)'
    BY <1>6, <2>1, <2>2 DEF KeepsOrder, Restoring, InFlight, Over
  <2> QED
    BY <1>1, <1>9, <2>3, CheckFileMoves
<1>10. ASSUME NEW h \in Requests, WriteFile(h) PROVE HandlersInOrder'
  <2>1. pc[h] = "write" /\ change[h] \in 1..Len(changes) /\ todo[h] \subseteq FilesOf(change[h])
    BY <1>5, <1>10, WriteFileMoves DEF KeepsOrder, Restoring, InFlight, Over
  <2>2. \/ Over(h)
        \/ /\ (pc'[h] = "write" \/ ~rollback'[h]) /\ ~conflict'[h]
           /\ change'[h] = change[h] /\ todo'[h] \subseteq FilesOf(change[h])
    BY <1>5, <1>10, <2>1, WriteFileMoves DEF KeepsOrder
  <2>3. KeepsOrder(h)'
    BY <1>6, <2>1, <2>2 DEF KeepsOrder, Restoring, InFlight, Over
  <2> QED
    BY <1>1, <1>10, <2>3, WriteFileMoves
<1>11. ASSUME NEW h \in Requests, PublishFails(h) PROVE HandlersInOrder'
  <2>1. pc[h] = "publish" /\ change[h] \in 1..Len(changes)
    BY <1>5, <1>11, PublishFailsMoves DEF KeepsOrder, Restoring, InFlight, Over
  <2>2. KeepsOrder(h)'
    BY <1>6, <1>11, <2>1, PublishFailsMoves DEF KeepsOrder, Restoring, InFlight, Over
  <2> QED
    BY <1>1, <1>11, <2>2, PublishFailsMoves
<1> QED
  BY <1>2, <1>3, <1>4, <1>7, <1>8, <1>9, <1>10, <1>11, AnyStep

-----------------------------------------------------------------------------
LEMMA OneOf ==
    ASSUME NEW S \in SUBSET Requests, ~(Cardinality(S) > 1), NEW x \in S, NEW y \in S
    PROVE  x = y
<1>1. IsFiniteSet(S)
  BY RequestsAssumption, FS_Subset
<1>2. Cardinality(S) \in Nat /\ Cardinality(S) # 0
  BY <1>1, FS_CardinalityType, FS_EmptySet
<1>3. Cardinality(S) = 1
  BY <1>2
<1> QED
  BY <1>1, <1>3, FS_Singleton

\* What a step does that is not marked.
LEMMA NoRace ==
    ASSUME UndoTypes, Moves, "race" \notin Marked
    PROVE  /\ \A h, k \in Restoring' : h = k
           /\ AtFiles' => Restoring' = {}
           /\ Edit => Restoring = {} /\ ~AtFiles
<1>1. /\ ~(Cardinality(Restoring') > 1)
      /\ ~(Restoring' # {} /\ AtFiles')
      /\ ~(Edited /\ (Restoring # {} \/ AtFiles))
  BY DEF Marked
<1>2. Restoring' \in SUBSET Requests
  BY DEF Restoring, InFlight
<1>3. Edit => Edited
  BY DEF Edit, Edited, UndoTypes
<1> QED
  BY <1>1, <1>2, <1>3, OneOf

\* What a tool or somebody else does to the files is marked.
LEMMA Noticed ==
    ASSUME UndoTypes, [UndoNext]_undoVars, ToolWrites \/ Edit
    PROVE  marks' = marks \union Marked
<1>1. ~UNCHANGED undoVars
  <2>1. UNCHANGED undoVars => run' = run /\ edits' = edits
    BY DEF undoVars, attempt, bounds
  <2> QED
    BY <2>1 DEF ToolWrites, Edit, UndoTypes
<1>2. ASSUME NEW h \in Requests, Find(h) PROVE FALSE
  <2>1. run' = run /\ edits' = edits
    BY <1>2 DEF Find, attempt, bounds
  <2> QED
    BY <2>1 DEF ToolWrites, Edit, UndoTypes
<1> QED
  BY <1>1, <1>2, Steps

LEMMA MarksStay == ASSUME [UndoNext]_undoVars PROVE marks \subseteq marks'
BY DEF UndoNext, undoVars, Find

LEMMA AloneStep ==
    ASSUME UndoTypes, HandlersInOrder, Alone, [UndoNext]_undoVars
    PROVE  Alone'
<1> SUFFICES ASSUME "race" \notin marks'
             PROVE  /\ \A h, k \in Restoring' : h = k \/ FreshAt(h)' \/ FreshAt(k)'
                    /\ AtFiles' => \A h \in Restoring' : FreshAt(h)'
  BY DEF Alone
<1>0. /\ \A h, k \in Restoring : h = k \/ FreshAt(h) \/ FreshAt(k)
      /\ AtFiles => \A h \in Restoring : FreshAt(h)
  BY MarksStay DEF Alone
<1>1. CASE Moves /\ marks' = marks \union Marked
  BY <1>1, NoRace
<1>2. ASSUME NEW h \in Requests, Find(h)
      PROVE  /\ \A g, k \in Restoring' : g = k \/ FreshAt(g)' \/ FreshAt(k)'
             /\ AtFiles' => \A g \in Restoring' : FreshAt(g)'
  <2>1. h \in Restoring' => FreshAt(h)'
    <3>1. CASE Over(h)
      BY <3>1 DEF Over, Restoring, InFlight
    <3>2. CASE ~Over(h)
      <4>1. /\ pc'[h] = "check" /\ todo'[h] = FilesOf(change'[h])
            /\ change'[h] \in 1..Len(changes) /\ rollback' = rollback /\ pc[h] = "find"
        BY <1>2, <3>2, FindMoves, Undone
      <4>2. ~rollback[h]
        BY <4>1 DEF HandlersInOrder
      <4> QED
        BY <4>1, <4>2, SameSides DEF FreshAt
    <3> QED
      BY <3>1, <3>2
  <2>2. \A k \in Restoring' \ {h} : k \in Restoring /\ (FreshAt(k) => FreshAt(k)')
    <3> SUFFICES ASSUME NEW k \in Restoring', k # h
                 PROVE  k \in Restoring /\ (FreshAt(k) => FreshAt(k)')
      OBVIOUS
    <3>1. k \in Requests \ {h}
      BY DEF Restoring, InFlight
    <3>2. pc'[k] = pc[k] /\ todo'[k] = todo[k] /\ change'[k] = change[k] /\ rollback'[k] = rollback[k]
      BY <1>2, <3>1, FindMoves DEF OthersStay
    <3>3. k \in Restoring
      BY <3>1, <3>2 DEF Restoring, InFlight
    <3>4. change[k] \in 1..Len(changes)
      BY <3>3 DEF HandlersInOrder
    <3>5. FilesOf(change[k])' = FilesOf(change[k])
      BY <3>2, <3>4, SameSides
    <3> QED
      BY <3>2, <3>3, <3>5 DEF FreshAt
  <2>3. AtFiles' => AtFiles
    BY <1>2 DEF Find, attempt, AtFiles
  <2> QED
    BY <1>0, <2>1, <2>2, <2>3
<1>3. CASE UNCHANGED undoVars
  <2>1. UNCHANGED <<pc, todo, change, rollback, run, changes>>
    BY <1>3 DEF undoVars, handler, attempt, workspace
  <2> QED
    BY <1>0, <2>1 DEF Restoring, InFlight, AtFiles, FreshAt, FilesOf
<1> QED
  BY <1>1, <1>2, <1>3, Steps

\* What a handler has found at the files.
LEMMA FitKept ==
    ASSUME UndoTypes, HandlersInOrder, [UndoNext]_undoVars, NEW h \in Requests, Fit(h),
           disk' = disk \/ pc[h] \notin {"check", "write"},
           UNCHANGED <<pc[h], redo[h], change[h], todo[h], conflict[h], rollback[h]>>
    PROVE  Fit(h)'
<1>1. CASE pc[h] \in {"check", "write"}
  <2>1. change[h] \in 1..Len(changes)
    BY <1>1 DEF HandlersInOrder, Restoring, InFlight
  <2>2. FilesOf(change[h])' = FilesOf(change[h]) /\ \A f : Current(h, f)' = Current(h, f)
    BY <2>1, SameSides DEF Current, UseAfter
  <2> QED
    BY <1>1, <2>2 DEF Fit
<1>2. CASE pc[h] \notin {"check", "write"}
  BY <1>2 DEF Fit
<1> QED
  BY <1>1, <1>2

LEMMA FittingStep ==
    ASSUME UndoTypes, HandlersInOrder, Alone, Fitting, [UndoNext]_undoVars
    PROVE  Fitting'
<1> SUFFICES ASSUME "race" \notin marks' PROVE \A k \in Requests : Fit(k)'
  BY DEF Fitting
<1>0. "race" \notin marks /\ \A k \in Requests : Fit(k)
  BY MarksStay DEF Fitting
<1>1. ASSUME NEW h \in Requests, OthersStay(h), disk' = disk, Fit(h)'
      PROVE  \A k \in Requests : Fit(k)'
  BY <1>0, <1>1, FitKept DEF OthersStay
<1>2. CASE Elsewhere \/ UNCHANGED undoVars
  <2>1. ASSUME disk' # disk PROVE Restoring = {}
    <3>1. CASE ToolWrites
      <4>1. Restoring' = {}
        BY <3>1, Noticed, NoRace DEF ToolWrites, AtFiles, Moves
      <4> QED
        BY <1>2, <4>1, HandlersStay DEF Restoring, InFlight
    <3>2. CASE Edit
      BY <3>2, Noticed, NoRace DEF Moves
    <3> QED
      BY <1>2, <2>1, <3>1, <3>2
         DEF Elsewhere, RunBegins, RunEnds, ToolBegins, ToolRecords, undoVars,
         workspace
  <2>2. \A k \in Requests : disk' = disk \/ pc[k] \notin {"check", "write"}
    BY <2>1 DEF Restoring, InFlight
  <2>3. \A k \in Requests :
           UNCHANGED <<pc[k], redo[k], change[k], todo[k], conflict[k], rollback[k]>>
    BY <1>2, HandlersStay
  <2> QED
    BY <1>0, <2>2, <2>3, FitKept
<1>3. CASE Crash
  <2>1. \A k \in Requests : pc'[k] = "new"
    BY <1>3 DEF Crash
  <2> QED
    BY <2>1 DEF Fit
<1>4. ASSUME NEW h \in Requests, OthersStay(h), disk' = disk, pc'[h] \notin {"check", "write"}
      PROVE  \A k \in Requests : Fit(k)'
  BY <1>1, <1>4 DEF Fit
<1>5. ASSUME NEW h \in Requests, CheckIdle(h) PROVE \A k \in Requests : Fit(k)'
  BY <1>4, <1>5, CheckIdleMoves DEF CheckIdle, workspace
<1>6. ASSUME NEW h \in Requests, (WriteFails(h) \/ Publish(h)) /\ Answer(h)
      PROVE  \A k \in Requests : Fit(k)'
  <2>1. disk' = disk
    BY <1>6 DEF WriteFails, Publish, workspace
  <2> QED
    BY <1>4, <1>6, <2>1, AnswerEnds DEF Over
<1>7. ASSUME NEW h \in Requests, PublishFails(h) PROVE \A k \in Requests : Fit(k)'
  <2>1. disk' = disk /\ change[h] \in 1..Len(changes)
    BY <1>7 DEF PublishFails, HandlersInOrder, Restoring, InFlight
  <2>2. Fit(h)'
    BY <1>7, <2>1, PublishFailsMoves, SameSides DEF Fit
  <2> QED
    BY <1>1, <1>7, <2>1, <2>2, PublishFailsMoves
<1>8. ASSUME NEW h \in Requests, Find(h) PROVE \A k \in Requests : Fit(k)'
  <2>1. disk' = disk
    BY <1>8 DEF Find, workspace
  <2>2. Fit(h)'
    <3>1. CASE Over(h)
      BY <3>1 DEF Over, Fit
    <3>2. CASE ~Over(h)
      <4>1. pc'[h] = "check" /\ todo'[h] = FilesOf(change'[h]) /\ change'[h] \in 1..Len(changes)
        BY <1>8, <3>2, FindMoves, Undone
      <4> QED
        BY <4>1, SameSides DEF Fit
    <3> QED
      BY <3>1, <3>2
  <2> QED
    BY <1>1, <1>8, <2>1, <2>2, FindMoves
<1>9. ASSUME NEW h \in Requests, CheckFile(h) PROVE \A k \in Requests : Fit(k)'
  <2>1. disk' = disk /\ change[h] \in 1..Len(changes) /\ pc[h] = "check" /\ Fit(h)
    BY <1>0, <1>9 DEF CheckFile, workspace, HandlersInOrder, Restoring, InFlight
  <2>2. Fit(h)'
    <3>1. CASE Over(h)
      BY <3>1 DEF Over, Fit
    <3>2. PICK f \in todo[h], bad \in BOOLEAN :
             /\ bad = (conflict[h] \/ ~Fits(h, f))
             /\ UNCHANGED <<redo[h], change[h], rollback[h]>> \/ Over(h)
             /\ \/ Over(h)
                \/ /\ ~bad /\ todo[h] \ {f} = {}
                   /\ pc'[h] = "write" /\ todo'[h] = FilesOf(change[h])
                \/ /\ conflict'[h] = bad
                   /\ pc'[h] = "check" /\ todo'[h] = todo[h] \ {f}
      BY <1>9, CheckFileMoves
    <3>3. CASE ~Over(h)
      <4>1. FilesOf(change[h])' = FilesOf(change[h]) /\ \A g : Current(h, g)' = Current(h, g)
        BY <2>1, <3>2, <3>3, SameSides DEF Current, UseAfter
      <4>2. ASSUME ~bad
            PROVE  \A g \in FilesOf(change[h]) \ (todo[h] \ {f}) : disk[g] = Current(h, g)
        BY <2>1, <3>2, <4>2 DEF Fit, Fits
      <4> QED
        BY <2>1, <3>2, <3>3, <4>1, <4>2 DEF Fit
    <3> QED
      BY <3>1, <3>3
  <2> QED
    BY <1>1, <1>9, <2>1, <2>2, CheckFileMoves
<1>10. ASSUME NEW h \in Requests, WriteFile(h) PROVE \A k \in Requests : Fit(k)'
  <2>0. PICK f \in todo[h] :
           /\ disk' = [disk EXCEPT ![f] = Target(h, f)]
           /\ \/ Over(h)
              \/ /\ pc'[h] \in {"write", "publish"} /\ todo'[h] = todo[h] \ {f}
                 /\ UNCHANGED <<redo, change, conflict, rollback>>
    BY <1>10, WriteFileMoves
  <2>1. pc[h] = "write" /\ change[h] \in 1..Len(changes) /\ Fit(h) /\ h \in Restoring
    BY <1>0, <1>10 DEF WriteFile, HandlersInOrder, Restoring, InFlight
  <2>2. Fit(h)'
    <3>1. CASE Over(h)
      BY <3>1 DEF Over, Fit
    <3>2. CASE ~Over(h)
      <4>1. \A g : Current(h, g)' = Current(h, g)
        BY <2>0, <2>1, <3>2, SameSides DEF Current, UseAfter
      <4>2. \A g \in todo'[h] : disk'[g] = disk[g]
        BY <2>0, <3>2 DEF UndoTypes, States
      <4> QED
        BY <2>0, <2>1, <3>2, <4>1, <4>2 DEF Fit
    <3> QED
      BY <3>1, <3>2
  <2>3. ASSUME NEW k \in Requests \ {h} PROVE Fit(k)'
    <3>0. UNCHANGED <<pc[k], redo[k], change[k], todo[k], conflict[k], rollback[k]>>
      BY <1>10, WriteFileMoves DEF OthersStay
    <3>1. CASE k \in Restoring
      <4>1. FreshAt(k)
        BY <1>0, <2>1, <3>1 DEF Alone, FreshAt
      <4>2. change[k] \in 1..Len(changes)
        BY <3>1 DEF HandlersInOrder
      <4>3. FilesOf(change[k])' = FilesOf(change[k])
        BY <3>0, <4>2, SameSides
      <4> QED
        BY <3>0, <4>1, <4>3 DEF FreshAt, Fit
    <3>2. CASE k \notin Restoring
      BY <3>0, <3>2 DEF Restoring, InFlight, Fit
    <3> QED
      BY <3>1, <3>2
  <2> QED
    BY <2>2, <2>3
<1> QED
  BY <1>2, <1>3, <1>5, <1>6, <1>7, <1>8, <1>9, <1>10, AnyStep

\* OverwritesOnlyRecorded: what a restore overwrites is what it has seen there, unless
\* somebody else came to the files meanwhile (restoreRecord).
LEMMA OverwritesStep ==
    ASSUME Fitting, [UndoNext]_undoVars
    PROVE  \A h \in Requests, f \in Files :
              /\ pc[h] = "write" /\ f \in todo[h] /\ disk'[f] # disk[f]
              /\ "race" \notin marks'
              => disk[f] = Current(h, f)
BY MarksStay DEF Fitting, Fit

-----------------------------------------------------------------------------
\* What a step leaves undone when it is not marked.
LEMMA NoMishap ==
    ASSUME UndoTypes, Moves,
           \A m \in {"partial", "stuck", "unsure", "unrecorded", "crash"} : m \notin Marked
    PROVE  /\ \A h \in Requests : ~(CutShort(h) /\ ~rollback[h])
           /\ \A h \in Restoring : ~(rollback[h] /\ (CutShort(h) \/ Refused(h)))
           /\ ~(Failed /\ log' # log)
           /\ ~(run = "written" /\ (Failed \/ run' = "idle") /\ log' = log)
           /\ ~(restarts' # restarts /\ Restoring # {})
BY DEF Marked

LEMMA Sides ==
    ASSUME UndoTypes, NEW h \in Requests, NEW f
    PROVE  /\ ~rollback[h] => /\ Target(h, f) = Side(change[h], redo[h], f)
                              /\ Current(h, f) = Side(change[h], ~redo[h], f)
           /\ rollback[h] => /\ Target(h, f) = Side(change[h], ~redo[h], f)
                             /\ Current(h, f) = Side(change[h], redo[h], f)
<1>1. redo[h] \in BOOLEAN /\ rollback[h] \in BOOLEAN
  BY DEF UndoTypes
<1>2. CASE redo[h] = TRUE /\ rollback[h] = TRUE
  BY <1>2 DEF Target, Current, UseAfter, Side
<1>3. CASE redo[h] = TRUE /\ rollback[h] = FALSE
  BY <1>3 DEF Target, Current, UseAfter, Side
<1>4. CASE redo[h] = FALSE /\ rollback[h] = TRUE
  BY <1>4 DEF Target, Current, UseAfter, Side
<1>5. CASE redo[h] = FALSE /\ rollback[h] = FALSE
  BY <1>5 DEF Target, Current, UseAfter, Side
<1> QED
  BY <1>1, <1>2, <1>3, <1>4, <1>5

\* Who has files in its hands is alone with them.
LEMMA LoneWorker ==
    ASSUME Alone, "race" \notin marks, NEW h \in Requests, AtWork(h)
    PROVE  ~AtFiles /\ \A k \in Requests \ {h} : ~AtWork(k)
<1>1. h \in Restoring /\ ~FreshAt(h)
  BY DEF AtWork, Restoring, InFlight, FreshAt
<1>2. \A k \in Requests : AtWork(k) => k \in Restoring /\ ~FreshAt(k)
  BY DEF AtWork, Restoring, InFlight, FreshAt
<1> QED
  BY <1>1, <1>2 DEF Alone

LEMMA WorkKept ==
    ASSUME UndoTypes, HandlersInOrder, [UndoNext]_undoVars, NEW k \in Requests,
           UNCHANGED <<pc[k], redo[k], change[k], todo[k], rollback[k]>>
    PROVE  /\ AtWork(k)' = AtWork(k)
           /\ AtWork(k) => FilesOf(change[k])' = FilesOf(change[k])
           /\ AtWork(k) /\ Partway(k) /\ disk' = disk /\ expect' = expect => Partway(k)'
<1>1. AtWork(k)' = AtWork(k)
  BY DEF AtWork
<1>2. ASSUME AtWork(k)
      PROVE  /\ FilesOf(change[k])' = FilesOf(change[k])
             /\ \A f, after : Side(change[k], after, f)' = Side(change[k], after, f)
             /\ \A f : Current(k, f)' = Current(k, f) /\ Target(k, f)' = Target(k, f)
  <2>1. change[k] \in 1..Len(changes)
    BY <1>2 DEF AtWork, HandlersInOrder, Restoring, InFlight
  <2> QED
    BY <2>1, SameSides DEF Current, Target, UseAfter
<1>3. ASSUME AtWork(k), Partway(k), disk' = disk, expect' = expect PROVE Partway(k)'
  BY <1>2, <1>3 DEF Partway
<1> QED
  BY <1>1, <1>2, <1>3

\* The files and what the log tells of them stay as they are.
LEMMA SameFiles ==
    ASSUME UndoTypes, HandlersInOrder, [UndoNext]_undoVars, TellsNow, UNCHANGED <<disk, expect, attempt>>,
           NEW h \in Requests, \A k \in Requests \ {h} :
              UNCHANGED <<pc[k], redo[k], change[k], todo[k], rollback[k]>>,
           AtWork(h) => AtWork(h)' /\ FilesOf(change[h])' = FilesOf(change[h]),
           AtWork(h)' => Partway(h)'
    PROVE  TellsNow'
<1>1. \A k \in Requests \ {h} :
         /\ AtWork(k)' = AtWork(k)
         /\ AtWork(k) => FilesOf(change[k])' = FilesOf(change[k])
         /\ AtWork(k) => Partway(k)'
  BY WorkKept DEF TellsNow
<1>2. \A k \in Requests : AtWork(k)' => Partway(k)'
  BY <1>1
<1>3. run # "written" =>
         \A f \in Files :
            disk[f] = expect[f] \/ \E k \in Requests : AtWork(k)' /\ f \in FilesOf(change[k])'
  BY <1>1 DEF TellsNow
<1>4. run' = run /\ before' = before
  BY DEF attempt
<1> QED
  BY <1>2, <1>3, <1>4 DEF TellsNow

LEMMA AllSame ==
    ASSUME UndoTypes, HandlersInOrder, [UndoNext]_undoVars, TellsNow, disk' = disk, expect' = expect,
           run' # "tool" \/ before' = disk, run' # "written", run # "written",
           UNCHANGED <<pc, redo, change, todo, rollback>>
    PROVE  TellsNow'
<1>1. \A k \in Requests : UNCHANGED <<pc[k], redo[k], change[k], todo[k], rollback[k]>>
  OBVIOUS
<1>2. \A k \in Requests :
         /\ AtWork(k)' = AtWork(k)
         /\ AtWork(k) => FilesOf(change[k])' = FilesOf(change[k])
         /\ AtWork(k) => Partway(k)'
  BY <1>1, WorkKept DEF TellsNow
<1>3. \A f \in Files :
         disk[f] = expect[f] \/ \E k \in Requests : AtWork(k)' /\ f \in FilesOf(change[k])'
  BY <1>2 DEF TellsNow
<1> QED
  BY <1>2, <1>3 DEF TellsNow

\* A step that leaves no mark that matters to the files.
Clean ==
    /\ UndoTypes /\ HandlersInOrder /\ Alone /\ Fitting /\ TellsNow /\ "race" \notin marks
    /\ Moves /\ marks' = marks \union Marked /\ Undisturbed'

LEMMA CleanStep ==
    ASSUME Clean
    PROVE  /\ [UndoNext]_undoVars
           /\ "race" \notin Marked
           /\ \A m \in {"partial", "stuck", "unsure", "unrecorded", "crash"} : m \notin Marked
BY DEF Clean, Moves, UndoNext, Undisturbed

\* Who is not among those at the files has none in its hands.
LEMMA NoWorker ==
    ASSUME NEW S, S = Restoring, S = {} \/ \A h \in S : FreshAt(h)
    PROVE  \A h \in Requests : ~AtWork(h)
BY DEF Restoring, InFlight, AtWork, FreshAt

LEMMA TellsToolWrites == ASSUME Clean, ToolWrites PROVE TellsNow'
<1>1. Restoring' = {}
  BY CleanStep, NoRace DEF Clean, ToolWrites, AtFiles
<1>2. UNCHANGED <<pc, redo, change, todo, conflict, rollback>>
  BY DEF ToolWrites, handler
<1>3. Restoring = {}
  BY <1>1, <1>2 DEF Restoring, InFlight
<1>4. \A h \in Requests : ~AtWork(h) /\ ~AtWork(h)'
  BY <1>2, <1>3 DEF Restoring, InFlight, AtWork
<1>5. \A f \in Files : disk[f] = expect[f]
  BY <1>4 DEF Clean, TellsNow, ToolWrites
<1>6. disk = expect
  BY <1>5 DEF Clean, UndoTypes, States
<1>7. before = disk
  BY DEF Clean, TellsNow, ToolWrites
<1> QED
  BY <1>4, <1>6, <1>7 DEF ToolWrites, TellsNow

LEMMA TellsToolRecords == ASSUME Clean, ToolRecords PROVE TellsNow'
<1>1. \A h \in Requests : ~AtWork(h)
  BY LoneWorker DEF Clean, ToolRecords, AtFiles
<1>2. UNCHANGED <<pc, redo, change, todo, conflict, rollback>> /\ disk' = disk
  BY DEF ToolRecords, handler
<1>3. \A h \in Requests : ~AtWork(h)'
  BY <1>1, <1>2 DEF AtWork
<1>4. ~(Failed /\ log' # log) /\ ~(run = "written" /\ (Failed \/ run' = "idle") /\ log' = log)
  BY CleanStep, NoMishap DEF Clean
<1>5. run = "written" /\ expect = before
  BY DEF Clean, TellsNow, ToolRecords
<1>6. run' = "running" /\ \A f \in Files : disk'[f] = expect'[f]
  <2>1. CASE before = disk
    BY <1>2, <1>5, <2>1 DEF ToolRecords
  <2>2. CASE before # disk
    <3>1. ~Failed
      BY <1>4, <1>5
    <3>2. faults' = faults
      BY <3>1 DEF Failed
    <3>3. faults' # faults + 1
      BY <3>2 DEF Clean, UndoTypes
    <3>4. /\ expect' = [f \in Files |-> IF before[f] # disk[f] THEN disk[f] ELSE expect[f]]
          /\ run' = "running"
      BY <2>2, <3>3 DEF ToolRecords
    <3> QED
      BY <1>2, <1>5, <3>4
  <2> QED
    BY <2>1, <2>2
<1> QED
  BY <1>3, <1>6 DEF TellsNow

LEMMA TellsEdit == ASSUME Clean, Edit PROVE TellsNow'
<1>1. Restoring = {} /\ ~AtFiles
  BY CleanStep, NoRace DEF Clean
<1>2. \A h \in Requests : ~AtWork(h)
  BY <1>1, NoWorker
<1>3. UNCHANGED <<pc, redo, change, todo, conflict, rollback>> /\ run' = run
  BY DEF Edit, handler, attempt
<1>4. \A h \in Requests : ~AtWork(h)'
  BY <1>2, <1>3 DEF AtWork
<1>5. run # "tool" /\ run # "written"
  BY <1>1 DEF AtFiles
<1>6. \A f \in Files : disk[f] = expect[f]
  BY <1>2, <1>5 DEF Clean, TellsNow
<1>7. \A f \in Files : disk'[f] = expect'[f]
  <2>1. PICK f \in Files, c \in Contents :
           disk' = [disk EXCEPT ![f] = c] /\ expect' = [expect EXCEPT ![f] = c]
    BY DEF Edit
  <2> QED
    BY <1>6, <2>1 DEF Clean, UndoTypes, States
<1> QED
  BY <1>3, <1>4, <1>5, <1>7 DEF TellsNow

LEMMA TellsCrash == ASSUME Clean, Crash PROVE TellsNow'
<1>1. restarts' # restarts
  BY DEF Clean, UndoTypes, Crash
<1>2. Restoring = {}
  BY <1>1, CleanStep, NoMishap DEF Clean
<1>3. run # "written"
  BY CleanStep, NoMishap DEF Clean, Crash, workspace
<1>4. \A h \in Requests : ~AtWork(h)
  BY <1>2, NoWorker
<1>5. \A h \in Requests : ~AtWork(h)'
  BY DEF Crash, AtWork
<1>6. \A f \in Files : disk[f] = expect[f]
  BY <1>3, <1>4 DEF Clean, TellsNow
<1> QED
  BY <1>5, <1>6 DEF TellsNow, Crash, workspace

LEMMA TellsUnchanged == ASSUME TellsNow, UNCHANGED undoVars PROVE TellsNow'
<1>1. UNCHANGED <<disk, expect, run, before, changes, pc, redo, change, todo, rollback>>
  BY DEF undoVars, workspace, attempt, handler
<1>2. \A h \in Requests :
         /\ AtWork(h)' = AtWork(h) /\ FilesOf(change[h])' = FilesOf(change[h])
         /\ Partway(h)' = Partway(h)
  BY <1>1 DEF AtWork, FilesOf, Partway, Side, Current, Target, UseAfter
<1> QED
  BY <1>1, <1>2 DEF TellsNow

LEMMA TellsRun ==
    ASSUME UndoTypes, HandlersInOrder, [UndoNext]_undoVars, TellsNow, RunBegins \/ RunEnds \/ ToolBegins
    PROVE  TellsNow'
<1>1. UNCHANGED <<pc, redo, change, todo, rollback, disk, expect>>
  BY DEF RunBegins, RunEnds, ToolBegins, workspace, handler
<1>2. run # "written" /\ run' # "written" /\ (run' # "tool" \/ before' = disk)
  BY DEF RunBegins, RunEnds, ToolBegins
<1> QED
  BY <1>1, <1>2, AllSame

\* A request that is taken, or chooses its change.
LEMMA TellsBegins ==
    ASSUME UndoTypes, HandlersInOrder, [UndoNext]_undoVars, TellsNow, NEW h \in Requests,
           CheckIdle(h) \/ Find(h)
    PROVE  TellsNow'
<1>1. UNCHANGED <<disk, expect, attempt>>
  BY DEF CheckIdle, Find, workspace
<1>2. OthersStay(h)
  BY CheckIdleMoves, FindMoves
<1>3. ~AtWork(h) /\ ~AtWork(h)'
  <2>1. CASE CheckIdle(h)
    BY <2>1, CheckIdleMoves DEF AtWork
  <2>2. CASE Find(h)
    <3>1. pc[h] = "find"
      BY <2>2, FindMoves
    <3>2. ~rollback[h]
      BY <3>1 DEF HandlersInOrder
    <3>3. CASE Over(h)
      BY <3>1, <3>3 DEF AtWork, Over
    <3>4. CASE pc'[h] = "check" /\ rollback' = rollback
      BY <3>1, <3>2, <3>4 DEF AtWork
    <3> QED
      BY <2>2, <3>3, <3>4, FindMoves
  <2> QED
    BY <2>1, <2>2
<1> QED
  BY <1>1, <1>2, <1>3, SameFiles DEF OthersStay

LEMMA TellsCheckFile == ASSUME Clean, NEW h \in Requests, CheckFile(h) PROVE TellsNow'
<1>1. UNCHANGED <<disk, expect, attempt>>
  BY DEF CheckFile, workspace
<1>2. pc[h] = "check" /\ OthersStay(h)
  BY CheckFileMoves DEF Clean
<1>3. h \in Restoring /\ change[h] \in 1..Len(changes)
  BY <1>2 DEF Clean, HandlersInOrder, Restoring, InFlight
<1>4. /\ FilesOf(change[h])' = FilesOf(change[h]) \/ change'[h] # change[h]
      /\ change'[h] = change[h] => \A after, f : Side(change[h], after, f)' = Side(change[h], after, f)
  <2>1. [UndoNext]_undoVars
    BY CleanStep
  <2>2. PICK c \in 1..Len(changes) : c = change[h]
    BY <1>3
  <2>3. FilesOf(c)' = FilesOf(c) /\ \A after, f : Side(c, after, f)' = Side(c, after, f)
    BY <2>1, SameSides DEF Clean
  <2>4. CASE change'[h] = c
    BY <2>2, <2>3, <2>4 DEF FilesOf, Side
  <2> QED
    BY <2>2, <2>4
<1>5. CASE Over(h)
  <2>1. ~rollback[h]
    <3>1. Ends(h)
      BY <1>2, <1>5 DEF Over, Ends
    <3> QED
      BY <1>2, <1>3, <3>1, CleanStep, NoMishap DEF Clean, Refused
  <2>2. ~AtWork(h) /\ ~AtWork(h)'
    BY <1>2, <1>5, <2>1 DEF AtWork, Over
  <2> QED
    BY <1>1, <1>2, <2>2, CleanStep, SameFiles DEF Clean, OthersStay
<1>6. ASSUME pc'[h] \in {"check", "write"}
      PROVE  /\ ~AtFiles /\ \A k \in Requests \ {h} : ~AtWork(k)
  <2>1. h \in Restoring'
    BY <1>6 DEF Restoring, InFlight
  <2>2. \A k \in Requests \ {h} : k \notin Restoring'
    BY <2>1, CleanStep, NoRace DEF Clean
  <2>3. \A k \in Requests \ {h} : pc'[k] = pc[k]
    BY <1>2 DEF OthersStay
  <2>4. \A k \in Requests \ {h} : ~AtWork(k)
    BY <2>2, <2>3 DEF Restoring, InFlight, AtWork
  <2>5. ~AtFiles'
    BY <2>1, CleanStep, NoRace DEF Clean
  <2> QED
    BY <1>1, <2>4, <2>5 DEF AtFiles, attempt
<1>7. ASSUME NEW f \in todo[h], ~(conflict[h] \/ ~Fits(h, f)), todo[h] \ {f} = {},
             pc'[h] = "write", todo'[h] = FilesOf(change[h]), UNCHANGED <<redo, change, rollback>>
      PROVE  TellsNow'
  <2>1. /\ FilesOf(change[h])' = FilesOf(change[h])
        /\ \A after, g : Side(change[h], after, g)' = Side(change[h], after, g)
    BY <1>4, <1>7
  <2>2. \A g \in FilesOf(change[h]) : disk[g] = Current(h, g)
    BY <1>2, <1>7 DEF Clean, Fitting, Fit, Fits
  <2>3. \A g \in FilesOf(change[h]) : expect[g] = Side(change[h], ~redo[h], g)
    <3>1. CASE rollback[h]
      BY <1>2, <3>1 DEF Clean, TellsNow, Partway, AtWork
    <3>2. CASE ~rollback[h]
      <4>1. ~AtWork(h)
        BY <1>2, <3>2 DEF AtWork
      <4>2. run # "written" /\ \A k \in Requests : ~AtWork(k)
        BY <1>6, <1>7, <4>1 DEF AtFiles
      <4>3. \A g \in Files : disk[g] = expect[g]
        BY <4>2 DEF Clean, TellsNow
      <4> QED
        BY <2>2, <3>2, <4>3, Sides DEF Clean, FilesOf
    <3> QED
      BY <3>1, <3>2
  <2>4. \A g : Current(h, g)' = Current(h, g)
    BY <1>7, <2>1 DEF Current, UseAfter
  <2>5. AtWork(h)' /\ Partway(h)'
    BY <1>1, <1>7, <2>1, <2>2, <2>3, <2>4 DEF AtWork, Partway
  <2> QED
    BY <1>1, <1>2, <2>1, <2>5, CleanStep, SameFiles DEF Clean, OthersStay
<1>8. ASSUME pc'[h] = "check", UNCHANGED <<redo, change, rollback>>
      PROVE  TellsNow'
  <2>1. /\ FilesOf(change[h])' = FilesOf(change[h])
        /\ \A after, g : Side(change[h], after, g)' = Side(change[h], after, g)
    BY <1>4, <1>8
  <2>2. AtWork(h)' = AtWork(h)
    BY <1>2, <1>8 DEF AtWork
  <2>3. AtWork(h) => Partway(h)
    BY DEF Clean, TellsNow
  <2>4. AtWork(h) => Partway(h)'
    BY <1>1, <1>2, <1>8, <2>1, <2>3 DEF Partway
  <2> QED
    BY <1>1, <1>2, <2>1, <2>2, <2>4, CleanStep, SameFiles DEF Clean, OthersStay
<1> QED
  BY <1>5, <1>7, <1>8, CheckFileMoves DEF Clean

\* What holds of a handler that has files in its hands.
LEMMA Worker ==
    ASSUME Clean, NEW h \in Requests, AtWork(h)
    PROVE  /\ run # "tool" /\ run # "written" /\ \A k \in Requests \ {h} : ~AtWork(k)
           /\ h \in Restoring /\ change[h] \in 1..Len(changes) /\ todo[h] \subseteq FilesOf(change[h])
           /\ FilesOf(change[h])' = FilesOf(change[h]) \/ change'[h] # change[h]
           /\ Partway(h)
           /\ \A f \in Files \ FilesOf(change[h]) : disk[f] = expect[f]
<1>1. ~AtFiles /\ \A k \in Requests \ {h} : ~AtWork(k)
  BY LoneWorker DEF Clean
<1>2. h \in Restoring
  BY DEF AtWork, Restoring, InFlight
<1>3. change[h] \in 1..Len(changes) /\ todo[h] \subseteq FilesOf(change[h])
  BY <1>2 DEF Clean, HandlersInOrder
<1>4. change'[h] = change[h] => FilesOf(change[h])' = FilesOf(change[h])
  <2>1. [UndoNext]_undoVars
    BY CleanStep
  <2> QED
    BY <1>3, <2>1, SameSides DEF Clean, FilesOf
<1>5. Partway(h)
  BY DEF Clean, TellsNow
<1>6. \A f \in Files \ FilesOf(change[h]) : disk[f] = expect[f]
  BY <1>1 DEF Clean, TellsNow, AtFiles
<1> QED
  BY <1>1, <1>2, <1>3, <1>4, <1>5, <1>6 DEF AtFiles

LEMMA TellsWriteFile == ASSUME Clean, NEW h \in Requests, WriteFile(h) PROVE TellsNow'
<1>1. pc[h] = "write" /\ OthersStay(h)
  BY WriteFileMoves DEF Clean
<1>2. AtWork(h)
  BY <1>1 DEF AtWork
<1>3. expect' = expect /\ run' = run
  BY DEF WriteFile, attempt
<1>4. PICK f \in todo[h] :
         /\ disk' = [disk EXCEPT ![f] = Target(h, f)]
         /\ \/ /\ todo[h] = {f} /\ rollback[h]
               /\ Over(h)
            \/ /\ pc'[h] = (IF todo[h] = {f} THEN "publish" ELSE "write")
               /\ todo[h] = {f} => ~rollback[h]
               /\ todo'[h] = todo[h] \ {f}
               /\ UNCHANGED <<redo, change, conflict, rollback>>
  BY WriteFileMoves DEF Clean
<1>5. \A k \in Requests \ {h} : ~AtWork(k)'
  BY <1>1, <1>2, Worker DEF OthersStay, AtWork
<1>6. /\ \A g \in FilesOf(change[h]) :
            disk'[g] = IF g \in todo[h] \ {f} THEN Current(h, g) ELSE Target(h, g)
      /\ \A g \in Files \ FilesOf(change[h]) : disk'[g] = expect'[g]
  <2>1. todo[h] \subseteq FilesOf(change[h]) /\ FilesOf(change[h]) \subseteq Files
    BY <1>2, Worker, FilesAreFiles
  <2>2. \A g \in Files : disk'[g] = IF g = f THEN Target(h, f) ELSE disk[g]
    BY <1>4 DEF Clean, UndoTypes, States
  <2>3. \A g \in FilesOf(change[h]) : disk[g] = IF g \in todo[h] THEN Current(h, g) ELSE Target(h, g)
    BY <1>1, <1>2, Worker DEF Partway
  <2>4. \A g \in Files \ FilesOf(change[h]) : disk[g] = expect[g]
    BY <1>2, Worker
  <2> QED
    BY <1>3, <2>1, <2>2, <2>3, <2>4
<1>7. CASE todo[h] = {f} /\ rollback[h] /\ Over(h)
  <2>1. \A k \in Requests : ~AtWork(k)'
    BY <1>5, <1>7 DEF Over, AtWork
  <2>2. \A g \in FilesOf(change[h]) : disk'[g] = expect'[g]
    BY <1>2, <1>3, <1>6, <1>7, Worker, Sides DEF Partway, Clean
  <2> QED
    BY <1>2, <1>3, <1>6, <2>1, <2>2, Worker DEF TellsNow
<1>8. ASSUME pc'[h] = (IF todo[h] = {f} THEN "publish" ELSE "write"), todo[h] = {f} => ~rollback[h],
             todo'[h] = todo[h] \ {f}, UNCHANGED <<redo, change, conflict, rollback>>
      PROVE  TellsNow'
  <2>1. AtWork(h)'
    BY <1>8 DEF AtWork
  <2>2. FilesOf(change[h])' = FilesOf(change[h])
    BY <1>2, <1>8, Worker
  <2>3. changes' = changes
    BY DEF WriteFile
  <2>4. \A g, after : Side(change[h], after, g)' = Side(change[h], after, g)
    BY <1>8, <2>3 DEF Side
  <2>5. \A g : Current(h, g)' = Current(h, g) /\ Target(h, g)' = Target(h, g)
    BY <1>8, <2>4 DEF Current, Target, UseAfter
  <2>6. \A g \in FilesOf(change[h]) : expect'[g] = Side(change[h], ~redo[h], g)
    BY <1>2, <1>3, Worker DEF Partway
  <2>7. pc'[h] # "write" =>
           \A g \in FilesOf(change[h]) : disk'[g] = Side(change[h], redo[h], g)
    BY <1>6, <1>8, Sides DEF Clean
  <2>8. Partway(h)'
    BY <1>6, <1>8, <2>2, <2>4, <2>5, <2>6, <2>7 DEF Partway
  <2>9. \A g \in Files : disk'[g] = expect'[g] \/ g \in FilesOf(change[h])'
    BY <1>6, <2>2
  <2> QED
    BY <1>2, <1>3, <1>5, <2>1, <2>8, <2>9, Worker DEF TellsNow
<1> QED
  BY <1>4, <1>7, <1>8

LEMMA NeverWriteFails == ASSUME Clean, NEW h \in Requests, WriteFails(h) PROVE FALSE
<1>1. pc[h] = "write" /\ Over(h)
  BY AnswerEnds DEF WriteFails, Clean
<1>2. h \in Restoring /\ Ends(h)
  BY <1>1 DEF Restoring, InFlight, Ends, Over
<1>3. Failed \/ \E f \in todo[h] : Obstructed(h, f)
  BY DEF WriteFails, Failed, Clean, UndoTypes
<1>4. CutShort(h)
  BY <1>1, <1>2, <1>3 DEF CutShort
<1> QED
  BY <1>2, <1>4, CleanStep, NoMishap DEF Clean

LEMMA TellsPublish == ASSUME Clean, NEW h \in Requests, Publish(h) PROVE TellsNow'
<1>1. pc[h] = "publish" /\ Over(h) /\ OthersStay(h)
  BY AnswerEnds DEF Publish, Clean
<1>2. AtWork(h)
  BY <1>1 DEF AtWork
<1>3. disk' = disk /\ run' = run
  BY DEF Publish, attempt
<1>4. \A k \in Requests : ~AtWork(k)'
  BY <1>1, <1>2, Worker DEF OthersStay, AtWork, Over
<1>5. expect' = Told(change[h], redo[h])
  BY DEF Publish, Known
<1>6. \A g \in FilesOf(change[h]) : disk[g] = Side(change[h], redo[h], g)
  BY <1>1, <1>2, Worker DEF Partway
<1>7. \A g \in Files : disk'[g] = expect'[g]
  BY <1>2, <1>3, <1>5, <1>6, Worker DEF Told
<1> QED
  BY <1>2, <1>3, <1>4, <1>7, Worker DEF TellsNow

LEMMA TellsPublishFails == ASSUME Clean, NEW h \in Requests, PublishFails(h) PROVE TellsNow'
<1>1. /\ pc[h] = "publish" /\ OthersStay(h)
      /\ pc'[h] = "check" /\ rollback'[h] = TRUE /\ UNCHANGED <<redo, change, conflict>>
  BY PublishFailsMoves DEF Clean
<1>2. AtWork(h) /\ AtWork(h)'
  BY <1>1 DEF AtWork
<1>3. UNCHANGED <<disk, attempt, changes>>
  BY DEF PublishFails
<1>4. expect' = expect
  <2>1. Failed
    BY DEF PublishFails, Failed, Clean, UndoTypes
  <2>2. log' = log
    BY <2>1, CleanStep, NoMishap DEF Clean
  <2>3. CASE Known(h)
    <3>1. log \in Seq(Events)
      BY DEF Clean, UndoTypes, Events
    <3>2. [type |-> IF redo[h] THEN "recorded" ELSE "reverted", change |-> change[h]] \in Events
      BY <1>2, Worker DEF Clean, UndoTypes, Events
    <3>3. Len(log') = Len(log) + 1 /\ Len(log) \in Nat
      BY <2>3, <3>1, <3>2, ChangeIsKept DEF Known, Append1
    <3> QED
      BY <2>2, <3>3
  <2> QED
    BY <2>3 DEF PublishFails
<1>5. FilesOf(change[h])' = FilesOf(change[h])
  BY <1>1, <1>2, Worker
<1>6. \A g, after : Side(change[h], after, g)' = Side(change[h], after, g)
  BY <1>1, <1>3 DEF Side
<1>7. Partway(h)'
  BY <1>1, <1>2, <1>3, <1>4, <1>5, <1>6, Worker DEF Partway
<1> QED
  BY <1>1, <1>2, <1>3, <1>4, <1>5, <1>7, CleanStep, SameFiles DEF Clean, OthersStay

LEMMA TellsStep ==
    ASSUME UndoTypes, HandlersInOrder, Alone, Fitting, Tells, [UndoNext]_undoVars
    PROVE  Tells'
<1> SUFFICES ASSUME Undisturbed' PROVE TellsNow'
  BY DEF Tells
<1>1. TellsNow /\ "race" \notin marks
  BY MarksStay DEF Tells, Undisturbed
<1>2. CASE UNCHANGED undoVars
  BY <1>1, <1>2, TellsUnchanged
<1>3. CASE \E h \in Requests : Find(h)
  BY <1>1, <1>3, TellsBegins
<1>4. CASE Moves /\ marks' = marks \union Marked
  <2>1. Clean
    BY <1>1, <1>4 DEF Clean
  <2>2. CASE RunBegins \/ RunEnds \/ ToolBegins
    BY <1>1, <2>2, TellsRun
  <2>3. CASE ToolWrites \/ ToolRecords \/ Edit \/ Crash
    BY <2>1, <2>3, TellsToolWrites, TellsToolRecords, TellsEdit, TellsCrash
  <2>4. ASSUME NEW h \in Requests, HandlerStep(h) PROVE TellsNow'
    BY <1>1, <2>1, <2>4, TellsBegins, TellsCheckFile, TellsWriteFile, NeverWriteFails, TellsPublish,
       TellsPublishFails DEF HandlerStep
  <2> QED
    BY <1>4, <2>2, <2>3, <2>4 DEF Moves
<1> QED
  BY <1>2, <1>3, <1>4, Steps

-----------------------------------------------------------------------------
\* Nobody is in flight beside another request or a run.
LEMMA NoOverlapStep ==
    ASSUME UndoTypes, NoOverlap, [UndoNext]_undoVars
    PROVE  NoOverlap'
<1> SUFFICES ASSUME "overlap" \notin marks'
             PROVE  /\ \A h, k \in InFlight' : h = k
                    /\ InFlight' # {} => run' = "idle"
  BY DEF NoOverlap
<1>1. (\A h, k \in InFlight : h = k) /\ (InFlight # {} => run = "idle")
  BY MarksStay DEF NoOverlap
<1>2. CASE Moves /\ marks' = marks \union Marked
  <2>1. "overlap" \notin Marked
    BY <1>2
  <2>2. ~(Cardinality(InFlight') > 1) /\ ~(InFlight' # {} /\ run' # "idle")
    BY <2>1 DEF Marked
  <2>3. InFlight' \in SUBSET Requests
    BY DEF InFlight
  <2> QED
    BY <2>2, <2>3, OneOf
<1>3. ASSUME NEW h \in Requests, Find(h)
      PROVE  InFlight' \subseteq InFlight /\ run' = run
  <2>1. pc[h] = "find" /\ \A k \in Requests \ {h} : pc'[k] = pc[k]
    BY <1>3, FindMoves DEF OthersStay
  <2> QED
    BY <1>3, <2>1 DEF InFlight, Find, attempt
<1>4. CASE UNCHANGED undoVars
  BY <1>1, <1>4 DEF undoVars, handler, attempt, InFlight
<1> QED
  BY <1>1, <1>2, <1>3, <1>4, Steps

LEMMA Latest ==
    ASSUME HasLast, NEW c \in Nat, LogsOf(c) # {}
    PROVE  Max(LogsOf(c)) \in LogsOf(c) /\ \A i \in LogsOf(c) : i <= Max(LogsOf(c))
<1>1. \E m \in LogsOf(c) : \A i \in LogsOf(c) : m >= i
  <2>1. \A i \in LogsOf(c) : i \in Nat
    BY DEF LogsOf
  <2> QED
    BY <2>1 DEF HasLast
<1>2. Max(LogsOf(c)) \in LogsOf(c) /\ \A i \in LogsOf(c) : Max(LogsOf(c)) >= i
  BY <1>1 DEF Max
<1>3. \A i \in LogsOf(c) : i \in Nat
  BY DEF LogsOf
<1> QED
  BY <1>2, <1>3

\* An event says of its change whether it is applied, and nothing of the others.
LEMMA Appended ==
    ASSUME UndoTypes, NEW e \in Events, log' = Append(log, e)
    PROVE  /\ LogsOf(e.change)' = LogsOf(e.change) \union {Len(log) + 1}
           /\ \A c : c # e.change => LogsOf(c)' = LogsOf(c)
           /\ \A i \in 1..Len(log) : log'[i] = log[i]
           /\ Len(log) \in Nat /\ Len(log') = Len(log) + 1 /\ log'[Len(log) + 1] = e
<1>1. log \in Seq(Events)
  BY DEF UndoTypes, Events
<1>2. /\ Len(log) \in Nat /\ Len(log') = Len(log) + 1
      /\ \A i \in 1..Len(log) : log'[i] = log[i]
      /\ log'[Len(log) + 1] = e
  BY <1>1, ChangeIsKept
<1>3. 1..Len(log') = 1..Len(log) \union {Len(log) + 1}
  BY <1>2
<1>4. Len(log) + 1 \notin 1..Len(log)
  BY <1>2
<1>5. \A c : LogsOf(c)' = LogsOf(c) \union {i \in {Len(log) + 1} : e.change = c}
  BY <1>2, <1>3, <1>4 DEF LogsOf
<1> QED
  BY <1>2, <1>5

LEMMA HasLastStep ==
    ASSUME UndoTypes, HandlersInOrder, HasLast, [UndoNext]_undoVars
    PROVE  HasLast'
<1>1. CASE log' = log
  BY <1>1 DEF HasLast, LogsOf
<1>2. ASSUME NEW e \in Events, log' = Append(log, e) PROVE HasLast'
  <2>1. \A i \in LogsOf(e.change)' : i <= Len(log) + 1
    BY <1>2, Appended DEF LogsOf
  <2>2. Len(log) + 1 \in LogsOf(e.change)'
    BY <1>2, Appended
  <2>3. \A c \in Nat : c # e.change => LogsOf(c)' = LogsOf(c)
    BY <1>2, Appended
  <2> QED
    BY <2>1, <2>2, <2>3 DEF HasLast
<1>3. CASE ToolTells
  BY <1>2, <1>3, ToolTellsTyped
<1>4. ASSUME NEW h \in Requests, Tell(h) PROVE HasLast'
  BY <1>2, <1>4, TellTyped
<1> QED
  BY <1>1, <1>3, <1>4, LogGrows

LEMMA AppliedAfter ==
    ASSUME UndoTypes, HasLast, HasLast', NEW e \in Events, log' = Append(log, e)
    PROVE  \A c \in Nat : Applied(c)' = (IF c = e.change THEN e.type = "recorded" ELSE Applied(c))
<1>1. e.change \in Nat
  BY DEF Events
<1>2. Applied(e.change)' = (e.type = "recorded")
  <2>1. LogsOf(e.change)' # {}
    BY Appended
  <2>2. /\ Max(LogsOf(e.change))' \in LogsOf(e.change)'
        /\ \A i \in LogsOf(e.change)' : i <= Max(LogsOf(e.change))'
    <3>1. \E m \in LogsOf(e.change)' : \A i \in LogsOf(e.change)' : m >= i
      <4>1. \A i \in LogsOf(e.change)' : i \in Nat
        BY DEF LogsOf
      <4> QED
        BY <1>1, <2>1, <4>1 DEF HasLast
    <3>2. /\ Max(LogsOf(e.change))' \in LogsOf(e.change)'
          /\ \A i \in LogsOf(e.change)' : Max(LogsOf(e.change))' >= i
      BY <3>1 DEF Max
    <3>3. \A i \in LogsOf(e.change)' : i \in Nat
      BY DEF LogsOf
    <3> QED
      BY <3>2, <3>3
  <2>3. Len(log) + 1 \in LogsOf(e.change)' /\ \A i \in LogsOf(e.change)' : i \in 1..(Len(log) + 1)
    BY Appended DEF LogsOf
  <2>4. Max(LogsOf(e.change))' = Len(log) + 1
    BY <2>2, <2>3, Appended
  <2> QED
    BY <2>1, <2>4, Appended DEF Applied
<1>3. ASSUME NEW c \in Nat, c # e.change PROVE Applied(c)' = Applied(c)
  <2>1. LogsOf(c)' = LogsOf(c)
    BY <1>3, Appended
  <2>2. CASE LogsOf(c) = {}
    BY <2>1, <2>2 DEF Applied
  <2>3. CASE LogsOf(c) # {}
    <3>1. Max(LogsOf(c)) \in 1..Len(log)
      BY <2>3, Latest DEF LogsOf
    <3>2. Max(LogsOf(c))' = Max(LogsOf(c))
      BY <2>1
    <3> QED
      BY <2>1, <3>1, <3>2, Appended DEF Applied
  <2> QED
    BY <2>2, <2>3
<1> QED
  BY <1>2, <1>3

\* Only recorded changes are applied.
LEMMA AppliedIsRecorded ==
    ASSUME HandlersInOrder, NEW c, Applied(c)
    PROVE  c \in 1..Len(changes)
BY DEF HandlersInOrder, Applied, LogsOf

LEMMA MoreChanges ==
    ASSUME UndoTypes, [UndoNext]_undoVars
    PROVE  /\ Len(changes) \in Nat /\ Len(changes') \in Nat /\ Len(changes) <= Len(changes')
           /\ \A c \in 1..Len(changes) : c \in 1..Len(changes') /\ changes'[c] = changes[c]
<1>1. changes \in Seq(Changes) /\ changes' \in Seq(Changes)
  BY ChangesGrow DEF UndoTypes, Changes
<1>2. Len(changes) \in Nat /\ Len(changes') \in Nat
  BY <1>1
<1>3. 1..Len(changes) \subseteq 1..Len(changes')
  BY ChangesGrow
<1>4. Len(changes) <= Len(changes')
  <2>1. CASE Len(changes) = 0
    BY <1>2, <2>1
  <2>2. CASE Len(changes) # 0
    <3>1. Len(changes) \in 1..Len(changes')
      BY <1>2, <1>3, <2>2
    <3> QED
      BY <1>2, <3>1
  <2> QED
    BY <2>1, <2>2
<1> QED
  BY <1>2, <1>3, <1>4, ChangesGrow

LEMMA StackKept ==
    ASSUME UndoTypes, HandlersInOrder, [UndoNext]_undoVars, StackNow, log' = log, expect' = expect
    PROVE  StackNow'
<1>1. \A c : Applied(c)' = Applied(c)
  BY DEF Applied, LogsOf
<1>2. \A c \in 1..Len(changes') : Top(c)' => Top(c)
  BY <1>1, MoreChanges, AppliedIsRecorded DEF Top
<1>3. Redoable' = Redoable
  <2>1. \A c \in Redoable' : c \in 1..Len(changes)
    <3>1. log # <<>> => Len(log) \in 1..Len(log)
      BY DEF UndoTypes
    <3>2. log # <<>> => log[Len(log)].change \in 1..Len(changes)
      BY <3>1 DEF HandlersInOrder
    <3> QED
      BY <3>2 DEF Redoable
  <2> QED
    BY <2>1, MoreChanges DEF Redoable
<1>4. \A c \in 1..Len(changes') : Top(c)' => expect' = changes'[c].after
  BY <1>2, MoreChanges DEF StackNow, Top
<1>5. \A c, d \in 1..Len(changes') :
          c < d /\ Applied(c)' /\ Applied(d)' /\ (\A e \in (c + 1)..(d - 1) : ~Applied(e)')
            => changes'[d].before = changes'[c].after
  BY <1>1, MoreChanges, AppliedIsRecorded DEF StackNow
<1>6. \A c \in Redoable' :
          expect' = changes'[c].before /\ \A d \in 1..Len(changes') : Applied(d)' => d < c
  <2>1. \A c \in Redoable : c \in 1..Len(changes)
    BY DEF Redoable
  <2> QED
    BY <1>1, <1>3, <2>1, MoreChanges, AppliedIsRecorded DEF StackNow
<1> QED
  BY <1>4, <1>5, <1>6 DEF StackNow

LEMMA StackToolTells ==
    ASSUME Clean, HasLast, HasLast', StackNow, ToolTells, NEW n, n = Len(changes) + 1
    PROVE  StackNow'
<1> DEFINE e == [type |-> "recorded", change |-> n]
<1>1. e \in Events /\ log' = Append(log, e) /\ changes'[n] = Recorded /\ Len(changes') = n
  BY ToolTellsTyped DEF Clean
<1>2. Len(changes) \in Nat /\ \A c \in 1..Len(changes) : changes'[c] = changes[c]
  BY CleanStep, MoreChanges DEF Clean
<1>3. Applied(n)' /\ \A c \in 1..Len(changes) : Applied(c)' = Applied(c)
  <2>1. e.change = n /\ e.type = "recorded"
    OBVIOUS
  <2> QED
    <3>1. UndoTypes
      BY DEF Clean
    <3>2. \A c \in Nat : Applied(c)' = (IF c = e.change THEN e.type = "recorded" ELSE Applied(c))
      BY <1>1, <3>1, AppliedAfter
    <3>3. n \in Nat /\ \A c \in 1..Len(changes) : c \in Nat /\ c # n
      BY <1>2
    <3>4. Applied(n)'
      BY <2>1, <3>2, <3>3
    <3> QED
      BY <2>1, <3>2, <3>3, <3>4
<1>4. expect = before /\ expect' = disk
  <2>1. expect = before
    BY DEF Clean, TellsNow, ToolTells, ToolRecords
  <2>2. expect' = [f \in Files |-> IF before[f] # disk[f] THEN disk[f] ELSE expect[f]]
    BY DEF ToolTells
  <2>3. disk \in States
    BY DEF Clean, UndoTypes
  <2> QED
    BY <2>1, <2>2, <2>3 DEF States
<1>5. \A c \in 1..Len(changes') : Top(c)' => expect' = changes'[c].after
  <2>1. \A c \in 1..Len(changes') : Top(c)' => c = n
    BY <1>1, <1>2, <1>3 DEF Top
  <2> QED
    BY <1>1, <1>4, <2>1 DEF Recorded
<1>6. \A c, d \in 1..Len(changes') :
          c < d /\ Applied(c)' /\ Applied(d)' /\ (\A i \in (c + 1)..(d - 1) : ~Applied(i)')
            => changes'[d].before = changes'[c].after
  <2> SUFFICES ASSUME NEW c \in 1..Len(changes'), NEW d \in 1..Len(changes'), c < d,
                      Applied(c)', Applied(d)', \A i \in (c + 1)..(d - 1) : ~Applied(i)'
               PROVE  changes'[d].before = changes'[c].after
    OBVIOUS
  <2>1. c \in 1..Len(changes)
    BY <1>1, <1>2
  <2>2. CASE d = n
    <3>1. Top(c)
      BY <1>2, <1>3, <2>1, <2>2 DEF Top
    <3> QED
      BY <1>1, <1>2, <1>4, <2>1, <2>2, <3>1 DEF StackNow, Recorded
  <2>3. CASE d \in 1..Len(changes)
    <3>1. \A i \in (c + 1)..(d - 1) : i \in 1..Len(changes)
      BY <1>2, <2>1, <2>3
    <3>2. \A i \in (c + 1)..(d - 1) : ~Applied(i)
      BY <1>3, <3>1
    <3>3. Applied(c) /\ Applied(d)
      BY <1>3, <2>1, <2>3
    <3>4. changes[d].before = changes[c].after
      BY <2>1, <2>3, <3>2, <3>3 DEF StackNow
    <3>5. changes'[d] = changes[d] /\ changes'[c] = changes[c]
      BY <1>2, <2>1, <2>3
    <3> QED
      BY <3>4, <3>5
  <2> QED
    BY <1>1, <1>2, <2>2, <2>3
<1>7. Redoable' = {}
  <2>1. log'[Len(log')] = e
    BY <1>1, Appended DEF Clean
  <2> QED
    BY <2>1 DEF Redoable
<1> QED
  BY <1>5, <1>6, <1>7 DEF StackNow

\* The files told by an undo or a redo of the change that is the next in turn.
LEMMA ToldSides ==
    ASSUME UndoTypes, NEW c \in 1..Len(changes)
    PROVE  /\ expect = changes[c].before => Told(c, TRUE) = changes[c].after
           /\ expect = changes[c].after => Told(c, FALSE) = changes[c].before
<1>1. changes[c].before \in [Files -> Contents] /\ changes[c].after \in [Files -> Contents]
  BY ChangesTyped DEF States
<1>2. ASSUME expect = changes[c].before PROVE Told(c, TRUE) = changes[c].after
  <2>1. \A f \in Files : Told(c, TRUE)[f] = changes[c].after[f]
    BY <1>2 DEF Told, FilesOf, Side
  <2> QED
    BY <1>1, <2>1 DEF Told
<1>3. ASSUME expect = changes[c].after PROVE Told(c, FALSE) = changes[c].before
  <2>1. \A f \in Files : Told(c, FALSE)[f] = changes[c].before[f]
    BY <1>3 DEF Told, FilesOf, Side
  <2> QED
    BY <1>1, <2>1 DEF Told
<1> QED
  BY <1>2, <1>3

LEMMA StackRedone ==
    ASSUME UndoTypes, HandlersInOrder, HasLast, HasLast', StackNow, NEW h \in Requests, Tell(h), redo[h],
           NEW c, c = change[h], c \in Redoable
    PROVE  StackNow'
<1> DEFINE e == [type |-> "recorded", change |-> c]
<1>1. c \in 1..Len(changes) /\ e \in Events /\ log' = Append(log, e)
  BY TellTyped
<1>2. changes' = changes /\ Len(changes) \in Nat
  BY DEF Tell, Publish, PublishFails, UndoTypes
<1>3. Applied(c)' /\ \A d \in 1..Len(changes) : d # c => Applied(d)' = Applied(d)
  <2>1. e.change = c /\ e.type = "recorded"
    OBVIOUS
  <2>2. \A d \in Nat : Applied(d)' = (IF d = e.change THEN e.type = "recorded" ELSE Applied(d))
    BY <1>1, AppliedAfter
  <2>3. c \in Nat /\ \A d \in 1..Len(changes) : d \in Nat
    BY <1>1, <1>2
  <2>4. Applied(c)'
    BY <2>1, <2>2, <2>3
  <2> QED
    BY <2>1, <2>2, <2>3, <2>4
<1>4. expect = changes[c].before /\ \A d \in 1..Len(changes) : Applied(d) => d < c
  BY DEF StackNow
<1>5. expect' = changes[c].after
  <2>1. expect' = Told(c, TRUE)
    BY DEF Tell, Known, UndoTypes
  <2> QED
    BY <1>1, <1>4, <2>1, ToldSides
<1>6. \A x \in 1..Len(changes') : Top(x)' => expect' = changes'[x].after
  <2>1. \A x \in 1..Len(changes') : Top(x)' => x = c
    BY <1>1, <1>2, <1>3, <1>4 DEF Top
  <2> QED
    BY <1>2, <1>5, <2>1
<1>7. \A x, d \in 1..Len(changes') :
          x < d /\ Applied(x)' /\ Applied(d)' /\ (\A i \in (x + 1)..(d - 1) : ~Applied(i)')
            => changes'[d].before = changes'[x].after
  <2> SUFFICES ASSUME NEW x \in 1..Len(changes), NEW d \in 1..Len(changes), x < d,
                      Applied(x)', Applied(d)', \A i \in (x + 1)..(d - 1) : ~Applied(i)'
               PROVE  changes[d].before = changes[x].after
    BY <1>2
  <2>1. x # c /\ Applied(x)
    BY <1>1, <1>3, <1>4
  <2>2. \A i \in (x + 1)..(d - 1) : ~Applied(i)
    BY <1>1, <1>2, <1>3, <1>4
  <2>3. CASE d = c
    <3>1. Top(x)
      BY <1>1, <1>2, <1>4, <2>1, <2>2, <2>3 DEF Top
    <3> QED
      BY <1>4, <2>3, <3>1 DEF StackNow
  <2>4. CASE d # c
    BY <1>3, <2>1, <2>2, <2>4 DEF StackNow
  <2> QED
    BY <2>3, <2>4
<1>8. Redoable' = {}
  <2>1. log'[Len(log')] = e
    BY <1>1, Appended
  <2> QED
    BY <2>1 DEF Redoable
<1> QED
  BY <1>6, <1>7, <1>8 DEF StackNow

LEMMA StackUndone ==
    ASSUME UndoTypes, HandlersInOrder, HasLast, HasLast', StackNow, NEW h \in Requests, Tell(h), ~redo[h],
           NEW c, c = change[h], c \in Undoable(0)
    PROVE  StackNow'
<1> DEFINE e == [type |-> "reverted", change |-> c]
<1>1. c \in 1..Len(changes) /\ e \in Events /\ log' = Append(log, e)
  BY TellTyped
<1>2. changes' = changes /\ Len(changes) \in Nat
  BY DEF Tell, Publish, PublishFails, UndoTypes
<1>3. ~Applied(c)' /\ \A d \in 1..Len(changes) : d # c => Applied(d)' = Applied(d)
  <2>1. e.change = c /\ e.type # "recorded"
    OBVIOUS
  <2>2. \A d \in Nat : Applied(d)' = (IF d = e.change THEN e.type = "recorded" ELSE Applied(d))
    BY <1>1, AppliedAfter
  <2>3. c \in Nat /\ \A d \in 1..Len(changes) : d \in Nat
    BY <1>1, <1>2
  <2>4. ~Applied(c)'
    BY <2>1, <2>2, <2>3
  <2> QED
    BY <2>1, <2>2, <2>3, <2>4
<1>4. Top(c) /\ Applied(c) /\ \A d \in 1..Len(changes) : Applied(d) => d <= c
  BY <1>1, <1>2 DEF Undoable, Top
<1>5. expect' = changes[c].before
  <2>1. expect' = Told(c, FALSE)
    BY DEF Tell, Known, UndoTypes
  <2>2. expect = changes[c].after
    BY <1>1, <1>4 DEF StackNow
  <2> QED
    BY <1>1, <2>1, <2>2, ToldSides
<1>6. \A x \in 1..Len(changes') : Top(x)' => expect' = changes'[x].after
  <2> SUFFICES ASSUME NEW x \in 1..Len(changes), Top(x)' PROVE changes[c].before = changes[x].after
    BY <1>2, <1>5
  <2>1. x < c /\ Applied(x)
    BY <1>1, <1>2, <1>3, <1>4 DEF Top
  <2>2. \A i \in (x + 1)..(c - 1) : ~Applied(i)
    BY <1>1, <1>2, <1>3 DEF Top
  <2> QED
    BY <1>1, <1>4, <2>1, <2>2 DEF StackNow
<1>7. \A x, d \in 1..Len(changes') :
          x < d /\ Applied(x)' /\ Applied(d)' /\ (\A i \in (x + 1)..(d - 1) : ~Applied(i)')
            => changes'[d].before = changes'[x].after
  <2> SUFFICES ASSUME NEW x \in 1..Len(changes), NEW d \in 1..Len(changes), x < d,
                      Applied(x)', Applied(d)', \A i \in (x + 1)..(d - 1) : ~Applied(i)'
               PROVE  changes[d].before = changes[x].after
    BY <1>2
  <2>1. Applied(x) /\ Applied(d) /\ d < c
    BY <1>1, <1>2, <1>3, <1>4
  <2>2. \A i \in (x + 1)..(d - 1) : ~Applied(i)
    BY <1>1, <1>2, <1>3, <2>1
  <2> QED
    BY <2>1, <2>2 DEF StackNow
<1>8. \A x \in Redoable' :
          expect' = changes'[x].before /\ \A d \in 1..Len(changes') : Applied(d)' => d < x
  <2>1. log'[Len(log')] = e
    BY <1>1, Appended
  <2>2. \A x \in Redoable' : x = c
    BY <2>1 DEF Redoable
  <2> QED
    BY <1>1, <1>2, <1>3, <1>4, <1>5, <2>2
<1> QED
  BY <1>6, <1>7, <1>8 DEF StackNow

-----------------------------------------------------------------------------
\* What can be said as long as there are no marks.
Faithful ==
    /\ UndoTypes /\ HandlersInOrder /\ Alone /\ Fitting /\ Tells /\ NoOverlap /\ HasLast

LEMMA NoMarks ==
    ASSUME Faithful, [UndoNext]_undoVars, marks' = {}
    PROVE  /\ marks = {} /\ TellsNow
           /\ \A h, k \in InFlight : h = k
           /\ InFlight # {} => run = "idle"
           /\ Moves /\ marks' = marks \union Marked => Clean
<1>1. marks = {}
  BY MarksStay
<1> QED
  BY <1>1 DEF Faithful, Tells, Undisturbed, NoOverlap, Clean

\* A step of whoever tells the log something is one that leaves its marks.
LEMMA TellIsMove ==
    ASSUME Faithful, [UndoNext]_undoVars, log' # log
    PROVE  Moves /\ marks' = marks \union Marked
<1>1. ~(\E h \in Requests : Find(h))
  BY DEF Find, workspace
<1>2. ~UNCHANGED undoVars
  BY DEF undoVars, workspace
<1> QED
  BY <1>1, <1>2, Steps

LEMMA LogIsLonger ==
    ASSUME UndoTypes, NEW e \in Events, log' = Append(log, e)
    PROVE  log' # log
BY Appended

LEMMA StackStep ==
    ASSUME Faithful, HasLast', Stack, Chosen, [UndoNext]_undoVars
    PROVE  Stack'
<1> SUFFICES ASSUME marks' = {} PROVE StackNow'
  BY DEF Stack
<1>1. marks = {} /\ UndoTypes /\ HandlersInOrder /\ HasLast
  BY NoMarks DEF Faithful
<1>2. StackNow
  BY <1>1 DEF Stack
<1>3. CASE log' = log /\ expect' = expect
  BY <1>1, <1>2, <1>3, StackKept
<1>4. CASE Edit
  <2>1. marks' = marks \union Marked
    BY <1>1, <1>4, Noticed
  <2>2. Edited
    BY <1>1, <1>4 DEF Edit, Edited, UndoTypes
  <2>3. "edit" \in Marked
    BY <2>2 DEF Marked
  <2> QED
    BY <2>1, <2>3
<1>5. CASE ToolTells
  <2>1. log' # log
    BY <1>1, <1>5, ToolTellsTyped, LogIsLonger
  <2>2. Clean
    BY <2>1, NoMarks, TellIsMove
  <2> QED
    BY <1>1, <1>2, <1>5, <2>2, StackToolTells
<1>6. ASSUME NEW h \in Requests, Tell(h) PROVE StackNow'
  <2>1. h \in Restoring
    BY <1>6 DEF Tell, Publish, PublishFails, Restoring, InFlight
  <2>2. change[h] \in (IF redo[h] THEN Redoable ELSE Undoable(0))
    BY <1>1, <2>1 DEF Chosen, InTurn
  <2>3. CASE redo[h]
    BY <1>1, <1>2, <1>6, <2>2, <2>3, StackRedone
  <2>4. CASE ~redo[h]
    BY <1>1, <1>2, <1>6, <2>2, <2>4, StackUndone
  <2> QED
    BY <2>3, <2>4
<1> QED
  BY <1>1, <1>3, <1>4, <1>5, <1>6, LogGrows

\* A handler that is with its files is the one there is, and the log and the changes
\* are those it has read.
LEMMA NothingNew ==
    ASSUME Faithful, [UndoNext]_undoVars, marks' = {}, NEW h \in InFlight, h \in Restoring'
    PROVE  log' = log /\ changes' = changes
<1>1. UndoTypes /\ HandlersInOrder /\ run = "idle" /\ \A k \in InFlight : k = h
  BY NoMarks DEF Faithful
<1>2. changes' = changes
  BY <1>1, ChangesGrow
<1>3. CASE log' # log
  <2>1. Clean
    BY <1>3, NoMarks, TellIsMove
  <2>2. ~ToolTells
    BY <1>1 DEF ToolTells, ToolRecords
  <2>3. PICK k \in Requests : Tell(k)
    BY <1>1, <1>3, <2>2, LogGrows
  <2>4. k = h
    BY <1>1, <2>3 DEF Tell, Publish, PublishFails, InFlight
  <2>5. CASE Publish(h)
    <3>1. Over(h)
      BY <1>1, <2>5, AnswerEnds DEF Publish, InFlight
    <3> QED
      BY <3>1 DEF Over, Restoring, InFlight
  <2>6. CASE PublishFails(h)
    <3>1. Failed
      BY <1>1, <2>6 DEF PublishFails, Failed, UndoTypes
    <3> QED
      BY <1>1, <1>3, <2>1, <3>1, CleanStep, NoMishap DEF Clean
  <2> QED
    BY <2>3, <2>4, <2>5, <2>6 DEF Tell
<1> QED
  BY <1>2, <1>3

LEMMA ChosenStep ==
    ASSUME Faithful, Chosen, [UndoNext]_undoVars
    PROVE  Chosen'
<1> SUFFICES ASSUME marks' = {}, NEW h \in Restoring'
             PROVE  InTurn(h)'
  BY DEF Chosen
<1>1. UndoTypes /\ HandlersInOrder /\ marks = {} /\ h \in Requests
  BY NoMarks DEF Faithful, Restoring, InFlight
<1>2. ASSUME h \in Restoring, change'[h] = change[h], redo'[h] = redo[h]
      PROVE  InTurn(h)'
  <2>1. log' = log /\ changes' = changes
    BY <1>2, NothingNew DEF Restoring
  <2>2. Redoable' = Redoable /\ Undoable(0)' = Undoable(0)
    BY <2>1 DEF Redoable, Undoable, Applied, LogsOf
  <2>3. InTurn(h)
    BY <1>1, <1>2 DEF Chosen
  <2> QED
    BY <1>2, <2>2, <2>3 DEF InTurn
<1>3. CASE Elsewhere \/ UNCHANGED undoVars
  BY <1>2, <1>3, HandlersStay DEF Restoring, InFlight
<1>4. CASE Crash
  BY <1>4 DEF Crash, Restoring, InFlight
<1>5. ASSUME NEW k \in Requests \ {h}, OthersStay(k)
      PROVE  InTurn(h)'
  BY <1>1, <1>2, <1>5 DEF OthersStay, Restoring, InFlight
<1>6. CASE CheckIdle(h)
  BY <1>1, <1>6, CheckIdleMoves DEF Restoring, InFlight
<1>7. CASE Find(h)
  <2>1. h \in InFlight
    BY <1>1, <1>7, FindMoves DEF InFlight
  <2>2. log' = log /\ changes' = changes
    BY <2>1, NothingNew
  <2>3. change'[h] \in (IF redo[h] THEN Redoable ELSE Undoable(0)) /\ redo' = redo
    <3>1. ~Over(h)
      BY DEF Over, Restoring, InFlight
    <3>2. PICK named \in 0..Len(changes) :
             /\ change'[h] \in (IF redo[h] THEN Redoable ELSE Undoable(named))
             /\ named # 0 => "named" \in marks'
      BY <1>1, <1>7, <3>1, FindMoves
    <3>3. redo' = redo
      BY <1>1, <1>7, <3>1, FindMoves
    <3> QED
      BY <3>2, <3>3
  <2> QED
    BY <2>2, <2>3 DEF InTurn, Redoable, Undoable, Applied, LogsOf
<1>8. CASE CheckFile(h)
  <2>1. h \in Restoring /\ UNCHANGED <<redo, change>>
    BY <1>1, <1>8, CheckFileMoves DEF Over, Restoring, InFlight
  <2> QED
    BY <1>2, <2>1
<1>9. CASE WriteFile(h)
  <2>1. h \in Restoring /\ UNCHANGED <<redo, change>>
    BY <1>1, <1>9, WriteFileMoves DEF Over, Restoring, InFlight
  <2> QED
    BY <1>2, <2>1
<1>10. CASE PublishFails(h)
  BY <1>1, <1>2, <1>10, PublishFailsMoves DEF Restoring, InFlight
<1>11. CASE Answer(h)
  BY <1>1, <1>11, AnswerEnds DEF Over, Restoring, InFlight
<1>12. ASSUME NEW k \in Requests, CheckIdle(k) \/ Find(k) \/ CheckFile(k) \/ WriteFile(k)
       PROVE  OthersStay(k)
  BY <1>1, <1>12, CheckIdleMoves, FindMoves, CheckFileMoves, WriteFileMoves
<1>13. ASSUME NEW k \in Requests, PublishFails(k) \/ Answer(k) PROVE OthersStay(k)
  BY <1>1, <1>13, PublishFailsMoves, AnswerEnds
<1>14. ASSUME NEW k \in Requests, CheckIdle(k) \/ Find(k) \/ CheckFile(k) \/ WriteFile(k)
                                  \/ PublishFails(k) \/ Answer(k)
       PROVE  InTurn(h)'
  <2>1. CASE k = h
    BY <1>14, <2>1, <1>6, <1>7, <1>8, <1>9, <1>10, <1>11
  <2>2. CASE k # h
    BY <1>14, <2>2, <1>5, <1>12, <1>13
  <2> QED
    BY <2>1, <2>2
<1> QED
  BY <1>3, <1>4, <1>14, AnyStep

\* The files of the change that is the next in turn are as its checkpoint says.
LEMMA OwnFilesFit ==
    ASSUME Faithful, Stack, Chosen, marks = {}, NEW h \in Requests, pc[h] = "check", ~rollback[h],
           NEW f \in todo[h]
    PROVE  disk[f] = Current(h, f)
<1>1. UndoTypes /\ HandlersInOrder /\ TellsNow /\ \A k, g \in InFlight : k = g
  BY DEF Faithful, Tells, Undisturbed, NoOverlap
<1>2. h \in Restoring /\ h \in InFlight /\ run = "idle"
  BY DEF Restoring, InFlight, Faithful, NoOverlap
<1>3. change[h] \in 1..Len(changes) /\ f \in Files
  BY <1>1, <1>2 DEF HandlersInOrder, FilesOf
<1>4. \A k \in Requests : ~AtWork(k)
  BY <1>1, <1>2 DEF AtWork, InFlight
<1>5. disk[f] = expect[f]
  BY <1>1, <1>2, <1>3, <1>4 DEF TellsNow
<1>6. change[h] \in (IF redo[h] THEN Redoable ELSE Undoable(0))
  BY <1>2 DEF Chosen, InTurn
<1>7. CASE redo[h]
  <2>1. expect = changes[change[h]].before
    BY <1>6, <1>7 DEF Stack, StackNow
  <2> QED
    BY <1>1, <1>5, <1>7, <2>1, Sides DEF Side
<1>8. CASE ~redo[h]
  <2>1. Top(change[h])
    BY <1>3, <1>6, <1>8 DEF Undoable, Top
  <2>2. expect = changes[change[h]].after
    BY <1>3, <2>1 DEF Stack, StackNow
  <2> QED
    BY <1>1, <1>5, <1>8, <2>2, Sides DEF Side
<1> QED
  BY <1>7, <1>8

-----------------------------------------------------------------------------
\* A file that a handler refuses, or has refused before, shows one that its change bars.
LEMMA RefusedFile ==
    ASSUME Faithful, Stack, Chosen, Conflicts, marks = {}, NEW h \in Requests, pc[h] = "check",
           ~rollback[h], NEW f \in todo[h], conflict[h] \/ ~Fits(h, f)
    PROVE  Barred(h)
<1>1. CASE conflict[h]
  BY <1>1 DEF Conflicts
<1>2. CASE ~Fits(h, f)
  <2>1. Irreversible(h, f)
    BY <1>2, OwnFilesFit DEF Fits
  <2>2. f \in FilesOf(change[h])
    BY DEF Faithful, HandlersInOrder, Restoring, InFlight
  <2> QED
    BY <2>1, <2>2 DEF Barred
<1> QED
  BY <1>1, <1>2

LEMMA BarredKept ==
    ASSUME UndoTypes, HandlersInOrder, [UndoNext]_undoVars, NEW h \in Restoring, Barred(h),
           UNCHANGED <<redo[h], change[h], rollback[h], hidden>>
    PROVE  Barred(h)'
<1>1. change[h] \in 1..Len(changes)
  BY DEF HandlersInOrder
<1>2. /\ FilesOf(change[h])' = FilesOf(change[h])
      /\ \A f : Target(h, f)' = Target(h, f)
  BY <1>1, SameSides DEF Target, UseAfter
<1> QED
  BY <1>2 DEF Barred, Irreversible

\* Nobody puts entries into a directory while a request is served.
LEMMA HiddenKept ==
    ASSUME Faithful, [UndoNext]_undoVars, marks' = {}, NEW h \in InFlight
    PROVE  hidden' = hidden
<1>1. UndoTypes /\ run = "idle"
  BY NoMarks DEF Faithful
<1>2. CASE ToolWrites
  BY <1>1, <1>2 DEF ToolWrites
<1>3. CASE Edit
  <2>1. "edit" \in Marked
    BY <1>1, <1>3 DEF Marked, Edited, Edit, UndoTypes
  <2> QED
    BY <1>1, <1>3, <2>1, Noticed
<1>4. CASE RunBegins \/ RunEnds \/ ToolBegins \/ ToolRecords
  BY <1>4 DEF RunBegins, RunEnds, ToolBegins, ToolRecords, workspace
<1>5. CASE Crash
  BY <1>5 DEF Crash, workspace
<1>6. CASE UNCHANGED undoVars
  BY <1>6 DEF undoVars, workspace
<1>7. ASSUME NEW k \in Requests, HandlerStep(k) \/ Find(k) PROVE hidden' = hidden
  BY <1>7 DEF HandlerStep, CheckIdle, Find, CheckFile, WriteFile, WriteFails, Publish, PublishFails,
       workspace
<1> QED
  BY <1>2, <1>3, <1>4, <1>5, <1>6, <1>7, Steps DEF Moves

LEMMA ConflictsStep ==
    ASSUME Faithful, Stack, Chosen, Conflicts, [UndoNext]_undoVars
    PROVE  Conflicts'
<1> SUFFICES ASSUME marks' = {}, NEW h \in Requests, pc'[h] = "check", ~rollback'[h], conflict'[h]
             PROVE  Barred(h)'
  BY DEF Conflicts
<1>1. UndoTypes /\ HandlersInOrder /\ marks = {}
  BY NoMarks DEF Faithful
<1>2. ASSUME UNCHANGED <<pc[h], redo[h], change[h], conflict[h], rollback[h]>> PROVE Barred(h)'
  <2>1. h \in Restoring /\ h \in InFlight /\ Barred(h)
    BY <1>1, <1>2 DEF Conflicts, Restoring, InFlight
  <2>2. hidden' = hidden
    BY <2>1, HiddenKept
  <2> QED
    BY <1>1, <1>2, <2>1, <2>2, BarredKept
<1>3. CASE Elsewhere \/ UNCHANGED undoVars
  BY <1>2, <1>3, HandlersStay
<1>4. CASE Crash
  BY <1>4 DEF Crash
<1>5. ASSUME NEW k \in Requests \ {h}, OthersStay(k) PROVE Barred(h)'
  BY <1>2, <1>5 DEF OthersStay
<1>6. CASE CheckIdle(h)
  BY <1>1, <1>6, CheckIdleMoves
<1>7. CASE Find(h)
  <2>1. pc[h] = "find" /\ ~conflict[h]
    BY <1>1, <1>7, FindMoves DEF HandlersInOrder
  <2> QED
    BY <1>1, <1>7, <2>1, FindMoves DEF Over
<1>8. CASE CheckFile(h)
  <2>1. h \in Restoring /\ pc[h] = "check"
    BY <1>1, <1>8, CheckFileMoves DEF Restoring, InFlight
  <2>2. UNCHANGED <<redo, change, rollback>>
    BY <1>1, <1>8, CheckFileMoves DEF Over
  <2>3. PICK f \in todo[h] : conflict[h] \/ ~Fits(h, f)
    BY <1>1, <1>8, CheckFileMoves DEF Over
  <2>4. Barred(h)
    BY <1>1, <2>1, <2>2, <2>3, RefusedFile
  <2>5. hidden' = hidden
    BY <2>1, HiddenKept DEF Restoring
  <2> QED
    BY <1>1, <2>1, <2>2, <2>4, <2>5, BarredKept
<1>9. CASE WriteFile(h)
  <2>1. pc[h] = "write" /\ ~conflict[h]
    BY <1>1, <1>9, WriteFileMoves DEF HandlersInOrder
  <2> QED
    BY <1>1, <1>9, <2>1, WriteFileMoves DEF Over
<1>10. CASE PublishFails(h)
  BY <1>1, <1>10, PublishFailsMoves
<1>11. CASE Answer(h)
  BY <1>1, <1>11, AnswerEnds DEF Over
<1>12. ASSUME NEW k \in Requests, CheckIdle(k) \/ Find(k) \/ CheckFile(k) \/ WriteFile(k)
       PROVE  OthersStay(k)
  BY <1>1, <1>12, CheckIdleMoves, FindMoves, CheckFileMoves, WriteFileMoves
<1>13. ASSUME NEW k \in Requests, PublishFails(k) \/ Answer(k) PROVE OthersStay(k)
  BY <1>1, <1>13, PublishFailsMoves, AnswerEnds
<1>14. ASSUME NEW k \in Requests, CheckIdle(k) \/ Find(k) \/ CheckFile(k) \/ WriteFile(k)
                                  \/ PublishFails(k) \/ Answer(k)
       PROVE  Barred(h)'
  <2>1. CASE k = h
    BY <1>14, <2>1, <1>6, <1>7, <1>8, <1>9, <1>10, <1>11
  <2>2. CASE k # h
    BY <1>14, <2>2, <1>5, <1>12, <1>13
  <2> QED
    BY <2>1, <2>2
<1> QED
  BY <1>3, <1>4, <1>14, AnyStep

\* Who is refused has met a conflict that is in the change: a restart or a failure would
\* be marked.
LEMMA RefusedForChange ==
    ASSUME Faithful, Stack, Chosen, Conflicts, [UndoNext]_undoVars
    PROVE  \A h \in Requests :
             pc[h] = "check" /\ Ends(h) /\ marks' = {}
             => \E f \in FilesOf(change[h]) : Irreversible(h, f)
<1> SUFFICES ASSUME NEW h \in Requests, pc[h] = "check", pc'[h] = "new", marks' = {}
             PROVE  Barred(h)
  BY DEF Ends, Barred
<1>1. UndoTypes /\ HandlersInOrder /\ marks = {} /\ h \in Restoring /\ Ends(h)
  BY NoMarks DEF Faithful, Restoring, InFlight, Ends
<1>2. CASE Elsewhere \/ UNCHANGED undoVars
  BY <1>2, HandlersStay
<1>3. CASE Crash
  <2>1. restarts' # restarts
    BY <1>1, <1>3 DEF Crash, UndoTypes
  <2>2. Clean
    <3>1. ~(\E k \in Requests : Find(k)) /\ ~UNCHANGED undoVars
      BY <2>1 DEF Find, undoVars, bounds
    <3> QED
      BY <3>1, NoMarks, Steps
  <2> QED
    BY <1>1, <2>1, <2>2, CleanStep, NoMishap DEF Clean
<1>4. CASE CheckFile(h)
  <2>1. PICK f \in todo[h] : conflict[h] \/ ~Fits(h, f)
    BY <1>1, <1>4, CheckFileMoves
  <2>2. CASE ~rollback[h]
    BY <1>1, <2>1, <2>2, RefusedFile
  <2>3. CASE rollback[h]
    <3>1. ~(\E k \in Requests : Find(k)) /\ ~UNCHANGED undoVars
      <4>1. ASSUME NEW k \in Requests, Find(k) PROVE FALSE
        <5>1. pc[k] = "find" /\ \A g \in Requests \ {k} : pc'[g] = pc[g]
          BY <1>1, <4>1, FindMoves DEF OthersStay
        <5> QED
          BY <5>1
      <4> QED
        BY <4>1 DEF undoVars, handler
    <3>2. Clean
      BY <3>1, NoMarks, Steps
    <3> QED
      BY <1>1, <2>3, <3>2, CleanStep, NoMishap DEF Clean, Refused
  <2> QED
    BY <2>2, <2>3
<1>5. ASSUME NEW k \in Requests \ {h}, OthersStay(k) PROVE FALSE
  BY <1>5 DEF OthersStay
<1>6. ASSUME NEW k \in Requests, CheckIdle(k) \/ Find(k) \/ WriteFile(k) \/ PublishFails(k)
                                 \/ WriteFails(k) \/ Publish(k)
      PROVE  k # h
  BY <1>1, <1>6, CheckIdleMoves, FindMoves, WriteFileMoves, PublishFailsMoves
     DEF WriteFails, Publish
<1>7. ASSUME NEW k \in Requests, CheckIdle(k) \/ Find(k) \/ CheckFile(k) \/ WriteFile(k)
                                 \/ PublishFails(k) \/ Answer(k)
      PROVE  OthersStay(k)
  BY <1>1, <1>7, CheckIdleMoves, FindMoves, CheckFileMoves, WriteFileMoves, PublishFailsMoves,
     AnswerEnds
<1> QED
  BY <1>2, <1>3, <1>4, <1>5, <1>6, <1>7, AnyStep

\* The inductive invariant.
UndoInv == Faithful /\ Stack /\ Chosen /\ Conflicts

LEMMA UndoInvInit == UndoInit => UndoInv
<1> SUFFICES ASSUME UndoInit PROVE UndoInv
  OBVIOUS
<1>1. Nothing \in States
  BY DEF Nothing, States, Contents
<1>2. UndoTypes
  BY <1>1 DEF UndoInit, UndoTypes
<1>3. log = <<>> /\ changes = <<>> /\ \A h \in Requests : pc[h] = "new" /\ ~rollback[h] /\ ~conflict[h]
  BY DEF UndoInit
<1>4. InFlight = {} /\ Restoring = {} /\ \A c : LogsOf(c) = {} /\ ~Applied(c)
  BY <1>3 DEF InFlight, Restoring, LogsOf, Applied
<1>5. HandlersInOrder /\ Alone /\ Fitting /\ NoOverlap /\ HasLast
  <2>1. HandlersInOrder
    BY <1>3, <1>4 DEF HandlersInOrder
  <2>2. Fitting
    BY <1>3 DEF Fitting, Fit
  <2>3. Alone /\ NoOverlap /\ HasLast
    BY <1>4 DEF Alone, NoOverlap, HasLast
  <2> QED
    BY <2>1, <2>2, <2>3
<1>6. Tells
  BY <1>3 DEF UndoInit, Tells, TellsNow, AtWork
<1>7. Stack /\ Chosen /\ Conflicts
  BY <1>3, <1>4 DEF Stack, StackNow, Chosen, Conflicts, Top, Redoable
<1> QED
  BY <1>2, <1>5, <1>6, <1>7 DEF UndoInv, Faithful

LEMMA UndoInvStep == UndoInv /\ [UndoNext]_undoVars => UndoInv'
<1> SUFFICES ASSUME UndoInv, [UndoNext]_undoVars PROVE UndoInv'
  OBVIOUS
<1>1. HasLast' /\ Faithful'
  BY UndoTypesStep, HandlersInOrderStep, AloneStep, FittingStep, TellsStep, NoOverlapStep, HasLastStep
     DEF UndoInv, Faithful
<1> QED
  BY <1>1, StackStep, ChosenStep, ConflictsStep DEF UndoInv

LEMMA UndoInvariant == UndoSpec => []UndoInv
BY UndoInvInit, UndoInvStep, PTL DEF UndoSpec

\* LogTellsTheFiles, for any files, contents, requests and bounds: when no request and no
\* run is under way, the files are what the log tells, through any sequence of tool
\* attempts, undos, redos, conflicts and rollbacks that is not marked (restoreRecord,
\* handleSessionUndo, handleSessionRedo, recordTurnChange).
THEOREM FilesAreAsTold == UndoSpec => []LogTellsTheFiles
<1>1. UndoInv => LogTellsTheFiles
  <2> SUFFICES ASSUME UndoInv, Quiet, marks \subseteq {"edit", "named", "overlap"}
               PROVE  disk = expect
    BY DEF LogTellsTheFiles
  <2>1. UndoTypes /\ TellsNow
    BY DEF UndoInv, Faithful, Tells, Undisturbed
  <2>2. \A h \in Requests : ~AtWork(h)
    BY DEF Quiet, InFlight, AtWork
  <2>3. \A f \in Files : disk[f] = expect[f]
    BY <2>1, <2>2 DEF TellsNow, Quiet
  <2> QED
    BY <2>1, <2>3 DEF UndoTypes, States
<1> QED
  BY <1>1, UndoInvariant, PTL

\* OverwritesOnlyRecorded: a restore that is alone at the files writes over a file only
\* what its checkpoint has recorded (restoreConflicts before restoreOne, in both
\* directions).
THEOREM RestoreKeepsEdits == UndoSpec => OverwritesOnlyRecorded
<1>1. UndoInv /\ [UndoNext]_undoVars =>
         [\A h \in Requests, f \in Files :
            /\ pc[h] = "write" /\ f \in todo[h] /\ disk'[f] # disk[f]
            /\ "race" \notin marks'
            => disk[f] = Current(h, f)]_undoVars
  BY OverwritesStep DEF UndoInv, Faithful
<1> QED
  BY <1>1, UndoInvariant, PTL DEF UndoSpec, OverwritesOnlyRecorded

\* OwnUndoNeverConflicts: a session that undoes its last change, or redoes what it undid,
\* and has had nothing marked before, is refused only for what the change itself holds:
\* contents that the checkpoint has not kept, a path that is neither a file nor a
\* directory, or a directory with entries the change does not name
\* (FindUndoableTurnChange, FindRedoTurnChange, restoreConflicts).
THEOREM OwnUndoIsNeverRefused == UndoSpec => OwnUndoNeverConflicts
<1>1. UndoInv /\ [UndoNext]_undoVars =>
         [\A h \in Requests :
             pc[h] = "check" /\ Ends(h) /\ marks' = {}
             => \E f \in FilesOf(change[h]) : Irreversible(h, f)]_undoVars
  BY RefusedForChange DEF UndoInv
<1> QED
  BY <1>1, UndoInvariant, PTL DEF UndoSpec, OwnUndoNeverConflicts
=============================================================================
