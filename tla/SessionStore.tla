----------------------------- MODULE SessionStore -----------------------------
(***************************************************************************)
(* One session in the session store (session_store.go): history.jsonl with *)
(* a full transcript per record, events.jsonl, and manifest.json, which    *)
(* says how far both go.  Save and AppendEvent run one at a time under     *)
(* sessionStore.mu, but each writes a JSONL record first and the manifest  *)
(* after it; the gateway may die, and a write may fail, in between.        *)
(***************************************************************************)
EXTENDS Naturals, Sequences, SequencesExt

CONSTANTS
    Transcripts,    \* the transcripts a session may have, as their hashes tell them apart
    Start,          \* the one it is created with
    Appends,        \* what AppendJSONL may do: "ok", "refused", "unsure", "torn"
    Windows,        \* the operations that may be cut short before their manifest
    MaxRecords,     \* bound: records in either file, and their numbers
    MaxCrashes      \* bound: restarts

ASSUME StartAssumption == Start \in Transcripts
ASSUME AppendsAssumption ==
    "ok" \in Appends /\ Appends \subseteq {"ok", "refused", "unsure", "torn"}
ASSUME WindowsAssumption == Windows \subseteq {"save", "append"}

VARIABLES
    messages,   \* the session's transcript in memory
    history,    \* history.jsonl: [seq, messages] records
    events,     \* events.jsonl: the records' sequence numbers
    torn,       \* the files with a line that was written in part
    manifest,   \* manifest.json
    eventState, \* sessionStore.eventState: the last sequence number, or 0 for none yet
    op,         \* the operation that is past its JSONL record
    loaded,     \* FALSE when a restart could not load the session
    crashes,
    \* history
    saved,      \* the transcript of the last Save that returned without an error
    begun,      \* those of the saves begun since
    published,  \* the last event sequence number that AppendEvent has returned
    slipped     \* a record is on disk that the numbering does not count: in part, with
                \* an error after it, or without the manifest of its save

files == <<history, events, torn, manifest>>
vars == <<messages, history, events, torn, manifest, eventState, op, loaded, crashes,
          saved, begun, published, slipped>>

Idle == [kind |-> "idle"]

-----------------------------------------------------------------------------
\* A session that has been created, saved once and given to its client.
Init == /\ messages = Start
        /\ history = <<[seq |-> 1, messages |-> Start]>> /\ events = <<>> /\ torn = {}
        /\ manifest = [historySeq |-> 1, hash |-> Start, eventSeq |-> 0]
        /\ eventState = 0 /\ op = Idle /\ loaded = TRUE /\ crashes = 0
        /\ saved = Start /\ begun = {} /\ published = 0 /\ slipped = FALSE

\* A run ends and leaves another transcript; an operation holds on to the one it
\* has read.
ChangeTranscript ==
    /\ loaded
    /\ messages' \in Transcripts \ {messages}
    /\ UNCHANGED <<files, eventState, op, loaded, crashes, saved, begun, published, slipped>>

\* eventlog.AppendJSONL: "unsure" is a record written, and an error after it.
AppendJSONL(file, records, record, how) ==
    /\ how \in Appends
    /\ torn' = IF how = "torn" THEN torn \union {file} ELSE torn
    /\ records' = IF how \in {"ok", "unsure"} /\ file \notin torn
                  THEN Append(records, record) ELSE records
    /\ slipped' = (slipped \/ how \in {"unsure", "torn"})

\* What the replays of the two files require: whole lines, numbered from one.
InOrder(seqs) == \A i \in 1..Len(seqs) : seqs[i] = i
EventsReadable == InOrder(events) /\ "events" \notin torn
HistoryReadable == InOrder([i \in 1..Len(history) |-> history[i].seq]) /\ "history" \notin torn

\* The number of the next history record: one above the manifest's.
NextHistorySeq == manifest.historySeq + 1

\* saveLocked up to the manifest: a record when the manifest's hash is not that
\* of the transcript.
SaveHistory ==
    LET seq == NextHistorySeq
    IN  /\ loaded /\ op = Idle /\ Len(history) < MaxRecords /\ seq <= MaxRecords
        /\ begun' = begun \union {messages}
        /\ \/ /\ manifest.hash # messages
              /\ \E how \in Appends :
                   /\ AppendJSONL("history", history, [seq |-> seq, messages |-> messages], how)
                   /\ op' = IF how = "ok"
                            THEN [kind |-> "save", messages |-> messages, seq |-> seq]
                            ELSE Idle
           \/ /\ manifest.hash = messages
              /\ op' = [kind |-> "save", messages |-> messages, seq |-> manifest.historySeq]
              /\ UNCHANGED <<history, torn, slipped>>
        /\ UNCHANGED <<messages, events, manifest, eventState, loaded, crashes, saved,
                       published>>

\* Mutant: a manifest that keeps the old hash.
ManifestOldHash == [historySeq |-> op.seq, hash |-> manifest.hash, eventSeq |-> eventState]

\* The event sequence in memory, or the manifest's, or else the file's.
SavedManifest ==
    [historySeq |-> op.seq, hash |-> op.messages,
     eventSeq |-> IF eventState # 0 THEN eventState
                  ELSE IF manifest.eventSeq # 0 THEN manifest.eventSeq ELSE Len(events)]

\* The manifest, replaced as a whole, and the legacy snapshot.  The save fails if
\* it has to read a log it cannot read.
SaveManifest ==
    LET known == eventState # 0 \/ manifest.eventSeq # 0 \/ EventsReadable
    IN  /\ op.kind = "save"
        /\ op' = Idle
        /\ \/ /\ known
              /\ manifest' = SavedManifest
              /\ saved' = op.messages /\ begun' = {}
              /\ UNCHANGED slipped
           \/ /\ "save" \in Windows \/ ~known
              /\ slipped' = (slipped \/ op.seq # manifest.historySeq)
              /\ UNCHANGED <<manifest, saved, begun>>
        /\ UNCHANGED <<messages, history, events, torn, eventState, loaded, crashes,
                       published>>

\* Mutants: the manifest believed after a restart; nothing looked up after one.
LastByManifest == IF eventState # 0 THEN eventState ELSE manifest.eventSeq
LastInMemory == eventState

\* The last sequence number: eventState, or what loadSessionEventAppendState finds.
LastEventSeq == IF eventState # 0 THEN eventState ELSE Len(events)

\* AppendEvent up to the manifest.  Without a state in memory the file is read
\* first; the state is kept only once an append has succeeded.
AppendEvent ==
    LET last == LastEventSeq
    IN  /\ loaded /\ op = Idle /\ Len(events) < MaxRecords /\ last < MaxRecords
        /\ eventState # 0 \/ EventsReadable
        /\ \E how \in Appends :
             /\ AppendJSONL("events", events, last + 1, how)
             /\ IF how = "ok"
                THEN eventState' = last + 1 /\ op' = [kind |-> "append"]
                ELSE UNCHANGED <<eventState, op>>
        /\ UNCHANGED <<messages, history, manifest, loaded, crashes, saved, begun, published>>

\* The manifest follows, and the event is published.
AppendManifest ==
    /\ op.kind = "append"
    /\ op' = Idle
    /\ \/ /\ manifest' = [manifest EXCEPT !.eventSeq = eventState]
          /\ published' = eventState
       \/ "append" \in Windows /\ UNCHANGED <<manifest, published>>
    /\ UNCHANGED <<messages, history, events, torn, eventState, loaded, crashes, saved, begun,
                   slipped>>

\* The gateway dies, starts again, and loads the session when it is asked for:
\* loadSessionDir replays both files and takes the last transcript.
Restart ==
    /\ crashes < MaxCrashes
    /\ op.kind \in Windows \union {"idle"}
    /\ crashes' = crashes + 1
    /\ op' = Idle /\ eventState' = 0
    /\ slipped' = (slipped \/ (op.kind = "save" /\ op.seq # manifest.historySeq))
    /\ IF HistoryReadable /\ EventsReadable
       THEN messages' = Last(history).messages /\ UNCHANGED loaded
       ELSE loaded' = FALSE /\ UNCHANGED messages
    /\ UNCHANGED <<files, saved, begun, published>>

\* A session whose files cannot be read is not loaded again.
Unavailable == ~loaded /\ UNCHANGED vars

Next == ChangeTranscript \/ SaveHistory \/ SaveManifest \/ AppendEvent \/ AppendManifest
        \/ Restart \/ Unavailable

Spec == Init /\ [][Next]_vars

-----------------------------------------------------------------------------
\* Every variable has its type.
TypeOK ==
    /\ messages \in Transcripts /\ saved \in Transcripts /\ begun \subseteq Transcripts
    /\ history \in Seq([seq : Nat, messages : Transcripts]) /\ events \in Seq(Nat)
    /\ torn \subseteq {"history", "events"}
    /\ manifest \in [historySeq : Nat, hash : Transcripts, eventSeq : Nat]
    /\ eventState \in Nat /\ published \in Nat /\ crashes \in Nat
    /\ loaded \in BOOLEAN /\ slipped \in BOOLEAN
    /\ op \in {Idle} \union [kind : {"save"}, messages : Transcripts, seq : Nat]
                     \union [kind : {"append"}]

\* The store never writes what it cannot load again, although appends are refused
\* and an event's manifest may be missing, as long as no record has slipped past the
\* numbering: a crash between a record of history.jsonl and the manifest that numbers
\* it lets the next save write the same number, which replaySessionHistory refuses.
StaysReadable == ~slipped => HistoryReadable /\ EventsReadable /\ loaded

\* A restart brings back the transcript of the last Save that succeeded, or that
\* of a later one: no successful save is lost or undone, although records are
\* written only when the manifest's hash differs.  A record that has slipped past
\* the numbering may undo a later save, which finds its hash in the old manifest.
SavedSurvives == ~slipped => Last(history).messages \in {saved} \union begun

\* A sequence number that was published is never given to another event, across
\* restarts and appends that fail in any way.
PublishedOnce == [][published' # published => published' > published]_vars
=============================================================================
