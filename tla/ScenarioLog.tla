---------------------------- MODULE ScenarioLog ----------------------------
(***************************************************************************)
(* A recorded scenario: the tool record_scenario puts a FrameLogRecorder   *)
(* behind a source, and a RecordedFrameSource plays back what is on disk.  *)
(* The recorder writes an index of text lines and a blob of bytes through  *)
(* two ofstreams, each of which reaches its file when it likes; a full     *)
(* disk or a crash leaves any prefix of either.                            *)
(*                                                                         *)
(* A byte of the blob is the number of the frame it belongs to.  A line    *)
(* that was cut is told apart by what can still be read of it.             *)
(***************************************************************************)
EXTENDS Integers, Sequences

CONSTANTS
    Frames,         \* the frames a source may yield: [ts, length, key, session]
    MaxRecorded,      \* how many of them are recorded, at most
    NoSession,      \* the empty session
    Spaced,         \* the sessions with a space in their name
    CutSession,     \* the first characters of a session
    Override        \* sessionOverride of the replay, NoSession for none

\* A frame is some bytes, maybe none.
ASSUME FramesAssumption == \A frame \in Frames : frame.length \in Nat

VARIABLES
    tool,       \* record_scenario: "starts", "records", "done", "failed", "crashed"
    recorded,   \* the frames passed to record()
    index,      \* the lines written into m_index: [frame, offset]
    blob,       \* the bytes written into m_blob
    offset,     \* m_offset
    lines, tail, bytes, \* what is on disk: whole lines, what is left of a cut
                        \* one ("none", "numbers", "flag", "session"), bytes
    full,       \* the streams the disk refused, whose badbit stays
    replay,     \* the RecordedFrameSource: "none", "refused", "ready"
    entries,    \* m_entries
    thread,     \* its thread: "none", "runs", "returned"
    running, stopRequested,     \* m_running, m_stopRequested
    next,       \* the entry replay() is at
    delivered   \* the frames passed to onFrame since start()

onDisk == <<lines, tail, bytes>>
recording == <<tool, recorded, index, blob, offset, full>>
playing == <<thread, running, stopRequested, next, delivered>>
scenarioVars == <<recording, onDisk, replay, entries, playing>>

Repeat(n, x) == [i \in 1 .. n |-> x]

\* The bytes of the next frame.
BytesOf(frame) == Repeat(frame.length, Len(recorded) + 1)

-----------------------------------------------------------------------------
(***************************************************************************)
(* FrameLogRecorder and the tool around it.                                *)
(***************************************************************************)
ScenarioInit ==
    /\ tool = "starts" /\ recorded = <<>>
    /\ index = <<>> /\ blob = <<>> /\ offset = 0
    /\ lines = 0 /\ tail = "none" /\ bytes = 0 /\ full = {}
    /\ replay = "none" /\ entries = <<>>
    /\ thread = "none" /\ running = FALSE /\ stopRequested = FALSE
    /\ next = 1 /\ delivered = <<>>

\* The constructor opens both files, or throws.
Open ==
    /\ tool = "starts"
    /\ tool' \in {"records", "failed"}
    /\ UNCHANGED <<recorded, index, blob, offset, full, onDisk, replay, entries, playing>>

\* Slip: the offset of the next frame written into the line.
RecordAdvanced(frame) ==
    /\ tool = "records"
    /\ Len(recorded) < MaxRecorded
    /\ recorded' = Append(recorded, frame)
    /\ index' = Append(index, [frame |-> frame, offset |-> offset + frame.length])
    /\ blob' = blob \o BytesOf(frame)
    /\ offset' = offset + frame.length
    /\ UNCHANGED <<tool, full, onDisk, replay, entries, playing>>

\* Nobody looks at the streams: a write that fails is not noticed.
Record(frame) ==
    /\ tool = "records"
    /\ Len(recorded) < MaxRecorded
    /\ recorded' = Append(recorded, frame)
    /\ index' = Append(index, [frame |-> frame, offset |-> offset])
    /\ blob' = blob \o BytesOf(frame)
    /\ offset' = offset + frame.length
    /\ UNCHANGED <<tool, full, onDisk, replay, entries, playing>>

\* More of the index reaches its file, up to somewhere in a line: within its
\* numbers, before the session, or within it.
IndexWritten ==
    /\ tool = "records" /\ "index" \notin full
    /\ lines' \in lines .. Len(index)
    /\ tail' \in {"none"} \cup
                 (IF lines' = Len(index) THEN {} ELSE {"numbers", "flag"}) \cup
                 (IF lines' = Len(index) \/ index[lines' + 1].frame.session = NoSession
                  THEN {} ELSE {"session"})
    /\ lines' > lines \/ tail = "none"
    /\ UNCHANGED <<bytes, recording, replay, entries, playing>>

BlobWritten ==
    /\ tool = "records" /\ "blob" \notin full
    /\ bytes' \in bytes .. Len(blob)
    /\ UNCHANGED <<lines, tail, recording, replay, entries, playing>>

DiskFull ==
    /\ tool = "records"
    /\ \E stream \in {"index", "blob"} : full' = full \cup {stream}
    /\ UNCHANGED <<tool, recorded, index, blob, offset, onDisk, replay, entries, playing>>

\* recordScenario is over when the source has finished or its time is up:
\* close() writes what is left, and the tool reports success.  A live source
\* may go on calling record(); the closed streams take nothing.
Close ==
    /\ tool = "records"
    /\ tool' = "done"
    /\ lines' = IF "index" \in full THEN lines ELSE Len(index)
    /\ tail' = IF "index" \in full THEN tail ELSE "none"
    /\ bytes' = IF "blob" \in full THEN bytes ELSE Len(blob)
    /\ UNCHANGED <<recorded, index, blob, offset, full, replay, entries, playing>>

Crash ==
    /\ tool = "records"
    /\ tool' = "crashed"
    /\ UNCHANGED <<recorded, index, blob, offset, full, onDisk, replay, entries, playing>>

-----------------------------------------------------------------------------
(***************************************************************************)
(* RecordedFrameSource.                                                    *)
(***************************************************************************)
\* A line as loadIndex reads it, its session up to a space; and the cut one,
\* whose session is not all there.
Entry(line, session) ==
    [ts |-> line.frame.ts, offset |-> line.offset, length |-> line.frame.length,
     key |-> line.frame.key, session |-> session]
SessionRead(session) == IF session \in Spaced THEN CutSession ELSE session
WholeLines ==
    [i \in 1 .. lines |-> Entry(index[i], SessionRead(index[i].frame.session))]
CutLine ==
    IF tail \in {"flag", "session"}
    THEN <<Entry(index[lines + 1], IF tail = "flag" THEN NoSession ELSE CutSession)>>
    ELSE <<>>
Loaded == WholeLines \o CutLine

IsInsideBlob(e) == e.offset =< bytes /\ e.length =< bytes - e.offset
IsCorrupt ==
    \/ tail = "numbers"
    \/ \E i \in DOMAIN Loaded : Loaded[i].length = 0 \/ ~IsInsideBlob(Loaded[i])

\* The constructor reads and checks the whole index, or throws.
Construct ==
    /\ replay = "none"
    /\ tool \in {"done", "crashed"}
    /\ IF IsCorrupt
       THEN replay' = "refused" /\ UNCHANGED entries
       ELSE replay' = "ready" /\ entries' = Loaded
    /\ UNCHANGED <<recording, onDisk, playing>>

\* start() does nothing while m_running is set, as it is after the thread has
\* come to its end by itself.
Start ==
    /\ replay = "ready"
    /\ ~running
    /\ running' = TRUE /\ stopRequested' = FALSE
    /\ thread' = "runs" /\ next' = 1 /\ delivered' = <<>>
    /\ UNCHANGED <<recording, onDisk, replay, entries>>

\* The m_blob of the source: what the disk had when it was constructed, which
\* is what it has as long as nobody records over it.
InMemory == SubSeq(blob, 1, bytes)

\* The frame passed on for an entry.
FrameOf(e) ==
    [ts |-> e.ts, data |-> SubSeq(InMemory, e.offset + 1, e.offset + e.length),
     key |-> e.key, session |-> IF Override = NoSession THEN e.session ELSE Override]

\* One frame, its bytes taken out of the blob in memory.
Deliver ==
    /\ thread = "runs" /\ ~stopRequested
    /\ next \in DOMAIN entries
    /\ delivered' = Append(delivered, FrameOf(entries[next]))
    /\ next' = next + 1
    /\ UNCHANGED <<recording, onDisk, replay, entries, thread, running, stopRequested>>

ReplayReturns ==
    /\ thread = "runs"
    /\ stopRequested \/ next \notin DOMAIN entries
    /\ thread' = "returned"
    /\ UNCHANGED <<recording, onDisk, replay, entries, running, stopRequested, next, delivered>>

\* stop() asks, then joins; a frame the thread was at counts as delivered
\* before.
RequestStop ==
    /\ replay = "ready" /\ ~stopRequested
    /\ stopRequested' = TRUE
    /\ UNCHANGED <<recording, onDisk, replay, entries, thread, running, next, delivered>>

\* The join of stop() or of waitUntilFinished().
Joined ==
    /\ replay = "ready" /\ running
    /\ thread = "returned"
    /\ running' = FALSE /\ thread' = "none"
    /\ UNCHANGED <<recording, onDisk, replay, entries, stopRequested, next, delivered>>

ScenarioNext ==
    \/ Open \/ Close \/ Crash
    \/ \E frame \in Frames : Record(frame)
    \/ IndexWritten \/ BlobWritten \/ DiskFull
    \/ Construct \/ Start \/ Deliver \/ ReplayReturns \/ RequestStop \/ Joined

ScenarioSpec == ScenarioInit /\ [][ScenarioNext]_scenarioVars

-----------------------------------------------------------------------------
(***************************************************************************)
(* What a scenario is for.                                                 *)
(***************************************************************************)
\* Only the last line on disk can have been cut short, and a name is cut at
\* its first space.
SessionCut(i) == i = lines + 1 \/ recorded[i].session \in Spaced

\* However the recording ended, a replay that is not refused yields the
\* frames recorded, from the first one on and in their order: times,
\* keyframes and every byte.  The sessions are those recorded too, or the
\* override, except where they were cut.
ReplayIsRecording ==
    /\ Len(delivered) =< Len(recorded)
    /\ \A i \in DOMAIN delivered :
          /\ delivered[i].ts = recorded[i].ts
          /\ delivered[i].key = recorded[i].key
          /\ delivered[i].data = Repeat(recorded[i].length, i)
          /\ IF Override # NoSession THEN delivered[i].session = Override
             ELSE delivered[i].session = recorded[i].session \/ SessionCut(i)

\* A scenario without an empty frame that the disk took whole can be replayed,
\* whatever reached the disk when.
IntactIsReplayable ==
    (tool = "done" /\ full = {} /\ \A i \in DOMAIN recorded : recorded[i].length > 0)
        => replay # "refused"

\* "Gravacao concluida com sucesso" (record_scenario.cpp, line 228), so that a
\* test can replay the scenario as often as it likes (frame_log.hpp, line 16).
RecordedIsReplayable == tool = "done" => replay # "refused"

=============================================================================
