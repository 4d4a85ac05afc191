----------------------------- MODULE RingBuffer -----------------------------
(***************************************************************************)
(* S4.1: the circular index of encoded frames and the byte arena behind    *)
(* it.  RingBuffer::allocate decides where a frame goes and which old      *)
(* frames die; IngestFrameUseCase::execute then copies the bytes into the  *)
(* arena; RingBuffer::segmentFor answers a time window.  The three run     *)
(* under the mutex of RingBufferRAMFacade, so each is one step here.       *)
(*                                                                         *)
(* The arena is modelled by its content: arena[b] is the sequence number   *)
(* of the frame whose byte was last copied to offset b.                    *)
(***************************************************************************)
EXTENDS Integers, Sequences

CONSTANTS
    Capacity,     \* bytes of the arena, m_capacity
    Offered,      \* the frames a source may offer: [ts, len, key, session]
    Windows,      \* the windows a caller may ask for: [start, end]
    NoSession,    \* m_hasSession = false
    MaxFrames     \* bound on m_nextSequence, for TLC

ASSUME CapacityAssumption == Capacity \in Nat \ {0}
ASSUME OfferedAssumption ==
    \A f \in Offered : /\ f.ts \in Int
                       /\ f.len \in Nat
                       /\ f.key \in BOOLEAN
                       /\ f.session # NoSession
ASSUME WindowsAssumption ==
    \A w \in Windows : w.start \in Int /\ w.end \in Int /\ w.start < w.end
ASSUME MaxFramesAssumption == MaxFrames \in Nat

VARIABLES
    frames,         \* m_frames, oldest first
    writeOffset,    \* m_writeOffset
    nextSequence,   \* m_nextSequence
    sessionId,      \* m_sessionId, NoSession before the first frame
    ingestedTotal,  \* m_ingestedTotal
    evictedTotal,   \* m_evictedTotal
    arena           \* the bytes of the SharedMemoryFrameStore

vars == <<frames, writeOffset, nextSequence, sessionId,
          ingestedTotal, evictedTotal, arena>>

Sessions == {f.session : f \in Offered}
Offsets == 0 .. Capacity - 1
Unwritten == -1

FrameDescriptor ==
    [sequence : Nat, ts : Int, offset : Nat, len : Nat \ {0},
     key : BOOLEAN, session : Sessions]

EndOffset(d) == d.offset + d.len
Bytes(d) == d.offset .. EndOffset(d) - 1

\* FrameDescriptor::occupies: d uses some byte of start .. end-1.
Occupies(d, start, end) == d.offset < end /\ start < EndOffset(d)

-----------------------------------------------------------------------------
(***************************************************************************)
(* while (!q.empty() && doomed(q.front())) q.pop_front(), where doomed is  *)
(* given by the set of its indices: how many frames leave, what is left.   *)
(***************************************************************************)
PopCount(q, doomed) ==
    CHOOSE n \in 0 .. Len(q) :
        /\ 1 .. n \subseteq doomed
        /\ n = Len(q) \/ n + 1 \notin doomed

DropFirst(q, n) == SubSeq(q, n + 1, Len(q))

(***************************************************************************)
(* What allocate() works on, in the order of its calls: the queue and the  *)
(* write pointer after switchSessionIfNeeded, the offset, the queue after  *)
(* discardFramesBeyondWritePointer, the queue after evictOverlapping.      *)
(***************************************************************************)
TooLarge(f) == f.len = 0 \/ f.len > Capacity

SessionRestarts(f) == sessionId \notin {NoSession, f.session}

\* Slip: m_frames.clear() forgotten.
QueueKept(f) == frames
QueueInSession(f) == IF SessionRestarts(f) THEN <<>> ELSE frames
PointerInSession(f) == IF SessionRestarts(f) THEN 0 ELSE writeOffset

ClockWentBackwards(f) ==
    LET q == QueueInSession(f) IN q # <<>> /\ f.ts < q[Len(q)].ts

Wraps(f) == PointerInSession(f) + f.len > Capacity
OffsetFor(f) == IF Wraps(f) THEN 0 ELSE PointerInSession(f)

BeyondPointer(f) ==
    LET q == QueueInSession(f)
    IN {i \in 1 .. Len(q) : q[i].offset >= PointerInSession(f)}
\* Slips: the wrap leaves the previous lap in the queue, or empties the queue.
DiscardNothing(f) == 0
DiscardAll(f) == IF Wraps(f) THEN Len(QueueInSession(f)) ELSE 0
DiscardCount(f) == IF Wraps(f) THEN PopCount(QueueInSession(f), BeyondPointer(f)) ELSE 0
QueueAfterWrap(f) == DropFirst(QueueInSession(f), DiscardCount(f))

Overlapping(f) ==
    LET q == QueueAfterWrap(f)
    IN {i \in 1 .. Len(q) : Occupies(q[i], OffsetFor(f), OffsetFor(f) + f.len)}
OverlapCount(f) == PopCount(QueueAfterWrap(f), Overlapping(f))
QueueAfterEviction(f) == DropFirst(QueueAfterWrap(f), OverlapCount(f))

DescriptorFor(f) ==
    [sequence |-> nextSequence, ts |-> f.ts, offset |-> OffsetFor(f),
     len |-> f.len, key |-> f.key, session |-> f.session]

EvictedBy(f) ==
    (IF SessionRestarts(f) THEN Len(frames) ELSE 0) + DiscardCount(f) + OverlapCount(f)

\* allocate() accepts the frame: it neither throws FrameTooLargeError nor
\* NonMonotonicTimestampError.  Both throws leave the index as it was (a
\* session switch empties the queue, so the clock cannot fail after one).
Accepts(f) == ~TooLarge(f) /\ ~ClockWentBackwards(f)

-----------------------------------------------------------------------------
Init ==
    /\ frames = <<>>
    /\ writeOffset = 0
    /\ nextSequence = 0
    /\ sessionId = NoSession
    /\ ingestedTotal = 0
    /\ evictedTotal = 0
    /\ arena = [b \in Offsets |-> Unwritten]

\* IngestFrameUseCase::execute: allocate(), then IFrameStore::write.
IngestFrame(f) ==
    /\ nextSequence < MaxFrames
    /\ Accepts(f)
    /\ frames' = Append(QueueAfterEviction(f), DescriptorFor(f))
    /\ writeOffset' = OffsetFor(f) + f.len
    /\ nextSequence' = nextSequence + 1
    /\ sessionId' = f.session
    /\ ingestedTotal' = ingestedTotal + 1
    /\ evictedTotal' = evictedTotal + EvictedBy(f)
    /\ arena' = [b \in Offsets |->
                    IF b \in Bytes(DescriptorFor(f)) THEN nextSequence ELSE arena[b]]

\* A frame allocate() throws on changes nothing.
RejectFrame(f) == ~Accepts(f) /\ UNCHANGED vars

Next == \E f \in Offered : IngestFrame(f) \/ RejectFrame(f)

Spec == Init /\ [][Next]_vars

-----------------------------------------------------------------------------
(***************************************************************************)
(* segmentFor(window).                                                     *)
(***************************************************************************)
Contains(w, ts) == w.start <= ts /\ ts <= w.end

InWindow(w) == {i \in 1 .. Len(frames) : Contains(w, frames[i].ts)}
WindowAbsent(w) == InWindow(w) = {}

KeyframesBefore(w) == {i \in 1 .. Len(frames) : frames[i].key /\ frames[i].ts <= w.start}
KeyframesWithin(w) == {i \in InWindow(w) : frames[i].key}

Lowest(S) == CHOOSE i \in S : \A j \in S : i <= j
Highest(S) == CHOOSE i \in S : \A j \in S : j <= i

\* decodableStartIndex: the last keyframe at or before the start, else the
\* first one inside the window, else NoDecodableStartError.
NoDecodableStart(w) == KeyframesBefore(w) \cup KeyframesWithin(w) = {}
\* Slip: the keyframe inside the window preferred to the one before it.
StartInsideWindow(w) ==
    IF KeyframesWithin(w) # {} THEN Lowest(KeyframesWithin(w))
                               ELSE Highest(KeyframesBefore(w))
DecodableStart(w) ==
    IF KeyframesBefore(w) # {} THEN Highest(KeyframesBefore(w))
                               ELSE Lowest(KeyframesWithin(w))

\* lastIndexWithin.
\* Slip: everything after the start is delivered.
LastOfBuffer(w) == Len(frames)
LastWithin(w) == Highest({i \in 1 .. Len(frames) : frames[i].ts <= w.end})

Answers(w) == ~WindowAbsent(w) /\ ~NoDecodableStart(w)

SegmentFor(w) ==
    [frames |-> SubSeq(frames, DecodableStart(w), LastWithin(w)),
     isTruncatedAtStart |-> frames[DecodableStart(w)].ts > w.start,
     isTruncatedAtEnd |-> frames[Len(frames)].ts < w.end]

-----------------------------------------------------------------------------
(***************************************************************************)
(* Properties.                                                             *)
(***************************************************************************)

\* Every variable has its type, and no frame is split at the end of the arena.
TypeOK ==
    /\ frames \in Seq(FrameDescriptor)
    /\ \A i \in 1 .. Len(frames) : EndOffset(frames[i]) <= Capacity
    /\ writeOffset \in 0 .. Capacity
    /\ nextSequence \in Nat
    /\ sessionId \in Sessions \cup {NoSession}
    /\ ingestedTotal \in Nat
    /\ evictedTotal \in Nat
    /\ arena \in [Offsets -> Nat \cup {Unwritten}]

\* No descriptor points at bytes a later frame has overwritten: every byte
\* of every indexed frame still holds what was copied for that frame.
NoOverwrittenFrame ==
    \A i \in 1 .. Len(frames) :
        \A b \in Bytes(frames[i]) : arena[b] = frames[i].sequence

\* Descriptors are in capture order, of one session, and without a gap: the
\* buffer is the tail of what the session ingested.
CaptureOrder ==
    \A i \in 1 .. Len(frames) :
        /\ frames[i].session = sessionId
        /\ frames[i].sequence = nextSequence - Len(frames) + i - 1
        /\ \A j \in i .. Len(frames) : frames[i].ts <= frames[j].ts

\* The counters account for every frame: whatever was ingested is either in
\* the index or counted as evicted, whichever of the three paths evicted it.
Accounting == ingestedTotal = evictedTotal + Len(frames)

\* What makes it enough to look at the front of the queue: the queue is what
\* is left of the previous lap, beyond the write pointer, followed by the
\* current lap, behind it, each in the order of its offsets.
Ascending(q, lo, hi) ==
    \A i, j \in lo .. hi : i < j => EndOffset(q[i]) <= q[j].offset
LapSplit(q, pointer, k) ==
    /\ \A i \in 1 .. k : pointer <= q[i].offset
    /\ \A i \in k + 1 .. Len(q) : EndOffset(q[i]) <= pointer
    /\ Ascending(q, 1, k)
    /\ Ascending(q, k + 1, Len(q))
TwoLaps == \E k \in 0 .. Len(frames) : LapSplit(frames, writeOffset, k)

\* An answered segment is decodable and complete: it starts at a keyframe,
\* it holds every indexed frame captured after the asked start and up to the
\* asked end unless it is flagged truncated at the start, and then what it
\* leaves out precedes every keyframe that could have opened it.
SegmentComplete ==
    \A w \in {v \in Windows : Answers(v)} :
        LET segment == SegmentFor(w)
            first == DecodableStart(w)
            left == {i \in InWindow(w) : frames[i].ts > w.start
                                         /\ i \notin first .. LastWithin(w)}
        IN /\ segment.frames # <<>>
           /\ segment.frames[1].key
           /\ ~segment.isTruncatedAtStart => left = {}
           /\ \A i \in left : \A j \in 1 .. i : ~frames[j].key

\* Once a frame captured after the end of a window has arrived, the answer
\* to that window is settled: as long as the session lasts it can only lose
\* its oldest frames, never gain, lose or swap one at its end.
IsSuffixOf(s, t) ==
    Len(s) <= Len(t) /\ s = DropFirst(t, Len(t) - Len(s))
SettledWindow ==
    [][\A w \in Windows :
        (/\ Answers(w)
         /\ frames[Len(frames)].ts > w.end
         /\ sessionId' = sessionId
         /\ Answers(w)') => IsSuffixOf(SegmentFor(w).frames', SegmentFor(w).frames)]_vars

\* Within a session no frame is evicted while there is room: the evicted
\* frame, the frames after it and the new one together need more than the
\* arena less the one frame that may not fit before its end.
TotalLength(q) ==
    LET sum[n \in 0 .. Len(q)] == IF n = 0 THEN 0 ELSE sum[n - 1] + q[n].len
    IN sum[Len(q)]
LongestOffered ==
    CHOOSE n \in {f.len : f \in Offered} :
        n <= Capacity /\ \A f \in Offered : f.len <= Capacity => f.len <= n
EvictionIsNeeded ==
    [][LET evicted == Len(frames) + 1 - Len(frames')
       IN (nextSequence' # nextSequence /\ sessionId' = sessionId /\ evicted > 0) =>
            TotalLength(DropFirst(frames, evicted - 1)) + frames'[Len(frames')].len
                > Capacity - LongestOffered]_frames

-----------------------------------------------------------------------------
(***************************************************************************)
(* The index, seen without offsets, is the log its readers rely on.        *)
(***************************************************************************)
Visible(d) ==
    [sequence |-> d.sequence, ts |-> d.ts, key |-> d.key, session |-> d.session]
VisibleFrames == [i \in 1 .. Len(frames) |-> Visible(frames[i])]

Log == INSTANCE FrameWindowLog WITH
    log <- VisibleFrames, session <- sessionId, next <- nextSequence

\* Every step of the index is a step of the log: only the oldest frames
\* leave, only at the arrival of a frame, and a new session replaces all.
ImplementsLog == Log!LogSpec

=============================================================================
