# TLA+ specifications of MOD2_ODS

These modules specify, model-check and partly prove the stateful core of the
repository: the S4 media evidence service (C++), the S5 metrics pipeline
(Python) and the B6 front-end tools (TypeScript).  Paths below are relative to
`src/mod2/s4-media-evidence/` unless they start with `s5` or `b6`.
`PROJECT.json` maps every definition to the lines it models.

## 1. The system

| Part | State it keeps | Operations | Talks to |
|---|---|---|---|
| **RingBuffer** (S4.1, `src/domain/entities/ring_buffer.cpp`) | queue of frame descriptors, write offset, sequence, session, totals; the shared-memory arena | `allocate` + copy, `segmentFor`, `stats` | called by the facade under its mutex |
| **RingBufferRAMFacade** (`src/infrastructure/gstreamer/`) | `m_mutex`, `m_frameArrived`, `m_isCapturing` | `startCapture`, `stopCapture`, `onFrame`, `extractCaptureWindow`, `readWindow`, `toWallClock` | source thread, HTTP threads, `main` |
| **CaptureClockBridge** | the anchor between capture clock and wall clock | `anchorIfNeeded`, `reset`, two translations | facade |
| **Frame sources** (synthetic, recorded, appsink) | a thread and `m_stopRequested` | `start`, `stop` (join) | call `onFrame` |
| **ExtractClipUseCase** (S4.2) | none; a file and a row | `execute`, `executeCaptureWindow` | facade, muxer, `FileStorage`, repository |
| **SQLiteMediaClipRepository, FileStorage, JsonLinesPurgeLog** | table `media_clips`, the media directory, the log | save/find/update, write/exists/sizeOf/remove, record | S4.2, S4.3, S4.4 |
| **PurgeMediaUseCase** (S4.3) + `LgpdRetentionStrategy`, `DiskQuotaFifoStrategy` | a sweep in progress | `execute` | repository, storage, log, `statvfs` |
| **PurgeDaemon** (S4.3) | mutex, two condition variables, flags, a thread | `start`, `stop`, `requestSweep`, `waitForSweeps` | runs the sweep |
| **ClipDescriptorHttpServer**, controller (S4.4) | worker threads of cpp-httplib | `POST /api/v1/events`, `GET /api/v1/clips/{id}`, `stop` | S4.2, S4.1, repository |
| **GStreamerMp4Muxer** (S4.4) | `m_impl`: pipeline, appsrc, appsink | `mux` | S4.2, GStreamer's threads |
| **normalize_iso_bmff_timestamps** (S4.4) | none; works in place on the finished container | one recursive walk over its boxes | called by `mux` |
| **Request parsing** (S4.4, `parse_event_request`) | none | search for names, colons, values | called by the POST handler |
| **record_scenario, FrameLogRecorder, RecordedFrameSource** (`tools/`, `src/infrastructure/ringbuffer/frame_log.cpp`) | an index file and a blob file; the entries loaded | `record`, `close`; `start`, `stop`, `waitUntilFinished` | a source; the facade |
| **B3 consumer, debounce filter** (S5.1) | `_running`; last accepted event per origin | `start`, `stop`, `publish`, `execute`, `should_accept` | the bus, the list of accepted events |
| **Dwell aggregation, rollup chain, DuckDB repository** (S5.2, S5.4) | the table of metrics | `execute`, `run`, `save`, `query_metrics` | called from outside with a reference time |
| **ZoneEditor** (B6) | closed zones, the open zone, mode, drag target | mouse events, close, clear, change of mode | DOM |
| **OverlayPlayer** (B6) | pending animation frame, timeline, canvas | button, slider, media events, `loadVideo`, `loadMetadataTimeline` | media element |

What is hard: three to many threads meet in the facade, in the daemon and in
the muxer (condition variables, joins, callbacks, members without a lock);
sessions may change between two steps of one request; the arena is reused lap
after lap; the sweep holds nothing between re-reading a row, checking siblings,
deleting the file, releasing the row and logging it, while extractions and
audits change the same rows and files, and any step may fail or be the last
before a crash; events of the bus are late, lost or out of order, and one table
holds the rows of two writers; the browser handles a media event after the
element has changed again.  `PROJECT.json`
lists each hazard at its line with the properties that cover it.

What makes each part correct:

- *RingBuffer*: no descriptor over reused bytes; order; complete, decodable,
  settled answers; nothing evicted for nothing.
- *Facade*: no lost wakeup, no access after close, a clip cut short only by a
  timeout, clock and index of the same session, shutdown terminates.
- *Retention*: what is released is gone, what is gone is logged once, the log
  does not lie, locked or newer media is spared, expired media goes.
- *Daemon*: a request leads to a later sweep, a start sweeps, stop waits.
- *Server and muxer*: a request is answered, with what the store holds; the
  container is the whole of its own segment on its own timeline; no pipeline
  writes into a container whose `mux()` is over; shutdown terminates.  The
  code keeps the second and the third only for a `mux()` that meets no other one,
  and the first and the last only unless a push waits for ever (section 5).
- *Edges of S4*: a request is read as its client meant it; the container keeps no
  trace of when it was muxed, so its hash can be repeated; a scenario that is
  replayed is the one that was recorded.
- *S5*: accepted events keep an interval in whatever order they come; averages
  and peaks are those of the stays that took place, and a rollup is what the
  window itself would be measured as.
- *B6*: closed zones are simple polygons; a drag refers to a vertex that
  exists; one render loop while playing, none while paused; the boxes drawn
  are those of the time shown.

## 2. Modules

| Module | Models | Uses |
|---|---|---|
| `RingBuffer` | `allocate` with the copy of the bytes (one action per offered frame, one for refusals), `segmentFor` as an operator | |
| `FrameWindowLog` | abstract: a log of frames of one session that only loses its oldest (`RingBuffer` refines it) | |
| `RingBufferProofs` | theorems about `RingBuffer` | `RingBuffer`, TLAPS |
| `CaptureFacade` | the source thread, `main` and the HTTP requests around `m_mutex`; the index is `FrameWindowLog` | `FrameWindowLog` |
| `MediaRetention` | extraction, sweep, audit lock, crash over rows, files and log | `ClipLedger` (refined) |
| `ClipLedger` | abstract: each clip is retained once, loses its media, is released, and gets one line in the log | |
| `MediaRetentionProofs` | theorems about `MediaRetention` | `MediaRetention`, TLAPS |
| `PurgeDaemon` | `run`, `start`, `stop`, `requestSweep`, `waitForSweeps` | |
| `PurgeDaemonProofs` | theorems about `PurgeDaemon` | `PurgeDaemon`, TLAPS |
| `CaptureFacadeProofs` | theorems about `CaptureFacade` | `CaptureFacade`, TLAPS |
| `EventServer` | a request from the socket to the clip: handlers, muxer, appsink source, shutdown of `main` | |
| `EventServerProofs` | theorems about `EventServer` | `EventServer`, TLAPS |
| `EventIngest` | visitors, the bus, the B3 consumer and the debounce filter | |
| `MetricsPipeline` | aggregation, the table of metrics, rollup and worker | `EventIngest` (composed) |
| `MetricsLemmas` | sums, fractions, peaks of stays and timelines, for any arguments | `MetricsPipeline`, TLAPS |
| `MetricsProofs` | theorems about `EventIngest` and `MetricsPipeline` | `MetricsLemmas` |
| `ZoneEditor`, `OverlayPlayer` | the two front-end tools | |
| `EventRequest` | the search for fields in a request's body, and where the handler goes | |
| `IsoBmff` | the walk over the boxes of a container | |
| `ScenarioLog` | the recorder, what a crash or a full disk leaves of it, and the replay | |
| `EdgeProofs` | theorems about the edges: editor, player, request and scenario | `ZoneEditor`, `OverlayPlayer`, `EventRequest`, `ScenarioLog`, TLAPS |
| `MCRingBuffer`, `MCCaptureFacade`, `MCMediaRetention`, `MCEventServer`, `MCMetrics` | values for TLC | |
| `MCEdges` | one of the parts that share nothing: editor, player, request, container or scenario | `ZoneEditor`, `OverlayPlayer`, `EventRequest`, `IsoBmff`, `ScenarioLog` |

**RingBuffer.**  A frame is `[ts, len, key, session]`.  `arena[b]` is the
sequence number of the frame whose byte is at `b`, so "reads another frame's
bytes" is visible.  The `pop_front` loops are `PopCount`/`DropFirst`.
`allocate` and the copy are one step because both run under the facade's mutex
on one thread.  Its refinement `ImplementsLog` is what entitles `CaptureFacade`
to keep only the log of `[sequence, ts, key, session]`.

**CaptureFacade.**  One program counter per thread (`source`, `control`,
`at[r]`), the mutex as `lock`, the condition variable as the set `waiting`.
`CheckPredicate` and `FallAsleep` are two steps with the mutex kept between
them: the window in which a wakeup could be lost.  A timeout or a spurious
wakeup may come at any time while asleep.  The clock bridge's own mutex makes
each of its calls atomic, so the two ends of a window are two steps.

**MediaRetention.**  `rows[c]` is the clip's row, `files[e]` names the clip
whose container the file of event `e` holds (two clips of one event share a
file, as `mediaDir/<event_id>.mp4` makes them), `log[c]` the outcomes logged
for `c`.  The sweep is a program counter `stage` through the calls of
`PurgeMediaUseCase`: `SweepStarts` (usage, candidates and their sizes),
`ApplyStrategy` per strategy, then per clip `Reread`, `FileMissing`/
`FileExists`, `FileShared`/`FileNotShared`, `RemoveFile`, `UpdateRow` (the stale
`copy` is written back whole), `RecordLog`; `SweepEnds` prints the report.
Exceptions are actions: those `purge` catches make the clip a failure
(`ClipFails`), those it does not end the sweep and lose its report
(`SweepThrows`).  `Faults` names what may fail in a run, `Stuck` the events
whose file can be neither measured nor removed.  Abstractions: ratios are bytes of a
disk of fixed capacity; a container's size depends on its event; one kind of
media, so one age; the candidates and their sizes are read in one step; nobody
calls `remove(clipId)`.  `LockForAudit` is external: `MediaClip::lockForAudit`
plus `update`, which S4.3's design expects of S4.4 (docs/S4.3, section 9).

`ImplementsLedger` maps all this to `ClipLedger`: a clip's life is read from its
row, its media is a file that holds its own container, and the log is the log.
Sweeps, candidates, faults and crashes are stutters there.  The ledger says when
a release is allowed: another retained clip of the event names the file, or the
file no longer holds the media of any clip in the table.

**PurgeDaemon.**  Critical sections without a wait are one step; the two waits
keep the mutex between predicate and sleep.  Whether the interval has passed or
the disk is over quota is left open (`SweepBegins` is always possible in
`decide`, `NotDue` only when nothing forces a sweep).  `owed` is a history
variable: a request was made and no sweep has begun since.

**EventServer.**  One program counter `at[r]` per request, `Pool` of them at
work at once.  `mux()` is taken apart at each access to the members of the one
muxer (`DropOldPipeline`, `LaunchPipeline`, `TakeEnds`, `ConnectSink`,
`SetPlaying`, `PushFrame` per frame, `EndOfStream`, `GetBus`, `PopMessage` or
`PopTimesOut`), so that a second handler may come between any two.  `pipes[p]`
is the pipeline launched by the `mux()` of request `p`: its state, what was fed,
how much of that its streaming thread has taken, EOS, its bus message and the
containers its sink's callbacks point to.  The appsrc is `block=TRUE`
(`gstreamer_mp4_muxer.cpp:134`): `PushFrame` waits, without a timeout, while
`QueueLimit` frames are fed and not taken (the code's limit is in bytes), until
`FrameTaken`, or until another `mux()` stops the pipeline, which makes the push
return an error.  `PipelineFails` only posts a message and takes no more frames.
`lone` is a history variable: the requests whose `mux()` has met no other one
(`InMux`) between the first access to the members and its end.
`DropOldPipeline` is one step, as are the other short sequences of calls on
the members: what two handlers do inside one of them (an unref of the same
pointer twice) is undefined behaviour beyond what `MuxRace` needs.  A
container is the list of samples `[id, ts, dur]`; `SampleTime` and
`SampleDuration` are the accumulated deltas of the code.  Faststart makes
`mp4mux` put everything out at EOS, so the container arrives in one buffer
(`ContainerEmitted`).  `Faults` names which call may fail.  The frames come from
the appsink source (`NewSample`), which stamps by DTS and else PTS; the index is
a log without evictions, where every frame is a keyframe, so that `Segment` is
`segmentFor` without the search for one (that is `RingBuffer`'s subject).

**EventIngest, MetricsPipeline.**  `crossings` is what really happened at the
border, `pending` the envelopes on the bus, handed over in any order; those
published while the consumer is stopped are lost.  `seen` is what the handler
got and what `should_accept` said.  `MetricsPipeline` extends the module: the
aggregator measures windows that end at the present over the accepted events
(entries and exits sorted and paired by rank, peaks with entries first at equal
times), the worker rolls the rows up along its chain; the table is append-only,
as `save` is an `INSERT`.  An average is a fraction, the quotient the code
computes without its rounding; two are the same when their cross products are
(`Same`).  A window
whose average is negative raises, and keeps the later windows of the call from
being saved.

**ZoneEditor, OverlayPlayer.**  One action per DOM event handler or public
method.  A vertex is named by its position, as `dragTarget` does; a handler that
hits a `TypeError` ends there and keeps what it had assigned.  `menuAt` says
whether the browser fires `contextmenu` at the press or at the release, and
`Hole` is the `undefined` an assignment past the end of an array leaves.  The
comments of the editor's page (`b6-zone-editor/index.html:88-95`) describe a deletion by right
button that the editor does not implement.  In the player the media element and
the queue of its events are modelled as the browser keeps them: `play()` and
`pause()` change the element at once and queue their event.

**EventRequest.**  A body is the sequence of its tokens (quoted strings without
escaped quotes, numbers, words, marks), and `Find` is `body.find`: the first of
some tokens from a place on, wherever it stands.  Of a number the model keeps the
digits an integer is read from and the value a double is read from, so `1.5`
sent for an integer reads as 1.  `Outcome` is the handler up to the extraction,
with the refusals in the order of the code.

**IsoBmff.**  Addresses count words of four bytes, so every box has a size of
whole words; a version is a word.  `walk` is the stack of the recursive calls.  A
date is a mark in the layout that the muxer replaces by the time of day.

**ScenarioLog.**  What is on disk is a number of whole index lines, what can still
be read of a cut one (`tail`), and a number of blob bytes; each file takes any
prefix at any time (`IndexWritten`, `BlobWritten`) until the disk refuses it
(`DiskFull`) or the process dies (`Crash`).  `Construct` is `loadIndex` with its
checks.  A live source that still calls the recorder after `recordScenario` has
destroyed it is undefined behaviour and is left out: both files are closed by
then.

**Slips.**  Definitions marked *Slip* are plausible mistakes in one modelled
definition (a dropped guard, a stale value, a swapped order).  Substituted for
it, each makes a property fail; they are not part of the system.

## 3. Runs

| Run | Shows | Bounds |
|---|---|---|
| `RingBuffer` | `NoOverwrittenFrame`, `SegmentComplete`, `EvictionIsNeeded`, `SettledWindow`, `ImplementsLog` | arena of 5 bytes, frames of 1, 2 and 3 bytes and two refused lengths, 7 frames, times 1..3, keyframes or not, two sessions, every window |
| `Capture` | `NoClosedArenaAccess`, `TruncatedOnlyAfterTimeout`, `ClockFollowsSession`, `StopReleasesWaiters`, `PostEventDelivered`, `StopTerminates` | two requests with a window each, which share a frame and end one after the other (`AsksFor`), two sessions, one start and stop, 2 frames, no symmetry |
| `RetentionSafety` | `PurgedMediaGone`, `LogTellsTruth`, `ImplementsLedger` | two clips of one event, every fault but `stat`, one crash |
| `RetentionSweep` | `ExpiredIsPurged`, `QuotaTakesOldest`, `QuotaDeletesOnlyAboveTarget` | three clips with a file each, one of them stuck, one crash |
| `Daemon` | `StoppedMeansNoSweep`, `FirstSweepOnStart`, `RequestServed`, `StopTerminates`, `WaiterReleased` | two requesters, one waiter, two starts; the module is its own MC module |
| `Edges` | `ZonesAreSimple`, `IntactUnlessInterrupted`, `LoopFollowsPlayback`, `SettledOverlay`, `BodyIsReadAsMeant`, `HashIsRepeatable`, `ReplayIsRecording` | editor: four positions, 5 vertices in all; player: video of 4 instants, three timelines (the empty one among them, which `SettledOverlay` leaves out), 3 queued events, 3 pending frames; request: bodies of at most three of 15 fields; container: movies of one track with dates of either version, short boxes, boxes of size zero or beyond the end; scenario: 3 frames of three sessions |
| `EventServer` | `LoneContainerIsOwn`, `SampleTimeline`, `NoWriteAfterReturn`, `NothingLost`, `AnswerMatchesStore`, `Answered`, `ShutdownCompletes` | two requests, one of every kind but a GET, the other for an instant or a GET (`Kinds`), one worker, four samples (a B-frame, two of one time, one without time), a queue of one frame, pipelines that may stall, every fault but that of reading back |
| `Metrics` | `DebounceKeepsPace`, `DwellIsExact`, `RowsAreGrounded`, `RollupAgrees` | two visitors, time 0..8, an interval of 2, 6 crossings at the instants `CrossAt` allows, calls at 0, 4 and 8, 2 envelopes under way, 4 rows, the first two links of the chain |
| `MuxRace` (violation) | `ContainerIsOwn` | the server with two workers and nothing failing |
| `MuxBlocks` (violation) | `ShutdownEnds` | the server with one worker and pipelines that flow until they fail (`FlowingSpec`) |
| `RetentionAudit` (violation) | `LockedEvidenceKept` | one clip |
| `RetentionSharing` (violation) | `NewMediaSurvives` | two clips of one event |

`TypeOK`, `CaptureOrder` and `Accounting` of `RingBuffer` and `RequestNotForgotten`
of `PurgeDaemon` are proved for every value of the constants and are not run
again.  `Edges` puts parts side by side that share nothing, each behaviour being
of one of them.

Bounds and why they are enough.  `MaxFrames` bounds the frames offered or
delivered: 7 frames are over two laps of the arena, with frames of every size
at every offset.  `MaxStarts` bounds the calls of `startCapture` and `start`,
`MaxTime` a clock (past the age of every clip; four intervals of the debounce
filter), `MaxCrashes` the crashes, `MaxSweeps` saturates `m_sweepsCompleted` at
the largest count anybody waits for.  Two requests, clips or visitors are the
fewest that can get in each other's way; a third shows the same interleavings
of pairs.  `AsksFor` and `Kinds` say what each of the two requests of the
facade and of the server may be, so that the runs stay short.  Both hold their
properties without these bounds too: the facade with either window for either
request has 386,000 states, the server with every pair of kinds and one more
window 522,000.
`MaxPoints` is 5 because a zone of four vertices is the smallest that
can cross itself and a drag across zones needs one more.  `MaxRecorded` is 3: a
whole line before the one that was cut, and one after it that never reached the
disk.  In the player
`MaxTasks` and `MaxFrames` guard user actions only, never an event of the
element.  `Pool` is 1 in `EventServer`: what holds when requests come one at a
time (after failures and timeouts of earlier ones too), and 2 in `MuxRace`,
which shows what more workers do.  The safety properties that speak of `lone`
hold with two workers as well: two `mux()` with that window, too, and the faults
`launch`, `play` and `mux` have 1.7 million states (`Pool = 2`, `CaptureClock` and
`Spec` in `EventServer.cfg`), too many beside the liveness properties, and
section 4 proves them for any number of workers.  `QueueLimit` is 1, so that a
segment of two frames can fill the queue.  `RunAt`, `Calls` and `Restarts` name the
instants at which the callers of S5 act and `CrossAt` those at which a visitor may
cross; everything else interleaves.  They are chosen so that rows of unequal
counts are merged: the rows [0, 4] and [4, 8] of the first link hold one stay and
two of another length, and in the second an empty row [-8, 0] and a populated
[0, 8] tile the window.
`MaxRows`, `MaxCrossings` and `MaxPending` bound the table, the history and the
bus.  Deadlock is checked where the system never stops; `CHECK_DEADLOCK FALSE`
is in the runs of the ring buffer, the facade, the server, the metrics and the
edges, whose source ends, whose requests are answered, whose time stops or whose
walk returns.

`QuotaDeletesOnlyAboveTarget` is checked where no two clips share a file, on
purpose: a row whose file is missing (a crash came between its removal and the
update of the row) weighs 0 in the projection, and if a new extraction of the
same event writes that file while the sweep runs, its removal frees what the
projection did not count: the next clip goes below the target.  The sizes are as old
as the sweep (`purge_media.cpp:71`), and the comment on `applyStrategy` speaks
of what earlier strategies freed, which is what the property says.  The disk of
this run is at the trigger when all its files are there and below the target
without the largest, so both branches of the quota are taken.

`RowsAreGrounded` compares a peak with the visitors there really were as long
as no exit was lost, late or rejected (`blind`): the filter cannot know of an
exit it never got.  `RollupAgrees` speaks of fine rows that tile the window and
split no stay; a stay across a border is counted by both of its windows, and
nothing in the code says it should not be.  `BodyIsReadAsMeant` is about
bodies that mean something: every field once and with a value of its type, and no
string spelt like a field.  `ReplayIsRecording` allows a shortened session in the
last line on disk and in a name with a space; that is what the code accepts.
`SettledOverlay` excepts the empty timeline, for which the code leaves the boxes of
the one before on the picture (section 5).  `ZonesAreSimple` is about edges that
cross, like `isValidPolygon`: a zone whose vertices lie on one line passes.
`LoopFollowsPlayback` excepts a
`loadVideo` during playback (`cutOff`), which stops the element without a
`pause` event and leaves the render loop running.

Fairness.  Threads of a process that can run eventually do (weak fairness on
the steps of each thread; strong for the daemon and `waitForSweeps`, which
compete for a mutex with callers that may come again and again).  No timeout
is fair in the facade and the daemon: `wait_for`'s timeout and the daemon's
interval may fail to come for ever, so the liveness properties show that the
*notification* arrives.  In `EventServer` a handler that can go on does
(`FairSpec`: `WF_vars(Handles(r))`), which includes its timeouts: they are finite
constants of the code (ten seconds, on the bus and for the window).  A push into
a full appsrc is the one wait without a timeout: it is not enabled there, and no
pipeline has to take a frame, so `Answered` and `ShutdownCompletes` say
that such a push, for ever (`[]Blocked(r)`), is all that can keep a request from
its answer and `main()` from its end.  `MuxBlocks` assumes more, that a pipeline
flows until an element fails (`FlowingSpec`), and `ShutdownEnds` fails all the
same; with `Faults = {}` it holds.  `StopServer` and `ServerJoined` are fair
because `main()` does not linger.  Nobody is obliged to call anything.  The
walk over a container goes on because one thread runs it (`BoxFairness`).  In
`RetentionSweep` the daemon sweeps again and again (its interval is finite), a
sweep goes on, and time passes; crashes are bounded but may come at any step.

## 4. Proofs

tlapm checks these for every value of the constants that satisfies the named
assumptions.

`RingBufferProofs`: `TypeInvariant`; `InductiveInvariant` (`IInv`);
`NoOverwrittenFrameAlways`; `CaptureOrderAlways`; `AccountingAlways`;
`RingBufferImplementsLog`; `SegmentCompleteAlways`; `SettledWindowAlways`;
`EvictionIsNeededAlways`.  `NoOverwrittenFrame` alone is not inductive: the
eviction loop only looks at the front of the queue, and stops at the first
frame that does not overlap.  That is enough because the queue is always two
laps, each in the order of its offsets, the older beyond the write pointer
(`TwoLaps`).  `IInv` is `TypeOK`, `TwoLaps`, `NoOverwrittenFrame`,
`CaptureOrder` and `Accounting`; `TwoLapsStep` is the hard lemma.  The
refinement follows from `CaptureOrder`: what leaves the queue is a prefix, so
what is left is a suffix of the old log.  What `segmentFor` answers follows from
`CaptureOrder` too, once its searches are known to find what they are after: a
set of naturals has a least element (`LeastNatural`, from the library's
well-founded relations, where an induction over data cannot be used), which
gives `Lowest` and `Highest`, the first stop of an eviction, and the frame an
answer begins with.  `SettledWindow` compares two answers across a step: the
part of the index inside the window is the same but for a prefix.
`EvictionIsNeeded` needs an invariant of its own, `FullLaps`: the frames of a lap
lie end to end (`EndToEnd`), the current lap begins at 0 and the previous one
ended within one longest frame of the end of the arena.  The lengths of a lap
then add up to the distance between its ends, and what is evicted, what stays
and the new frame exceed the arena less one longest frame.

`MediaRetentionProofs`: `LogInvAlways`, `LogTellsTruthAlways`,
`PurgedMediaGoneAlways` (the last under the assumption `"stat" \notin Faults`;
with that fault it is false, see the hazards).  That the log is true is not
inductive alone: `LogInv` adds that exactly the saved extractions have a row
(`RowsAreSaved`), and that the clip in the sweep's hands was released by nobody
and has no log line until the sweep's own update and line (`HeldClip`).  So an
exception or a crash between them leaves a clip that is retained, or released
without a line, never one with two.  For the files `ReleasedFile` says what
holds between `releaseFile` and `update`: the file is another, unreleased
clip's, or a retained clip names it too.  It survives an extraction in between
because a container that is written there belongs to a clip without a row.
`RetentionImplementsLedger`, under the same assumption, has one step per action
and needs both invariants: `HeldClip` for the line that comes once, and
`ReleasedFile` for the guard of `Release`.  `QuotaTakesOldestAlways` holds with
every fault.  `SweepInv` says that the candidates stay sorted by the date of their
rows (which no step changes), that a selection of the quota has no older
candidate left outside it at any place (`InQuotaOrder`), and that the clip in
hand is among the remaining ones no more.  It rests on what the loops over
candidates return: `Kept`, a recursive function over the indices kept, about
which `KeptIsSubsequence` is proved from the least place where they
would fail.  `Clips` is finite there and everywhere in the module
(`ClipsAssumption`), as the rows of a table are.
`QuotaDeletesOnlyAboveTargetAlways` assumes that no two clips share a file
(`NoneShared`); without it the property is false, as section 3 tells.  Every
fault, stuck files and crashes included, `QuotaInv` says that no file outweighs
its candidate (`MeasuredBefore`), and that the usage, less the clip in hand and
any number of those selected before the last, is at the target still
(`BeyondTarget`).  A selection establishes it because the projection has not
stopped before (`TakesPrefix`), a clip taken in hand passes its share on
(`SameFreed`: the rest of the list frees the rest of the sum), a file removed
frees what it was held against (`UsageFalls`), and an extraction only adds
(`UsageGrows`), because the clips of the lists are saved and the files of saved
clips are written no more.  `SumOfMore` is behind all four: a fold over a
finite set adds each element once, whichever the fold takes first.

`PurgeDaemonProofs`: `IInvAlways`, and from it `TypeCorrect`,
`StoppedMeansNoSweepAlways`, `RequestNotForgottenAlways` and
`FirstSweepOnStartAlways`.  The four invariants are inductive once
`FirstSweepOnStart` also covers the step before the wait
(`SweptBeforeWait`); a restart keeps them because the thread that `stop`
joined is gone (`StoppedMeansNoSweep`).

`CaptureFacadeProofs`: `InductiveInvariant` (`IInv`), from it
`TruncatedOnlyAfterTimeoutAlways` and `ClockFollowsSessionAlways` for any
requests, sessions and starts (the latter until a source thread dies of an
exception), and `NoClosedArenaAccessAlways` under `MaxStarts =< 1`, without
which it is false (section 5).  The invariant says who holds `m_mutex` at which
step (`MutexHeld`), that the source thread is joined before the arena is closed
(`SourceIsJoined`, `StoreClosedOnce`), that the clock is behind the index only
inside `onFrame` (`ClockInStep`), and why a wait is over (`WaitIsOver`): none of
the properties is inductive without who may change the index meanwhile.

`EventServerProofs`: `AnswerMatchesStoreAlways`, for any number of requests and
workers and any failures.  `StoreInv` adds that a clip is in the table exactly
from `save` on and that only the last step of a handler sets a status.
`LoneContainerIsOwnAlways`, `NoWriteAfterReturnAlways` and `SampleTimelineAlways` hold
for any number of requests and workers, any stream, any queue and any failures.
They are about the requests in `lone`; of others the first and the last are
false (`MuxRace`).  Their invariant `MuxInv` says for each handler what it may
count on (`Hand`): before its `mux()` its pipeline is untouched (`Fresh`); while
a lone one is inside, it is there alone (`Alone`), the members name its
pipeline once it is launched (`Ready`), and while that runs it holds the frames
pushed so far and the one callback that points to its container (`Feeding`); when
it is over, no running pipeline holds that callback and nobody finds its pipeline
in the members who could start it again.  Handlers that run into each other leave
anything at all in the members, but a lone one begins by stopping what it finds
there, and every handler only starts what the members name.  Each step is
therefore seen from three sides: what it touches (`Touches`), that it leaves the
pipelines of lone others alone (`Others`), and that it carries its own handler on
(`Own`).  For `SampleTimelineAlways` the recursive sum of the deltas is the
distance from the first frame because the clock does not go back in an index.
`NothingLostAlways` assumes
`InDecodeOrder`: the times the source stamps by (DTS, else PTS) do not go back.
Buffers come in decode order, which is why the code prefers DTS
(`appsink_frame_source.cpp:121`); the index drops what goes back.

`EdgeProofs` holds what is proved of the four edges.

- Editor: `EditorTypeInvariant`, `ZonesAreSimpleAlways`,
  `IntactUnlessInterruptedAlways`, `NothingThrowsUnlessInterrupted`, for any
  positions and any number of vertices.  A closed zone has no crossing because a
  zone is validated when it is closed and again before a drag is kept; the proof
  is about the bookkeeping and uses of the geometry only that it is a function of
  the vertices.  `NothingThrowsUnlessInterrupted` draws the conclusion: until an
  array is replaced under a drag no handler meets an `undefined`.
- Player: `PlayerTypeCorrect`, `LoopFollowsPlaybackAlways`,
  `SettledOverlayAlways` (for timelines that are not empty), for any length of the queue.  The invariant reads the
  queue as a plan (`QueueIsPlanned`): the number of frames pending after each
  queued event starts at what is pending now and ends at what the element needs,
  one while it plays and none while it is paused.  A stale overlay has a `seeked`
  in the queue.
- Scenario: `ScenarioInvAlways`, `ReplayIsRecordingAlways`,
  `IntactIsReplayableAlways`, for any frames and sessions and any number of them.
  `ScenarioInv` says that the index has a line for each frame and the bytes of the
  frame lie where its line says (`IndexIsRecording`), which later frames keep
  because they are appended; that a cut line is one of the index (`CutIsOfALine`);
  and that the entries of a replay are those of the disk (`PlaysWhatIsOnDisk`),
  which changes no more once there is a replay.  A byte of a frame is then read
  through two offsets, of the line and of the entry.
- Request: `BodyIsReadAsMeantAlways`, for a body of any number of fields in any
  order.  Every field has four tokens (`FieldTokens`), so the
  tokens of the body are known by field and place (`BodyPlaces`), and the first
  quoted string that is spelt like a name is the field's own key: `Plain` says
  that no value is spelt so.  The next colon is the field's own too, and after it
  comes its value; of a number that is sent as `1.5` the search for an integer
  stops at the point, which is why `Plain` asks for an integer.

`MetricsProofs`: `MetricsInvAlways`, `DebounceKeepsPaceAlways` and
`DebounceKeepsPaceInPipeline`, `RowsAreGroundedAlways`, `DwellIsExactAlways`,
`RollupAgreesAlways`, for any visitors, times, window sizes, chain and interval,
from the assumptions that a window has a length and the debounce interval is a
natural number.
The inductive invariant `MetricsInv` has two parts.

- `HistoryInv` relates what was ingested to what happened: the crossings of a
  visitor come by turns and at most one in an instant, and what is pending or was
  seen is one of them.  `DebounceKeepsPace` relates every two events seen, so its
  own invariant (`IngestInv`) says that `lastAcceptedAt` is the time of the last
  accepted event of its origin, later than all accepted before it.
- `RowsInv` says that each row of the table is plausible and, as long as `blind`
  is false, has a peak of at most the visitors of its window.  A measurement adds
  such a row because every visitor inside a timeline is inside a stay that meets
  the window (if no exit is missing).  A rollup adds one because the mean of
  averages within the length of the window is within it, and because its peak is
  that of one of its rows, whose window it contains.

`DwellIsExact` and `RollupAgrees` speak of what a measurement would yield now, so
they follow from `HistoryInv` without another induction on steps.  Whatever way
entries and exits are paired, the sum of the durations is the sum of exit times
less the sum of entry times, and a rearrangement changes neither
(`TotalRearranged`); and if a window holds whole stays, the places of
its timeline where someone enters are the starts of its stays, so its peak is the
stays' (`PeakOfEnds`).  For `RollupAgrees` the counting in `Tiles` is turned into
geometry: rows as many as their ends, whose starts are the ends of others, meet
end to start, none over another (`TilesMeet`, `NoneGoesOver`), so that every whole
stay of the window lies in exactly one.  Then counts and durations add up, the
weighted mean of the averages is the quotient of the two sums, and the time of
the highest peak lies in one of the rows.
`MetricsLemmas` has what of this is about numbers, fractions and sequences: that
a recursion along positions has a result at all (`RecursionRuns`), sums and their
order, and that the least place where something fails leads to a contradiction
(`NoneBad`), which stands for the induction over data that is out of reach.

Only model-checked: every liveness property (fairness is out of the provers'
reach), `ExpiredIsPurged` and `HashIsRepeatable` among them.  Every invariant
of every passing run is stated by a theorem.

## 5. Disagreements with the code's own words

Four runs find the code doing other than a comment or the README of S4 says; `PROJECT.json`
"findings" quotes each.

- `MuxRace`: the workers of the HTTP server share one muxer, whose members hold
  the pipeline of the latest `mux()`: a request writes a container that is not
  its segment.
- `MuxBlocks`: the push of a frame has no timeout (`block=TRUE`,
  `gstreamer_mp4_muxer.cpp:134`).  A pipeline that fails while its queue is full
  keeps the worker for ever, and `server.stop()` joins it: the clean end
  of `README.md:174` does not come.
- `RetentionAudit`: a lock set after the re-read is neither seen nor kept.
- `RetentionSharing`: the container of a new clip is written before its row
  exists, so the sibling check does not see it.

Six more are stated in the modules and can be reproduced by a change of a
configuration:

- `NoClosedArenaAccess` with `MaxStarts = 2` in `Capture.cfg`: a second
  `startCapture` (`ring_buffer_ram_facade.cpp:45`) feeds an arena that
  `stopCapture` closed for good.
- `NoMixedBases` as an invariant of `Capture.cfg`: the two ends of a
  window (`ring_buffer_ram_facade.cpp:141`) may be translated with the anchors
  of two sessions, while `capture_clock_bridge.hpp:22-23` speaks of one.
- `UnloggedIsReported` as a property of a retention run with the fault `log`:
  "never a silence" (`purge_media.cpp:153-154`) fails when a later strategy
  throws (`purge_media.cpp:158`).
- `BareEventIsServed` as an invariant of `Edges.cfg`: the README of the repository
  (lines 297-304) posts an `event_id` and nothing else and promises 201 and the
  last second; with a muxer the window around the newest frame has no length,
  `CaptureWindow` refuses it, and the answer is 500.
- `OverlayFollowsTimeline` as an invariant of `Edges.cfg`: the boxes are said to
  follow the intervals given to `loadMetadataTimeline()` (`README.md:389`), but
  for an empty list `drawCurrentFrame` returns before it clears the canvas
  (`b6_overlay_player.ts:266`): the old boxes stay, through seeks and playback,
  until a resize or a list that is not empty.
- `RecordedIsReplayable` as an invariant of `Edges.cfg`: the tool says that the
  recording was a success (`record_scenario.cpp:228`) without looking at its
  streams; one refused write, and the replay refuses the scenario.

Also met, without a property: `iso_bmff_timestamps.hpp:31-34` calls a date of 0 a
lie (it reads as 1904-01-01) and says that the whole container gets the same
sentinel, but the 64-bit dates of a version 1 header become 0 (`Constant`); a `capture_ts_ns` too long for 64 bits is dropped like an absent one;
with `"event_id": null` the name of the next field becomes the id.

Hazards without a run: a crash between the release and the log line leaves a
purge no log tells of; a `stat` that fails is taken for a missing file
(`FileMissing` with the fault `stat`), so that the row is released and the media
stays; a window that begins inside a visit makes a negative average, which
raises; a worker run repeated for the same time inserts its metrics again.

## 6. State of the project

Done: S4.1 to S4.4, S5.1, S5.2, S5.4, B6 and the scenario recorder as listed above.
What would come next:

1. The proof that `PurgeDaemon` calls the sweep one at a time, as the `Fairness` of
   `MediaRetention` assumes, by composing the two.
2. The heatmap of S5, once its arithmetic can be abstracted.
3. The player's progress bar while the user drags it.

Not modelled: the HTTP protocol itself, the JSON of answers, hashing, SQL schemas, the heatmap table with the homography and
density arithmetic (real numbers), the bus port without an implementation, the
mock facade that `RingBufferRAMFacade` replaced, the demo scenario and options of
`main` and of `record_scenario` (which source they build), and vendored `httplib`.
