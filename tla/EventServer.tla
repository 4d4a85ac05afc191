---------------------------- MODULE EventServer ----------------------------
(***************************************************************************)
(* S4.4 over S4.1 and S4.2: a POST /api/v1/events from the socket to the   *)
(* clip, as main() composes it.  The worker threads of the HTTP server run *)
(* one request each; every one of them muxes with the same                 *)
(* GStreamerMp4Muxer, whose members pipeline, source and sink are shared   *)
(* without a lock.  The mux is therefore taken apart at each access to     *)
(* them; a pipeline is named after the request whose mux() launched it.    *)
(*                                                                         *)
(* The frames come from the appsink source, which stamps them with DTS or  *)
(* PTS, into the index (the abstract log that RingBuffer implements,       *)
(* without its evictions, which are that module's subject; every frame is  *)
(* a keyframe here).  Threads of GStreamer and of the HTTP library are     *)
(* external.                                                               *)
(***************************************************************************)
EXTENDS Integers, Sequences, FiniteSets

CONSTANTS
    Requests,   \* the requests clients send
    Pool,       \* how many handlers run at once
    Kinds,      \* what each may be: "bad", "at", "now", "wall", "get"
    Stream,     \* what the pipeline delivers: [dts, pts], in decode order
    BaseTime,   \* gst_element_get_base_time of the capture pipeline
    Windows,    \* [ts, pre, post] a request may carry
    FrameGap,   \* the duration of a sample whose successor is not later
    QueueLimit, \* how many frames an appsrc queues before a push waits
    Faults,     \* which calls may fail
    NoTime,     \* an invalid GstClockTime
    None        \* a null pointer

ASSUME PoolAssumption == Pool \in Nat \ {0}
ASSUME RequestsAssumption == IsFiniteSet(Requests) /\ None \notin Requests
ASSUME StreamAssumption ==
    /\ Stream \in Seq([dts : Nat \cup {NoTime}, pts : Nat \cup {NoTime}])
    /\ NoTime \notin Nat
ASSUME WindowsAssumption == Windows \subseteq [ts : Int, pre : Nat, post : Nat]
ASSUME BaseAssumption == BaseTime \in Nat /\ FrameGap \in Nat \ {0}
ASSUME QueueAssumption == QueueLimit \in Nat \ {0}

VARIABLES
    arrived,    \* samples of Stream delivered so far
    log,        \* the frames indexed: [id, ts]
    main,       \* where main() is
    at,         \* where each request's handler is
    kind, asked, target,  \* what it carries: kind, window, clip asked for
    status,     \* the HTTP status answered, 0 before
    segment,    \* the frames of its ExtractedSegment
    pushed,     \* how many of them went into an appsrc
    appsrc,     \* the pipeline whose appsrc mux() took
    bus,        \* the pipeline on whose bus it waits
    container,  \* the vector its mux() fills: samples [id, ts, dur]
    members,    \* m_impl of the muxer: [pipeline, source, sink]
    pipes,      \* the pipelines: [state, fed, taken, eos, emitted, message, sinks]
    lone,       \* history: whose mux() has met no other mux() so far
    rows        \* the requests whose clip is saved

captureVars == <<arrived, log>>
carried == <<kind, asked, target>>
muxVars == <<pushed, appsrc, bus, container, members, pipes, lone>>
vars == <<captureVars, main, at, carried, status, segment, muxVars, rows>>

\* Of the frames fed to a pipeline its streaming thread has taken the first
\* ones; it takes no more once it has emitted the container or failed.
NewPipe == [state |-> "none", fed |-> <<>>, taken |-> 0, eos |-> FALSE,
            emitted |-> FALSE, message |-> "none", sinks |-> <<>>]
NoWindow == [ts |-> 0, pre |-> 0, post |-> 0]
May(call) == call \in Faults

-----------------------------------------------------------------------------
(***************************************************************************)
(* The appsink source and the index.                                       *)
(***************************************************************************)
\* Slip: presentation order.
PresentationTime(sample) == sample.pts
BufferTime(sample) == IF sample.dts # NoTime THEN sample.dts ELSE sample.pts

Capturing == main = "serving"
Newest == IF log = <<>> THEN 0 ELSE log[Len(log)].ts

\* on_new_sample: a sample without any time is dropped, and so is, by
\* rejectIfClockWentBackwards, one that is older than the newest frame.
NewSample ==
    /\ Capturing
    /\ arrived < Len(Stream)
    /\ arrived' = arrived + 1
    /\ LET time == BufferTime(Stream[arrived + 1])
           ts == BaseTime + time
       IN  IF time # NoTime /\ (log = <<>> \/ ts >= Newest)
           THEN log' = Append(log, [id |-> arrived + 1, ts |-> ts])
           ELSE log' = log
    /\ UNCHANGED <<main, at, carried, status, segment, muxVars, rows>>

-----------------------------------------------------------------------------
(***************************************************************************)
(* The handler around the mux.                                             *)
(***************************************************************************)
Active == {r \in Requests : at[r] \notin {"idle", "done"}}

Goes(r, place) == at' = [at EXCEPT ![r] = place]
Answers(r, code) ==
    /\ Goes(r, "done")
    /\ status' = [status EXCEPT ![r] = code]
Throws(r) == Answers(r, 500)

\* A worker takes the request off the queue.
Accepted(r) ==
    /\ at[r] = "idle"
    /\ main \in {"serving", "captureStopped"}
    /\ Cardinality(Active) < Pool
    /\ \E k \in Kinds[r], w \in Windows, c \in Requests :
          /\ k \in {"bad", "get"} => w = NoWindow
          /\ k # "get" => c = r
          /\ kind' = [kind EXCEPT ![r] = k]
          /\ asked' = [asked EXCEPT ![r] = w]
          /\ target' = [target EXCEPT ![r] = c]
    /\ Goes(r, "parse")
    /\ UNCHANGED <<captureVars, main, status, segment, muxVars, rows>>

\* GET /api/v1/clips/{id}: the descriptor, 404, or 500 when the query throws.
GetClip(r) ==
    /\ at[r] = "parse" /\ kind[r] = "get"
    /\ \/ Answers(r, IF target[r] \in rows THEN 200 ELSE 404)
       \/ May("find") /\ Throws(r)
    /\ UNCHANGED <<captureVars, main, carried, segment, muxVars, rows>>

\* parse_event_request and is_valid_event_id.
BadRequest(r) ==
    /\ at[r] = "parse" /\ kind[r] = "bad"
    /\ Answers(r, 400)
    /\ UNCHANGED <<captureVars, main, carried, segment, muxVars, rows>>

\* The capture-clock path: "at" names an instant, "now" is the newest one.
EventTs(r) == IF kind[r] = "at" THEN asked[r].ts ELSE Newest
FirstNs(r) == asked[r].ts - asked[r].pre
LastNs(r) == asked[r].ts + asked[r].post

NoClockYet(r) ==
    /\ at[r] = "parse" /\ kind[r] \in {"at", "now"}
    /\ EventTs(r) = 0
    /\ Answers(r, 409)
    /\ UNCHANGED <<captureVars, main, carried, segment, muxVars, rows>>

\* CaptureWindow::around refuses a window without length: pre and post are 0
\* unless the request names them.
WindowAsked(r) ==
    /\ at[r] = "parse" /\ kind[r] \in {"at", "now"}
    /\ EventTs(r) # 0
    /\ asked' = [asked EXCEPT ![r].ts = EventTs(r)]
    /\ IF asked[r].pre + asked[r].post = 0
       THEN Throws(r)
       ELSE Goes(r, "wait") /\ UNCHANGED status
    /\ UNCHANGED <<captureVars, main, kind, target, segment, muxVars, rows>>

\* The index of the last frame captured by then, the log being in order.
UpTo(t) == Cardinality({i \in DOMAIN log : log[i].ts =< t})

\* segmentFor: from the last frame at or before the start of the window, or
\* the first in it, to the last in it; nothing at all if none is in it.
Segment(r) ==
    IF \E i \in DOMAIN log : FirstNs(r) =< log[i].ts /\ log[i].ts =< LastNs(r)
    THEN SubSeq(log, IF UpTo(FirstNs(r)) = 0 THEN 1 ELSE UpTo(FirstNs(r)),
                     UpTo(LastNs(r)))
    ELSE <<>>

\* extractCaptureWindow: the window's end arrived, or the wait ran out, which
\* may happen at any moment.  Nothing in the window is an error.
SegmentExtracted(r) ==
    /\ at[r] = "wait"
    /\ Capturing
    /\ segment' = [segment EXCEPT ![r] = Segment(r)]
    /\ IF Segment(r) = <<>>
       THEN Throws(r)
       ELSE Goes(r, "drop") /\ UNCHANGED status
    /\ UNCHANGED <<captureVars, main, carried, muxVars, rows>>

\* Slip: nobody wakes the waiter.
StopNotSeen(r) == FALSE

CaptureStopped(r) ==
    /\ at[r] = "wait"
    /\ ~Capturing
    /\ Throws(r)
    /\ UNCHANGED <<captureVars, main, carried, segment, muxVars, rows>>

\* The wall-clock path: readWindow answers no frames once capture stopped,
\* and the frames are written as they are, under the same name.
LegacyRead(r) ==
    /\ at[r] = "parse" /\ kind[r] = "wall"
    /\ segment' = [segment EXCEPT ![r] = IF Capturing THEN Segment(r) ELSE <<>>]
    /\ IF segment'[r] = <<>>
       THEN Throws(r)
       ELSE Goes(r, "write") /\ UNCHANGED status
    /\ UNCHANGED <<captureVars, main, carried, muxVars, rows>>

\* Slip: the failure of a write is swallowed.
WriteIgnored(r) ==
    /\ at[r] = "write"
    /\ \/ Goes(r, "save") /\ UNCHANGED status
       \/ May("write") /\ Goes(r, "describe") /\ UNCHANGED status
    /\ UNCHANGED <<captureVars, main, carried, segment, muxVars, rows>>

\* FileStorage::write, the hash, toWallClock and save(): a failure leaves no
\* row.
FileWritten(r) ==
    /\ at[r] = "write"
    /\ \/ Goes(r, "save") /\ UNCHANGED status
       \/ May("write") /\ Throws(r)
    /\ UNCHANGED <<captureVars, main, carried, segment, muxVars, rows>>

ClipSaved(r) ==
    /\ at[r] = "save"
    /\ \/ Goes(r, "describe") /\ rows' = rows \cup {r} /\ UNCHANGED status
       \/ May("save") /\ Throws(r) /\ UNCHANGED rows
    /\ UNCHANGED <<captureVars, main, carried, segment, muxVars>>

\* The controller reads the row back.
Described(r) ==
    /\ at[r] = "describe"
    /\ \/ Answers(r, 201)
       \/ May("find") /\ Throws(r)
    /\ UNCHANGED <<captureVars, main, carried, segment, muxVars, rows>>

-----------------------------------------------------------------------------
(***************************************************************************)
(* GStreamerMp4Muxer::mux.                                                 *)
(***************************************************************************)
Delta(s, i) ==
    IF i > 1 /\ s[i].ts > s[i - 1].ts THEN s[i].ts - s[i - 1].ts ELSE 0

\* Slip: each delta taken for the timestamp.
DeltaAsTime(s, i) == 1 + Delta(s, i)

\* The deltas added up, from 1 ns on.
SampleTime(s, i) ==
    LET running[k \in 1 .. i] ==
            IF k = 1 THEN 1 ELSE running[k - 1] + Delta(s, k)
    IN  running[i]

\* Up to the next sample; for the last one, the last delta there was.
SampleDuration(s, i) ==
    LET moves == {k \in 1 .. Len(s) : Delta(s, k) > 0}
        last == IF moves = {} THEN 0
                ELSE Delta(s, CHOOSE k \in moves : \A j \in moves : j =< k)
        gap == IF i < Len(s) THEN Delta(s, i + 1) ELSE last
    IN  IF gap = 0 THEN FrameGap ELSE gap

Sample(s, i) ==
    [id |-> s[i].id, ts |-> SampleTime(s, i), dur |-> SampleDuration(s, i)]

\* Slip: the pipeline is left running.
LeftRunning(p) == pipes

\* gst_element_set_state(p, NULL), which empties the bus too.
Silenced(p) ==
    IF p = None THEN pipes
    ELSE [pipes EXCEPT ![p].state = "null", ![p].message = "none"]

MuxThrows(r) == Throws(r) /\ UNCHANGED <<pushed, appsrc, bus, container>>
MuxElsewhere == UNCHANGED <<captureVars, main, carried, segment, rows, lone>>

\* The calls of mux() that have touched the members and are not over.
InMux == {r \in Requests :
             at[r] \in {"launch", "ends", "connect", "play", "push", "bus", "pop"}}

DropOldPipeline(r) ==
    /\ at[r] = "drop"
    /\ Goes(r, "launch")
    /\ pipes' = Silenced(members.pipeline)
    /\ members' = [members EXCEPT !.pipeline = None]
    /\ lone' = IF InMux = {} THEN lone \cup {r} ELSE lone \ InMux
    /\ UNCHANGED <<captureVars, main, carried, status, segment, pushed, appsrc, bus,
                   container, rows>>

LaunchPipeline(r) ==
    /\ at[r] = "launch"
    /\ \/ /\ Goes(r, "ends")
          /\ pipes' = [pipes EXCEPT ![r].state = "null"]
          /\ members' = [members EXCEPT !.pipeline = r]
          /\ UNCHANGED <<status, pushed, appsrc, bus, container>>
       \/ /\ May("launch")
          /\ members' = [members EXCEPT !.pipeline = None]
          /\ UNCHANGED pipes
          /\ MuxThrows(r)
    /\ MuxElsewhere

\* gst_bin_get_by_name, of whatever m_impl->pipeline is by now.
EndsTaken == [members EXCEPT !.source = members.pipeline, !.sink = members.pipeline]

TakeEnds(r) ==
    /\ at[r] = "ends"
    /\ members' = EndsTaken
    /\ IF members'.source = None
       THEN MuxThrows(r)
       ELSE /\ Goes(r, "connect")
            /\ UNCHANGED <<status, pushed, appsrc, bus, container>>
    /\ UNCHANGED pipes
    /\ MuxElsewhere

ConnectSink(r) ==
    /\ at[r] = "connect"
    /\ Goes(r, "play")
    /\ appsrc' = [appsrc EXCEPT ![r] = members.source]
    /\ pipes' = IF members.sink = None THEN pipes
                ELSE [pipes EXCEPT ![members.sink].sinks = Append(@, r)]
    /\ UNCHANGED <<status, pushed, bus, container, members>>
    /\ MuxElsewhere

Started(pipe) ==
    IF pipe.state = "playing" THEN pipe
    ELSE [NewPipe EXCEPT !.state = "playing", !.sinks = pipe.sinks]

SetPlaying(r) ==
    /\ at[r] = "play"
    /\ \/ /\ members.pipeline # None
          /\ Goes(r, "push")
          /\ pipes' = [pipes EXCEPT ![members.pipeline] = Started(@)]
          /\ UNCHANGED <<status, pushed, appsrc, bus, container>>
       \/ /\ members.pipeline = None \/ May("play")
          /\ UNCHANGED pipes
          /\ MuxThrows(r)
    /\ UNCHANGED members
    /\ MuxElsewhere

\* Slip: the last frame has no successor and is left out.
SuccessorCount(r) == Len(segment[r]) - 1
FrameCount(r) == Len(segment[r])

\* An appsrc that is not there, not running or past its EOS refuses a buffer.
Accepts(p) == p # None /\ pipes[p].state = "playing" /\ ~pipes[p].eos
QueueFull(p) == Len(pipes[p].fed) - pipes[p].taken >= QueueLimit

\* block=TRUE: the push waits, without a timeout, while the queue is full.  A
\* pipeline that failed leaves it full: it only posts a message.
PushFrame(r) ==
    /\ at[r] = "push"
    /\ pushed[r] < FrameCount(r)
    /\ \/ /\ Accepts(appsrc[r]) /\ ~QueueFull(appsrc[r])
          /\ pushed' = [pushed EXCEPT ![r] = @ + 1]
          /\ pipes' = [pipes EXCEPT ![appsrc[r]].fed =
                           Append(@, Sample(segment[r], pushed[r] + 1))]
          /\ UNCHANGED <<at, status, appsrc, bus, container>>
       \/ /\ ~Accepts(appsrc[r])
          /\ pipes' = Silenced(members.pipeline)
          /\ MuxThrows(r)
    /\ UNCHANGED members
    /\ MuxElsewhere

EndOfStream(r) ==
    /\ at[r] = "push"
    /\ pushed[r] = FrameCount(r)
    /\ Goes(r, "bus")
    /\ pipes' = IF Accepts(appsrc[r]) THEN [pipes EXCEPT ![appsrc[r]].eos = TRUE]
                ELSE pipes
    /\ UNCHANGED <<status, pushed, appsrc, bus, container, members>>
    /\ MuxElsewhere

GetBus(r) ==
    /\ at[r] = "bus"
    /\ Goes(r, "pop")
    /\ bus' = [bus EXCEPT ![r] = members.pipeline]
    /\ UNCHANGED <<status, pushed, appsrc, container, members, pipes>>
    /\ MuxElsewhere

\* The message is there: EOS, with a container, or the reason to throw.
PopMessage(r) ==
    /\ at[r] = "pop"
    /\ bus[r] # None
    /\ pipes[bus[r]].message # "none"
    /\ pipes' = [Silenced(members.pipeline) EXCEPT ![bus[r]].message = "none"]
    /\ IF pipes[bus[r]].message = "eos" /\ container[r] # <<>>
       THEN Goes(r, "write") /\ UNCHANGED status
       ELSE Throws(r)
    /\ UNCHANGED <<pushed, appsrc, bus, container, members>>
    /\ MuxElsewhere

\* Slip: GST_CLOCK_TIME_NONE for the timeout.
PopsForEver(r) == FALSE

\* Ten seconds, which may pass at any moment.
PopTimesOut(r) ==
    /\ at[r] = "pop"
    /\ pipes' = Silenced(members.pipeline)
    /\ MuxThrows(r)
    /\ UNCHANGED members
    /\ MuxElsewhere

Mux(r) ==
    \/ DropOldPipeline(r) \/ LaunchPipeline(r) \/ TakeEnds(r) \/ ConnectSink(r)
    \/ SetPlaying(r) \/ PushFrame(r) \/ EndOfStream(r) \/ GetBus(r)
    \/ PopMessage(r) \/ PopTimesOut(r)

\* The streaming thread of the appsrc takes the next frame of its queue.
FrameTaken(p) ==
    /\ pipes[p].state = "playing" /\ ~pipes[p].emitted
    /\ pipes[p].taken < Len(pipes[p].fed)
    /\ pipes' = [pipes EXCEPT ![p].taken = @ + 1]
    /\ UNCHANGED <<at, status, pushed, appsrc, bus, container, members>>
    /\ MuxElsewhere

\* mp4mux with faststart puts everything out at EOS.  The first callback of
\* the sink takes it; a second one would wait inside the streaming thread
\* for another sample, and no EOS reaches the bus.
ContainerEmitted(p) ==
    /\ pipes[p].state = "playing" /\ pipes[p].eos /\ ~pipes[p].emitted
    /\ pipes[p].taken = Len(pipes[p].fed)
    /\ pipes[p].sinks # <<>>
    /\ container' = [container EXCEPT ![Head(pipes[p].sinks)] = @ \o pipes[p].fed]
    /\ pipes' = [pipes EXCEPT ![p].emitted = TRUE,
                    ![p].message = IF Len(pipes[p].sinks) = 1 THEN "eos" ELSE @]
    /\ UNCHANGED <<at, status, pushed, appsrc, bus, members>>
    /\ MuxElsewhere

\* An element of the pipeline reports an error, and the stream stops flowing.
PipelineFails(p) ==
    /\ May("mux")
    /\ pipes[p].state = "playing" /\ pipes[p].message = "none"
    /\ pipes' = [pipes EXCEPT ![p].message = "error", ![p].emitted = TRUE]
    /\ UNCHANGED <<at, status, pushed, appsrc, bus, container, members>>
    /\ MuxElsewhere

-----------------------------------------------------------------------------
(***************************************************************************)
(* main(): stopCapture(), then server.stop(), which closes the socket and  *)
(* joins the workers.                                                      *)
(***************************************************************************)
StopCapture ==
    /\ main = "serving"
    /\ main' = "captureStopped"
    /\ UNCHANGED <<captureVars, at, carried, status, segment, muxVars, rows>>

StopServer ==
    /\ main = "captureStopped"
    /\ main' = "joining"
    /\ UNCHANGED <<captureVars, at, carried, status, segment, muxVars, rows>>

ServerJoined ==
    /\ main = "joining"
    /\ Active = {}
    /\ main' = "stopped"
    /\ UNCHANGED <<captureVars, at, carried, status, segment, muxVars, rows>>

Init ==
    /\ arrived = 0 /\ log = <<>>
    /\ main = "serving"
    /\ at = [r \in Requests |-> "idle"]
    /\ kind = [r \in Requests |-> "bad"]
    /\ asked = [r \in Requests |-> NoWindow]
    /\ target = [r \in Requests |-> r]
    /\ status = [r \in Requests |-> 0]
    /\ segment = [r \in Requests |-> <<>>]
    /\ pushed = [r \in Requests |-> 0]
    /\ appsrc = [r \in Requests |-> None]
    /\ bus = [r \in Requests |-> None]
    /\ container = [r \in Requests |-> <<>>]
    /\ members = [pipeline |-> None, source |-> None, sink |-> None]
    /\ pipes = [r \in Requests |-> NewPipe]
    /\ lone = {}
    /\ rows = {}

Handles(r) ==
    \/ GetClip(r) \/ BadRequest(r) \/ NoClockYet(r) \/ WindowAsked(r)
    \/ SegmentExtracted(r) \/ CaptureStopped(r) \/ LegacyRead(r)
    \/ Mux(r) \/ FileWritten(r) \/ ClipSaved(r) \/ Described(r)

Streams(p) == FrameTaken(p) \/ ContainerEmitted(p) \/ PipelineFails(p)

Next ==
    \/ NewSample
    \/ \E r \in Requests : Accepted(r) \/ Handles(r) \/ Streams(r)
    \/ StopCapture \/ StopServer \/ ServerJoined

Spec == Init /\ [][Next]_vars

\* A handler that can go on does: its waits for the end of a window and for a
\* message end by a timeout, but a push into a full appsrc does not end until
\* a frame is taken or the pipeline is stopped.  main() does not linger once
\* it is stopping.  Nobody has to send a frame, and no pipeline has to flow.
FairSpec ==
    /\ Spec
    /\ \A r \in Requests : WF_vars(Handles(r))
    /\ WF_vars(StopServer) /\ WF_vars(ServerJoined)

\* The pipelines flow, too, unless an element of theirs fails.
FlowingSpec ==
    /\ FairSpec
    /\ \A p \in Requests : WF_vars(FrameTaken(p)) /\ WF_vars(ContainerEmitted(p))

-----------------------------------------------------------------------------
(***************************************************************************)
(* Properties.                                                             *)
(***************************************************************************)
Muxed(r) == kind[r] \in {"at", "now"} /\ at[r] \in {"write", "save", "describe"}
Ids(s) == [i \in DOMAIN s |-> s[i].id]

\* The container a request writes is the whole of its own segment and nothing
\* else: every frame of the segment once, in decode order.
OwnContainer(r) == Muxed(r) => Ids(container[r]) = Ids(segment[r])

\* media_muxer.hpp:38: of every request ("Muxa o segmento e devolve o container
\* completo.").
ContainerIsOwn == \A r \in Requests : OwnContainer(r)

\* gstreamer_mp4_muxer.cpp: of a request whose mux() met no other one, whatever
\* muxes failed, timed out or ran into each other before it and after it.
LoneContainerIsOwn == \A r \in lone : OwnContainer(r)

\* The samples of such a container are as far apart as the frames were
\* captured, and each lasts until the next one, unless that is not later.
SampleTimeline ==
    \A r \in lone : Muxed(r) =>
        \A i \in 2 .. Len(container[r]) :
            LET gap == segment[r][i].ts - segment[r][i - 1].ts
            IN  /\ container[r][i].ts - container[r][i - 1].ts = gap
                /\ container[r][i - 1].dur = (IF gap = 0 THEN FrameGap ELSE gap)

\* Once such a mux() is over, by return or by exception, no running pipeline
\* holds the address of its container, which is gone with its stack frame.
NoWriteAfterReturn ==
    \A r \in lone :
        at[r] \in {"write", "save", "describe", "done"} =>
            \A p \in Requests : pipes[p].state = "playing" =>
                \A i \in DOMAIN pipes[p].sinks : pipes[p].sinks[i] # r

\* A source with B-frames loses none of them: what carries a time is indexed,
\* in the order it was delivered, which is the order it decodes in.
NothingLost ==
    LET timed == {i \in 1 .. arrived : BufferTime(Stream[i]) # NoTime}
    IN  /\ {log[i].id : i \in DOMAIN log} = timed
        /\ \A i, j \in DOMAIN log : i < j => log[i].id < log[j].id

\* 201 is answered for a clip that is saved, and for nothing else: a client
\* that was refused has no row, unless only reading it back failed.
AnswerMatchesStore ==
    \A r \in Requests :
        /\ status[r] = 201 => r \in rows
        /\ r \in rows /\ at[r] = "done" => status[r] = 201 \/ May("find")

\* The push of a frame waits at the full queue of a running pipeline.
Blocked(r) ==
    /\ at[r] = "push" /\ pushed[r] < FrameCount(r)
    /\ Accepts(appsrc[r]) /\ QueueFull(appsrc[r])

\* Frames may stop coming, pipelines may fail and capture may stop under a
\* request: it is answered, unless its push waits for ever at a full appsrc.
\* No other wait of a handler is without an end.
Answered ==
    \A r \in Requests : at[r] = "parse" ~> (at[r] = "done" \/ []Blocked(r))

\* The shutdown of main() ends, unless one of the workers it joins waits for
\* ever in such a push: nothing else can hold it up.
ShutdownCompletes ==
    main = "captureStopped" ~> (main = "stopped" \/ \E r \in Requests : []Blocked(r))

\* README.md:174: a shutdown while events come in ends, cleanly.
ShutdownEnds == main = "captureStopped" ~> main = "stopped"

=============================================================================
