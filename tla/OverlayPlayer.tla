--------------------------- MODULE OverlayPlayer ---------------------------
(***************************************************************************)
(* The video player of b6_overlay_player.ts, which draws the boxes of the  *)
(* metadata timeline over the video.  The media element and the event loop *)
(* of the browser are external: play(), pause() and the end of the media   *)
(* change the element at once and queue the event the player listens to;   *)
(* load() discards the queued events and stops playback without one.       *)
(* The player draws from animation frames it asks for one by one, from     *)
(* 'play' to 'pause', and on seeks, resizes and new timelines.             *)
(***************************************************************************)
EXTENDS Integers, Sequences

CONSTANTS
    Duration,   \* the last instant of the video
    Timelines,  \* the timelines loaded, each a set of [start, end]
    MaxTasks,   \* bound: the user acts while fewer events are queued
    MaxFrames,  \* bound: videos are loaded while fewer frames are pending
    NoFrame     \* animationFrameId is null

ASSUME DurationAssumption == Duration \in Nat \ {0}
ASSUME BoundsAssumption == MaxTasks \in Nat /\ MaxFrames \in Nat
ASSUME NoFrameAssumption == NoFrame \notin Nat

VARIABLES
    ready,             \* the element has the video's metadata
    paused,
    currentTime,
    tasks,             \* media events queued, oldest first
    pendingFrames,     \* callbacks waiting for the next animation frame
    animationFrameId,  \* NoFrame or the one of them the player remembers
    label,             \* what the button offers to do: "play" or "pause"
    timelineData,
    canvas,            \* the intervals whose boxes are on the canvas
    cutOff,            \* history: load() stopped playback or dropped an event
    timeMoved          \* history: playback or load() moved the time and
                       \* nothing drew since

mediaVars == <<ready, paused, currentTime, tasks>>
loopVars == <<pendingFrames, animationFrameId, label>>
overlayVars == <<timelineData, canvas, timeMoved>>
playerVars == <<mediaVars, loopVars, overlayVars, cutOff>>

Time == 0 .. Duration
Interval == UNION Timelines

-----------------------------------------------------------------------------
(***************************************************************************)
(* drawCurrentFrame and the render loop.                                   *)
(***************************************************************************)
Active(data, t) == {i \in data : i.start =< t /\ t =< i.end}

\* An empty timeline returns before the canvas is cleared.
Drawn(data, t) == IF data = {} THEN canvas ELSE Active(data, t)

DrawCurrentFrame(data, t) ==
    /\ canvas' = Drawn(data, t)
    /\ timeMoved' = (timeMoved /\ data = {})

\* startRenderLoop asks for a frame whatever was asked for before.
StartRenderLoop ==
    /\ pendingFrames' = pendingFrames + 1
    /\ animationFrameId' = pendingFrames + 1

\* Slip: the frame is forgotten but not cancelled.
ForgetRenderLoop ==
    /\ pendingFrames' = pendingFrames
    /\ animationFrameId' = NoFrame

\* stopRenderLoop cancels the one frame it remembers, always the last.
StopRenderLoop ==
    /\ pendingFrames' = pendingFrames
                          - (IF animationFrameId = NoFrame THEN 0 ELSE 1)
    /\ animationFrameId' = NoFrame

\* The 'play' and 'pause' handlers.
OnPlay == label' = "pause" /\ StartRenderLoop
OnPause == label' = "play" /\ StopRenderLoop

\* An animation frame: every pending callback draws and asks for the next.
AnimationFrame ==
    /\ pendingFrames > 0
    /\ DrawCurrentFrame(timelineData, currentTime)
    /\ animationFrameId' = pendingFrames
    /\ UNCHANGED <<mediaVars, pendingFrames, label, timelineData, cutOff>>

-----------------------------------------------------------------------------
(***************************************************************************)
(* The media element.                                                      *)
(***************************************************************************)
Ended == ready /\ currentTime = Duration

Tick ==
    /\ ready /\ ~paused
    /\ currentTime < Duration
    /\ currentTime' = currentTime + 1
    /\ timeMoved' = TRUE
    /\ UNCHANGED <<ready, paused, tasks, loopVars, timelineData, canvas, cutOff>>

\* The element finds itself at the end, some time after it got there.
EndOfMedia ==
    /\ Ended /\ ~paused
    /\ paused' = TRUE
    /\ tasks' = Append(tasks, "pause")
    /\ UNCHANGED <<ready, currentTime, loopVars, overlayVars, cutOff>>

PlayDispatched ==
    /\ tasks # <<>> /\ Head(tasks) = "play"
    /\ tasks' = Tail(tasks)
    /\ OnPlay
    /\ UNCHANGED <<ready, paused, currentTime, overlayVars, cutOff>>

PauseDispatched ==
    /\ tasks # <<>> /\ Head(tasks) = "pause"
    /\ tasks' = Tail(tasks)
    /\ OnPause
    /\ UNCHANGED <<ready, paused, currentTime, overlayVars, cutOff>>

SeekedDispatched ==
    /\ tasks # <<>> /\ Head(tasks) = "seeked"
    /\ tasks' = Tail(tasks)
    /\ DrawCurrentFrame(timelineData, currentTime)
    /\ UNCHANGED <<ready, paused, currentTime, loopVars, timelineData, cutOff>>

MetadataLoaded ==
    /\ ~ready
    /\ ready' = TRUE
    /\ UNCHANGED <<paused, currentTime, tasks, loopVars, overlayVars, cutOff>>

-----------------------------------------------------------------------------
(***************************************************************************)
(* The controls and the public methods.                                    *)
(***************************************************************************)
\* togglePlay, which plays: play() goes back to the start from the end, and
\* an element that is not paused (it has not noticed the end yet) fires nothing.
TogglePlayPlays ==
    /\ Len(tasks) < MaxTasks
    /\ paused \/ Ended
    /\ paused' = FALSE
    /\ currentTime' = IF Ended THEN 0 ELSE currentTime
    /\ tasks' = tasks \o (IF paused THEN <<"play">> ELSE <<>>)
                      \o (IF Ended THEN <<"seeked">> ELSE <<>>)
    /\ UNCHANGED <<ready, loopVars, overlayVars, cutOff>>

TogglePlayPauses ==
    /\ Len(tasks) < MaxTasks
    /\ ~paused /\ ~Ended
    /\ paused' = TRUE
    /\ tasks' = Append(tasks, "pause")
    /\ UNCHANGED <<ready, currentTime, loopVars, overlayVars, cutOff>>

\* The progress bar's 'change'.  Without a duration the assignment to
\* currentTime throws, and nothing happens here.
Seek(t) ==
    /\ Len(tasks) < MaxTasks
    /\ ready
    /\ currentTime' = t
    /\ tasks' = Append(tasks, "seeked")
    /\ DrawCurrentFrame(timelineData, t)
    /\ UNCHANGED <<ready, paused, loopVars, timelineData, cutOff>>

\* The element that is not EMPTY any more goes back to time 0, paused.
LoadVideo ==
    /\ pendingFrames < MaxFrames
    /\ ready' = FALSE
    /\ paused' = TRUE
    /\ currentTime' = 0
    /\ tasks' = <<>>
    /\ cutOff' = (cutOff \/ ~paused \/ tasks # <<>>)
    /\ timeMoved' = (timeMoved \/ currentTime # 0 \/ tasks # <<>>)
    /\ UNCHANGED <<loopVars, timelineData, canvas>>

\* Slip: a new timeline waits for the next frame.
LoadTimelineQuietly(data) ==
    /\ timelineData' = data
    /\ UNCHANGED <<mediaVars, loopVars, canvas, timeMoved, cutOff>>

LoadMetadataTimeline(data) ==
    /\ timelineData' = data
    /\ DrawCurrentFrame(data, currentTime)
    /\ UNCHANGED <<mediaVars, loopVars, cutOff>>

\* The resize observer: a new size clears the canvas, then forceRender.
Resize ==
    /\ canvas' = Active(timelineData, currentTime)
    /\ timeMoved' = FALSE
    /\ UNCHANGED <<mediaVars, loopVars, timelineData, cutOff>>

\* After the constructor: autoPlay asked for playback, or not.
PlayerInit ==
    /\ ready = FALSE
    /\ paused \in BOOLEAN
    /\ currentTime = 0
    /\ tasks = IF paused THEN <<>> ELSE <<"play">>
    /\ pendingFrames = 0
    /\ animationFrameId = NoFrame
    /\ label = "play"
    /\ timelineData = {}
    /\ canvas = {}
    /\ cutOff = FALSE
    /\ timeMoved = FALSE

PlayerNext ==
    \/ AnimationFrame
    \/ Tick
    \/ PlayDispatched
    \/ PauseDispatched
    \/ SeekedDispatched
    \/ EndOfMedia
    \/ MetadataLoaded
    \/ TogglePlayPlays
    \/ TogglePlayPauses
    \/ \E t \in Time : Seek(t)
    \/ LoadVideo
    \/ \E data \in Timelines : LoadMetadataTimeline(data)
    \/ Resize

PlayerSpec == PlayerInit /\ [][PlayerNext]_playerVars

-----------------------------------------------------------------------------
(***************************************************************************)
(* Properties.                                                             *)
(***************************************************************************)
PlayerTypeOK ==
    /\ ready \in BOOLEAN
    /\ paused \in BOOLEAN
    /\ currentTime \in Time
    /\ tasks \in Seq({"play", "pause", "seeked"})
    /\ pendingFrames \in Nat
    /\ animationFrameId \in Nat \cup {NoFrame}
    /\ label \in {"play", "pause"}
    /\ timelineData \in SUBSET Interval
    /\ canvas \in SUBSET Interval
    /\ cutOff \in BOOLEAN
    /\ timeMoved \in BOOLEAN

\* Whatever the order of clicks, seeks, the end of the media and the events
\* they queue, once the queue is empty exactly one frame is pending while the
\* video plays, none while it is paused, and the button says so; unless a
\* video was loaded while another played.
LoopFollowsPlayback ==
    (tasks = <<>> /\ ~cutOff) =>
        /\ pendingFrames = (IF paused THEN 0 ELSE 1)
        /\ animationFrameId = (IF paused THEN NoFrame ELSE 1)
        /\ label = (IF paused THEN "play" ELSE "pause")

\* Once the events of a seek, or of a replay from the end, are handled the
\* overlay is that of the time shown, whether or not the loop runs; a timeline
\* that arrives with intervals in it is drawn.  Playback itself is followed
\* frame by frame.  The empty timeline is left out: drawCurrentFrame returns
\* before it clears the canvas (line 266), see OverlayFollowsTimeline.
SettledOverlay ==
    (tasks = <<>> /\ ~timeMoved /\ timelineData # {}) =>
        canvas = Active(timelineData, currentTime)

\* The same of every timeline, as README.md:389 of the S4 directory says (the
\* boxes follow the intervals given to loadMetadataTimeline).  The code breaks
\* it: after loadMetadataTimeline([]) the boxes of the timeline before stay on
\* the picture, through seeks and playback, until the player is resized.
OverlayFollowsTimeline ==
    (tasks = <<>> /\ ~timeMoved) => canvas = Active(timelineData, currentTime)

=============================================================================
