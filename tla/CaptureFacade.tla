---------------------------- MODULE CaptureFacade ----------------------------
(***************************************************************************)
(* S4.1/S4.2: RingBufferRAMFacade and the threads that meet in it.         *)
(*                                                                         *)
(*   source      the thread of the frame source; it calls onFrame()        *)
(*   control     main(): startCapture(), stopCapture()                     *)
(*   Requests    HTTP worker threads, one extraction each: they run        *)
(*               extractCaptureWindow() then toWallClock() twice, the way  *)
(*               ExtractClipUseCase::executeCaptureWindow does, or         *)
(*               readWindow(), the way ExtractClipUseCase::execute does    *)
(*                                                                         *)
(* They share m_mutex, the condition variable m_frameArrived, the flag     *)
(* m_isCapturing, the arena, the index (here FrameWindowLog, which the     *)
(* module RingBuffer is shown to implement) and the CaptureClockBridge,    *)
(* whose own mutex makes each of its calls one step.                       *)
(***************************************************************************)
EXTENDS FrameWindowLog, FiniteSets

CONSTANTS
    Requests,     \* the extractions asked for
    Windows,      \* the windows they may ask for: [start, end]
    AsksFor,      \* bound: the windows one of them may ask for
    Free,         \* m_mutex is not held
    MaxFrames,    \* bound on the frames the source delivers
    MaxStarts     \* bound on the calls of startCapture

ASSUME MutexAssumption ==
    /\ Free \notin Requests \cup {"source", "control"}
    /\ Requests \cap {"source", "control"} = {}
ASSUME FrameAssumption ==
    /\ \A f \in Offered : f.ts \in Int /\ f.session # NoSession
    /\ \A w \in Windows : w.start \in Int /\ w.end \in Int
ASSUME BoundsAssumption == MaxFrames \in Nat /\ MaxStarts \in Nat

VARIABLES
    lock,           \* who holds m_mutex: Free or a request, "source"
    capturing,      \* m_isCapturing
    storeOpen,      \* ~m_isClosed of the SharedMemoryFrameStore
    waiting,        \* the requests asleep in m_frameArrived
    anchored,       \* m_anchored of the CaptureClockBridge
    anchorSession,  \* the session of the frame that anchored it last
    stopRequested,  \* m_stopRequested of the frame source
    source,         \* where the source thread is
    control,        \* where main() is
    starts,         \* how often startCapture started the source
    at,             \* where each request is
    window,         \* the window each request asked for
    expired,        \* the requests whose wait_for() ran into its timeout
    bases,          \* the anchors a request has translated with, in order
    answer          \* what each request was answered

facadeVars == <<lock, capturing, storeOpen, waiting, anchored, anchorSession,
                stopRequested, source, control, starts,
                at, window, expired, bases, answer>>
vars == <<logVars, facadeVars>>

clockVars == <<anchored, anchorSession>>
requestVars == <<at, window, expired, bases, answer>>
sourceVars == <<source, stopRequested>>
controlVars == <<control, starts>>
sharedVars == <<capturing, storeOpen>>

Sessions == {f.session : f \in Offered}
Contains(w, ts) == w.start <= ts /\ ts <= w.end
NoWindow == [start |-> 0, end |-> 0]

Init ==
    /\ LogInit
    /\ lock = Free
    /\ capturing = FALSE
    /\ storeOpen = TRUE
    /\ waiting = {}
    /\ anchored = FALSE
    /\ anchorSession = NoSession
    /\ stopRequested = FALSE
    /\ source = "none"
    /\ control = "idle"
    /\ starts = 0
    /\ at = [r \in Requests |-> "idle"]
    /\ window = [r \in Requests |-> NoWindow]
    /\ expired = {}
    /\ bases = [r \in Requests |-> <<>>]
    /\ answer = [r \in Requests |-> "none"]

-----------------------------------------------------------------------------
(***************************************************************************)
(* The condition variable: notify_all moves every sleeper to "woken".      *)
(***************************************************************************)
\* Slip: notify_one.
WakesOne == IF waiting = {} THEN {} ELSE {CHOOSE r \in waiting : TRUE}
Wakes == waiting

NotifyAll ==
    /\ waiting' = waiting \ Wakes
    /\ at' = [r \in Requests |-> IF r \in Wakes THEN "woken" ELSE at[r]]

-----------------------------------------------------------------------------
(***************************************************************************)
(* The source thread: produce() of SyntheticFrameSource, replay() of       *)
(* RecordedFrameSource; each frame goes through onFrame().                 *)
(***************************************************************************)

Exhausted == next = MaxFrames

\* while (!m_stopRequested): the next frame is ready, onFrame wants m_mutex.
SourceLoops ==
    /\ source = "loop"
    /\ source' = IF stopRequested \/ Exhausted THEN "exited" ELSE "onFrame"
    /\ UNCHANGED <<logVars, lock, waiting, stopRequested, sharedVars, clockVars,
                   controlVars, requestVars>>

\* allocate() throws a DomainError: the frame is counted, nobody is notified.
FrameRejected ==
    /\ source = "onFrame"
    /\ lock = Free
    /\ source' = "loop"
    /\ UNCHANGED <<logVars, lock, waiting, stopRequested, sharedVars, clockVars,
                   controlVars, requestVars>>

\* Slip: m_clock.reset() not called when the session restarts.
NeverResets(f) == FALSE
ResetsClock(f) == session \notin {NoSession, f.session}

\* IngestFrameUseCase::execute under m_mutex.  Once the arena is closed the
\* write throws FrameStoreError, which the catch of onFrame does not name:
\* it leaves the thread's function and std::terminate ends the process.
FrameIngested(f) ==
    /\ source = "onFrame"
    /\ lock = Free
    /\ Accept(f)
    /\ IF storeOpen
       THEN lock' = "source" /\ source' = IF ResetsClock(f) THEN "reset" ELSE "anchor"
       ELSE lock' = lock /\ source' = "terminated"
    /\ UNCHANGED <<waiting, stopRequested, sharedVars, clockVars, controlVars, requestVars>>

ClockReset ==
    /\ source = "reset"
    /\ anchored' = FALSE
    /\ source' = "anchor"
    /\ UNCHANGED <<logVars, lock, waiting, anchorSession, stopRequested, sharedVars,
                   controlVars, requestVars>>

\* anchorIfNeeded(), then the end of the block that holds m_mutex.
ClockAnchored ==
    /\ source = "anchor"
    /\ anchored' = TRUE
    /\ anchorSession' = IF anchored THEN anchorSession ELSE session
    /\ lock' = Free
    /\ source' = "notify"
    /\ UNCHANGED <<logVars, waiting, stopRequested, sharedVars, controlVars, requestVars>>

FrameNotified ==
    /\ source = "notify"
    /\ NotifyAll
    /\ source' = "loop"
    /\ UNCHANGED <<logVars, lock, stopRequested, sharedVars, clockVars, controlVars,
                   window, expired, bases, answer>>

Source ==
    \/ SourceLoops
    \/ FrameRejected
    \/ \E f \in Offered : FrameIngested(f)
    \/ ClockReset
    \/ ClockAnchored
    \/ FrameNotified

-----------------------------------------------------------------------------
(***************************************************************************)
(* main(): startCapture() and stopCapture().                               *)
(***************************************************************************)

\* m_isCapturing.exchange(true) was false.
CaptureStarts ==
    /\ control = "idle"
    /\ starts < MaxStarts
    /\ ~capturing
    /\ capturing' = TRUE
    /\ starts' = starts + 1
    /\ control' = "starting"
    /\ UNCHANGED <<logVars, lock, storeOpen, waiting, sourceVars, clockVars, requestVars>>

\* m_source->start().
SourceStarts ==
    /\ control = "starting"
    /\ stopRequested' = FALSE
    /\ source' = "loop"
    /\ control' = "running"
    /\ UNCHANGED <<logVars, lock, waiting, starts, sharedVars, clockVars, requestVars>>

\* m_source->start() throws (a pipeline that cannot play): the flag stays
\* set, and the facade is stopped by its destructor.
SourceFailsToStart ==
    /\ control = "starting"
    /\ control' = "running"
    /\ UNCHANGED <<logVars, lock, waiting, sourceVars, starts, sharedVars, clockVars,
                   requestVars>>

\* stopCapture(): the flag changes under m_mutex.
\* Slip: the flag changes without it.
FlagNeedsNoMutex == TRUE
FlagMayChange == lock = Free
\* Slip: one lock_guard over the whole of stopCapture().
HoldsOverJoin == "control"
HolderOverJoin == Free
CaptureStops ==
    /\ control = "running"
    /\ capturing
    /\ FlagMayChange
    /\ capturing' = FALSE
    /\ lock' = IF lock = Free THEN HolderOverJoin ELSE lock
    /\ control' = "notify"
    /\ UNCHANGED <<logVars, storeOpen, waiting, sourceVars, starts, clockVars, requestVars>>

StopNotifies ==
    /\ control = "notify"
    /\ NotifyAll
    /\ control' = "stopSource"
    /\ UNCHANGED <<logVars, lock, sourceVars, starts, sharedVars, clockVars,
                   window, expired, bases, answer>>

\* m_source->stop(): the request, then the join.
SourceStopRequested ==
    /\ control = "stopSource"
    /\ stopRequested' = TRUE
    /\ control' = "join"
    /\ UNCHANGED <<logVars, lock, waiting, source, starts, sharedVars, clockVars, requestVars>>

SourceJoined ==
    /\ control = "join"
    /\ source \in {"none", "exited"}
    /\ control' = "close"
    /\ UNCHANGED <<logVars, lock, waiting, sourceVars, starts, sharedVars, clockVars,
                   requestVars>>

\* m_store->close() under m_mutex.  Nothing opens the arena again.
StoreCloses ==
    /\ control = "close"
    /\ lock = HolderOverJoin
    /\ lock' = Free
    /\ storeOpen' = FALSE
    /\ control' = "idle"
    /\ UNCHANGED <<logVars, capturing, waiting, sourceVars, starts, clockVars, requestVars>>

Control ==
    \/ CaptureStarts \/ SourceStarts \/ SourceFailsToStart
    \/ CaptureStops \/ StopNotifies \/ SourceStopRequested \/ SourceJoined \/ StoreCloses

-----------------------------------------------------------------------------
(***************************************************************************)
(* The requests.                                                           *)
(***************************************************************************)
Goto(r, place) == at' = [at EXCEPT ![r] = place]
Answered(r, kind) == answer' = [answer EXCEPT ![r] = kind]

unaffectedByRequests == <<logVars, storeOpen, capturing, clockVars, sourceVars, controlVars>>

\* extractCaptureWindow(w) or readWindow(w) is called; the latter translates
\* its two wall-clock times before it takes m_mutex.
Ask(r, w) ==
    /\ at[r] = "idle"
    /\ w \in AsksFor[r]
    /\ window' = [window EXCEPT ![r] = w]
    /\ \/ Goto(r, "enter")
       \/ Goto(r, "readAnchored")
    /\ UNCHANGED <<unaffectedByRequests, lock, waiting, expired, bases, answer>>

\* extractCaptureWindow takes m_mutex, and refuses when capture is off.
EnterExtraction(r) ==
    /\ at[r] = "enter"
    /\ lock = Free
    /\ IF capturing
       THEN lock' = r /\ Goto(r, "check") /\ UNCHANGED answer
       ELSE lock' = lock /\ Goto(r, "done") /\ Answered(r, "notRunning")
    /\ UNCHANGED <<unaffectedByRequests, waiting, window, expired, bases>>

\* hasReached(window.endNs()).
HasReached(r) == log # <<>> /\ log[Len(log)].ts >= window[r].end

\* The predicate of wait_for, with m_mutex held.
CheckPredicate(r) ==
    /\ at[r] = "check"
    /\ Goto(r, IF ~capturing \/ HasReached(r) THEN "answer" ELSE "sleep")
    /\ UNCHANGED <<unaffectedByRequests, lock, waiting, window, expired, bases, answer>>

\* The wait releases m_mutex and enters the wait set in one step.
FallAsleep(r) ==
    /\ at[r] = "sleep"
    /\ waiting' = waiting \cup {r}
    /\ lock' = Free
    /\ Goto(r, "asleep")
    /\ UNCHANGED <<unaffectedByRequests, window, expired, bases, answer>>

\* The timeout, or a spurious wakeup.
LeaveWait(r) ==
    /\ r \in waiting
    /\ waiting' = waiting \ {r}
    /\ \/ Goto(r, "woken") /\ UNCHANGED expired
       \/ Goto(r, "late") /\ expired' = expired \cup {r}
    /\ UNCHANGED <<unaffectedByRequests, lock, window, bases, answer>>

\* A wakeup takes m_mutex again and re-evaluates the predicate; after the
\* timeout wait_for returns whatever the predicate says.
\* Slip: wait_for without a predicate.
WakeAnswers == "answer"
WakeGoesTo == "check"
WakeUp(r) ==
    /\ at[r] \in {"woken", "late"}
    /\ lock = Free
    /\ lock' = r
    /\ Goto(r, IF at[r] = "woken" THEN WakeGoesTo ELSE "answer")
    /\ UNCHANGED <<unaffectedByRequests, waiting, window, expired, bases, answer>>

\* ExtractCaptureWindowUseCase::execute: segmentFor, then a read per frame.
HasSegment(w) ==
    /\ \E i \in 1 .. Len(log) : Contains(w, log[i].ts)
    /\ \E i \in 1 .. Len(log) : log[i].key /\ log[i].ts <= w.end
Extracted(w) ==
    CASE ~HasSegment(w) -> "absent"
      [] HasSegment(w) /\ ~storeOpen -> "storeClosed"
      [] HasSegment(w) /\ storeOpen /\ log[Len(log)].ts < w.end -> "truncated"
      [] OTHER -> "complete"

\* The flag is read again after the wait, still under m_mutex.
\* Slip: it is not.
NeverRefused == FALSE
Refused == ~capturing
AnswerExtraction(r) ==
    /\ at[r] = "answer"
    /\ lock' = Free
    /\ LET kind == IF Refused THEN "notRunning" ELSE Extracted(window[r])
       IN /\ Answered(r, kind)
          /\ Goto(r, IF kind \in {"truncated", "complete"} THEN "startAnchored" ELSE "done")
    /\ UNCHANGED <<unaffectedByRequests, waiting, window, expired, bases>>

\* toWallClock(start), toWallClock(end): isAnchored() is one call, the
\* translation another, and m_mutex is not held.
ClockChecked(r) ==
    /\ at[r] \in {"startAnchored", "endAnchored", "readAnchored"}
    /\ IF anchored
       THEN /\ Goto(r, CASE at[r] = "startAnchored" -> "start"
                         [] at[r] = "endAnchored"   -> "end"
                         [] at[r] = "readAnchored"  -> "readStart")
            /\ UNCHANGED answer
       ELSE Goto(r, "done") /\ Answered(r, IF at[r] = "readAnchored" THEN "empty" ELSE "noClock")
    /\ UNCHANGED <<unaffectedByRequests, lock, waiting, window, expired, bases>>

ClockRead(r) ==
    /\ at[r] \in {"start", "end", "readStart", "readEnd"}
    /\ bases' = [bases EXCEPT ![r] = Append(@, anchorSession)]
    /\ Goto(r, CASE at[r] = "start"     -> "endAnchored"
                 [] at[r] = "end"       -> "done"
                 [] at[r] = "readStart" -> "readEnd"
                 [] at[r] = "readEnd"   -> "readEnter")
    /\ UNCHANGED <<unaffectedByRequests, lock, waiting, window, expired, answer>>

\* readWindow under m_mutex: nothing to wait for, the flags are dropped and
\* a DomainError becomes the empty list.
Read(w) ==
    CASE ~capturing \/ Extracted(w) = "absent" -> "empty"
      [] capturing /\ Extracted(w) = "storeClosed" -> "storeClosed"
      [] OTHER -> "frames"
AnswerRead(r) ==
    /\ at[r] = "readEnter"
    /\ lock = Free
    /\ Goto(r, "done")
    /\ Answered(r, Read(window[r]))
    /\ UNCHANGED <<unaffectedByRequests, lock, waiting, window, expired, bases>>

RequestStep(r) ==
    \/ EnterExtraction(r) \/ CheckPredicate(r) \/ FallAsleep(r) \/ WakeUp(r)
    \/ AnswerExtraction(r) \/ ClockChecked(r) \/ ClockRead(r) \/ AnswerRead(r)

Request(r) == RequestStep(r) \/ LeaveWait(r) \/ \E w \in Windows : Ask(r, w)

-----------------------------------------------------------------------------
\* std::terminate ends every thread.
Next ==
    /\ source # "terminated"
    /\ \/ Source
       \/ Control
       \/ \E r \in Requests : Request(r)

Spec == Init /\ [][Next]_vars

\* The threads run: each takes its enabled step in the end.  Nobody has to
\* ask, to start or to stop; no timeout has to fire, no wakeup is spurious.
StopRuns == StopNotifies \/ SourceStopRequested \/ SourceJoined \/ StoreCloses
Fairness ==
    /\ WF_vars(Source)
    /\ WF_vars(StopRuns)
    /\ \A r \in Requests : WF_vars(RequestStep(r))
FairSpec == Spec /\ Fairness

-----------------------------------------------------------------------------
(***************************************************************************)
(* Properties.                                                             *)
(***************************************************************************)

\* Every variable has its type; only who is asleep is in the wait set.
TypeOK ==
    /\ log \in Seq([sequence : Nat, ts : Int, key : BOOLEAN, session : Sessions])
    /\ session \in Sessions \cup {NoSession}
    /\ next \in 0 .. MaxFrames
    /\ lock \in Requests \cup {Free, "source", "control"}
    /\ capturing \in BOOLEAN
    /\ storeOpen \in BOOLEAN
    /\ waiting = {r \in Requests : at[r] = "asleep"}
    /\ anchored \in BOOLEAN
    /\ anchorSession \in Sessions \cup {NoSession}
    /\ stopRequested \in BOOLEAN
    /\ source \in {"none", "loop", "onFrame", "reset", "anchor", "notify",
                   "exited", "terminated"}
    /\ control \in {"idle", "starting", "running", "notify", "stopSource", "join", "close"}
    /\ starts \in 0 .. MaxStarts
    /\ at \in [Requests -> {"idle", "enter", "check", "sleep", "asleep", "woken", "late",
                            "answer", "startAnchored", "start", "endAnchored", "end",
                            "readAnchored", "readStart", "readEnd", "readEnter", "done"}]
    /\ window \in [Requests -> Windows \cup {NoWindow}]
    /\ expired \subseteq Requests
    /\ bases \in [Requests -> Seq(Sessions)]
    /\ answer \in [Requests -> {"none", "notRunning", "absent", "storeClosed", "truncated",
                                "complete", "noClock", "empty", "frames"}]

\* Nobody reads or writes the arena after it was unmapped: no request is
\* answered with FrameStoreError, and no frame arrives that would end the
\* process with it.
NoClosedArenaAccess ==
    /\ source # "terminated"
    /\ \A r \in Requests : answer[r] # "storeClosed"

\* An extraction that is answered without the end of its window has waited
\* for it until its timeout; a wakeup alone never cuts a clip short.
TruncatedOnlyAfterTimeout ==
    \A r \in Requests : answer[r] = "truncated" => r \in expired

\* Whenever m_mutex is free the clock is anchored to the session whose
\* frames the index holds.
ClockFollowsSession ==
    (lock = Free /\ log # <<>>) => (anchored /\ anchorSession = session)

\* The two dates of one clip are translated with the anchor of one session.
NoMixedBases ==
    \A r \in Requests : \A i, j \in 1 .. Len(bases[r]) : bases[r][i] = bases[r][j]

\* A request asleep when the capture stops is woken by stopCapture(), not by
\* its own timeout.
StopReleasesWaiters ==
    \A r \in Requests : (r \in waiting /\ ~capturing) ~> r \notin waiting

\* A request asleep when the end of its window arrives is woken by the
\* arrival, not by its own timeout.
PostEventDelivered ==
    \A r \in Requests : (r \in waiting /\ HasReached(r)) ~> r \notin waiting

\* stopCapture() returns: neither the source nor a request can keep it from
\* joining the source and closing the arena.
StopTerminates == (control = "notify") ~> (control = "idle")

=============================================================================
