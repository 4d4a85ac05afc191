------------------------- MODULE CaptureFacadeProofs -------------------------
(***************************************************************************)
(* The facade for any number of requests, frames, sessions and starts.     *)
(* Everything rests on who holds m_mutex at which step: a request between  *)
(* the test of its predicate and its sleep or answer, the source thread    *)
(* between a new session and the anchor of the clock.                      *)
(***************************************************************************)
EXTENDS CaptureFacade, TLAPS

Frames == [sequence : Nat, ts : Int, key : {f.key : f \in Offered}, session : Sessions]

Places == {"idle", "enter", "check", "sleep", "asleep", "woken", "late", "answer",
           "startAnchored", "start", "endAnchored", "end",
           "readAnchored", "readStart", "readEnd", "readEnter", "done"}

\* What the steps below need to know of the types.
Typed ==
    /\ log \in Seq(Frames)
    /\ next \in Nat
    /\ starts \in Nat
    /\ capturing \in BOOLEAN
    /\ storeOpen \in BOOLEAN
    /\ at \in [Requests -> Places]
    /\ window \in [Requests -> Windows \cup {NoWindow}]
    /\ DOMAIN answer = Requests

\* A request holds m_mutex exactly at these steps; who sleeps is waiting.
Inside == {"check", "sleep", "answer"}
MutexHeld ==
    /\ lock = "source" <=> source \in {"reset", "anchor"}
    /\ \A r \in Requests : lock = r <=> at[r] \in Inside
    /\ waiting = {r \in Requests : at[r] = "asleep"}

\* The clock of a session that began is behind the index only while the
\* source holds m_mutex, and when it anchors it is not the old session's.
ClockInStep ==
    source # "terminated" =>
        /\ log # <<>> => session # NoSession
        /\ log = <<>> => ~anchored /\ source \notin {"reset", "anchor"}
        /\ log # <<>> /\ source \notin {"reset", "anchor"} =>
              anchored /\ anchorSession = session
        /\ source = "anchor" /\ anchored => anchorSession = session

\* While main() is out of the capture there is no source thread.
SourceIsJoined ==
    control \in {"idle", "starting", "close"} => source \in {"none", "exited"}

\* Once the arena is closed main() is done or has started the capture again.
StoreClosedOnce ==
    /\ starts = 0 => control = "idle" /\ storeOpen /\ ~capturing
    /\ starts > 0 /\ control = "idle" => ~storeOpen

\* A request that waited is about to be answered because its timeout is
\* over, the capture stopped or its window is complete.
WaitIsOver ==
    /\ \A r \in Requests : at[r] \in Inside \cup {"asleep", "woken", "late"} => starts > 0
    /\ \A r \in Requests : at[r] = "late" => r \in expired
    /\ \A r \in Requests : at[r] = "answer" =>
          r \in expired \/ ~capturing \/ ~storeOpen \/ HasReached(r)

\* With one start: the arena closes when the capture is over for good.
ClosedAfterJoin ==
    /\ starts <= 1
    /\ control = "starting" => storeOpen
    /\ control \in {"notify", "stopSource", "join", "close"} => ~capturing
    /\ ~storeOpen => ~capturing /\ control = "idle"

-----------------------------------------------------------------------------
(***************************************************************************)
(* What the three kinds of threads leave alone.                            *)
(***************************************************************************)
LEMMA RequestFrame ==
    ASSUME NEW r \in Requests, Request(r)
    PROVE  UNCHANGED <<logVars, storeOpen, capturing, clockVars, sourceVars, controlVars>>
BY DEF Request, RequestStep, EnterExtraction, CheckPredicate, FallAsleep, WakeUp,
       AnswerExtraction, ClockChecked, ClockRead, AnswerRead, LeaveWait, Ask,
       unaffectedByRequests

LEMMA ControlFrame ==
    ASSUME Control
    PROVE  UNCHANGED <<logVars, clockVars, window, expired, bases, answer>>
BY DEF Control, CaptureStarts, SourceStarts, SourceFailsToStart, CaptureStops,
       StopNotifies, SourceStopRequested, SourceJoined, StoreCloses,
       requestVars, clockVars

LEMMA SourceFrame ==
    ASSUME Source
    PROVE  UNCHANGED <<sharedVars, controlVars, window, expired, bases, answer>>
BY DEF Source, SourceLoops, FrameRejected, FrameIngested, ClockReset, ClockAnchored,
       FrameNotified, requestVars, sharedVars, controlVars

-----------------------------------------------------------------------------
(***************************************************************************)
(* Types.                                                                  *)
(***************************************************************************)
\* The log a frame was accepted into ends with that frame.
LEMMA LogAccepts ==
    ASSUME log \in Seq(Frames), next \in Nat, NEW f \in Offered, Accept(f)
    PROVE  /\ log' \in Seq(Frames) /\ log' # <<>>
           /\ next' = next + 1 /\ session' = f.session
<1>1. Entry(f) \in Frames
  BY FrameAssumption DEF Entry, Frames, Sessions
<1>2. next' = next + 1 /\ session' = f.session /\ (Extend(f) \/ Restart(f))
  BY DEF Accept
<1>3. CASE Extend(f)
  <2>1. PICK n \in 0 .. Len(log) : log' = Append(SubSeq(log, n + 1, Len(log)), Entry(f))
    BY <1>3 DEF Extend
  <2>2. SubSeq(log, n + 1, Len(log)) \in Seq(Frames)
    OBVIOUS
  <2> HIDE DEF Frames
  <2> DEFINE kept == SubSeq(log, n + 1, Len(log))
  <2> HIDE DEF kept
  <2>3. kept \in Seq(Frames) /\ log' = Append(kept, Entry(f))
    BY <2>1, <2>2 DEF kept
  <2>4. Len(log') = Len(kept) + 1 /\ Len(kept) \in Nat /\ log' \in Seq(Frames)
    BY <1>1, <2>3
  <2> QED
    BY <1>2, <2>4
<1>4. CASE Restart(f)
  BY <1>1, <1>2, <1>4 DEF Restart
<1> QED
  BY <1>2, <1>3, <1>4

LEMMA TypedStep ==
    ASSUME Typed, Next
    PROVE  Typed'
<1>1. CASE Source
  <2>1. UNCHANGED <<sharedVars, controlVars, window, answer>>
    BY <1>1, SourceFrame
  <2>2. log' \in Seq(Frames) /\ next' \in Nat
    <3>1. CASE \E f \in Offered : FrameIngested(f)
      BY <3>1, LogAccepts DEF FrameIngested, Typed
    <3>2. CASE ~\E f \in Offered : FrameIngested(f)
      BY <1>1, <3>2 DEF Source, SourceLoops, FrameRejected, ClockReset, ClockAnchored,
         FrameNotified, logVars, Typed
    <3> QED
      BY <3>1, <3>2
  <2>3. at' \in [Requests -> Places]
    BY <1>1 DEF Source, SourceLoops, FrameRejected, FrameIngested, ClockReset,
       ClockAnchored, FrameNotified, NotifyAll, requestVars, Typed, Places
  <2> QED
    BY <2>1, <2>2, <2>3 DEF Typed, sharedVars, controlVars
<1>2. CASE Control
  <2>1. UNCHANGED <<logVars, window, answer>>
    BY <1>2, ControlFrame
  <2>2. /\ starts' = starts \/ starts' = starts + 1
        /\ capturing' = capturing \/ capturing' = TRUE \/ capturing' = FALSE
        /\ storeOpen' = storeOpen \/ storeOpen' = FALSE
    BY <1>2 DEF Control, CaptureStarts, SourceStarts, SourceFailsToStart, CaptureStops,
       StopNotifies, SourceStopRequested, SourceJoined, StoreCloses, sharedVars
  <2>3. at' \in [Requests -> Places]
    BY <1>2 DEF Control, CaptureStarts, SourceStarts, SourceFailsToStart, CaptureStops,
       StopNotifies, SourceStopRequested, SourceJoined, StoreCloses, NotifyAll,
       requestVars, Typed, Places
  <2>4. starts' \in Nat
    BY <2>2 DEF Typed
  <2>5. capturing' \in BOOLEAN /\ storeOpen' \in BOOLEAN
    BY <2>2, Zenon DEF Typed
  <2> QED
    BY <2>1, <2>3, <2>4, <2>5 DEF Typed, logVars
<1>3. ASSUME NEW r \in Requests, Request(r)
      PROVE  Typed'
  <2>1. UNCHANGED <<logVars, storeOpen, capturing, controlVars>>
    BY <1>3, RequestFrame
  <2>2. at' \in [Requests -> Places]
    <3>1. \E p \in Places : at' = [at EXCEPT ![r] = p]
      BY <1>3 DEF Request, RequestStep, EnterExtraction, CheckPredicate, FallAsleep,
         WakeUp, AnswerExtraction, ClockChecked, ClockRead, AnswerRead, LeaveWait, Ask,
         Goto, Places, WakeGoesTo
    <3> QED
      BY <3>1 DEF Typed
  <2>3. window' \in [Requests -> Windows \cup {NoWindow}]
    BY <1>3 DEF Request, RequestStep, EnterExtraction, CheckPredicate, FallAsleep,
       WakeUp, AnswerExtraction, ClockChecked, ClockRead, AnswerRead, LeaveWait, Ask,
       Typed
  <2>4. DOMAIN answer' = Requests
    BY <1>3 DEF Request, RequestStep, EnterExtraction, CheckPredicate, FallAsleep,
       WakeUp, AnswerExtraction, ClockChecked, ClockRead, AnswerRead, LeaveWait, Ask,
       Answered, Typed
  <2> QED
    BY <2>1, <2>2, <2>3, <2>4 DEF Typed, logVars, controlVars
<1> QED
  BY <1>1, <1>2, <1>3 DEF Next

-----------------------------------------------------------------------------
(***************************************************************************)
(* Who holds m_mutex.                                                      *)
(***************************************************************************)
\* A request moves, and m_mutex and the wait set with it.
LEMMA RequestMoves ==
    ASSUME Typed, MutexHeld, NEW r \in Requests, NEW p \in Places,
           Goto(r, p), source' = source,
           \/ lock' = lock /\ (p \in Inside <=> at[r] \in Inside)
           \/ lock = Free /\ lock' = r /\ p \in Inside
           \/ lock = r /\ lock' = Free /\ p \notin Inside,
           waiting' = IF p = "asleep" THEN waiting \cup {r} ELSE waiting \ {r}
    PROVE  MutexHeld'
<1> USE MutexAssumption DEF Typed, MutexHeld, Goto
<1>1. \A s \in Requests : at'[s] = IF s = r THEN p ELSE at[s]
  OBVIOUS
<1>2. waiting' = {s \in Requests : at'[s] = "asleep"}
  BY <1>1
<1>3. \A s \in Requests : lock' = s <=> at'[s] \in Inside
  BY <1>1 DEF Inside
<1>4. lock' = "source" <=> source' \in {"reset", "anchor"}
  OBVIOUS
<1> QED
  BY <1>2, <1>3, <1>4

\* notify_all gives m_mutex to nobody.
LEMMA NotifyKeepsMutex ==
    ASSUME Typed, MutexHeld, NotifyAll, lock' = lock,
           source' \in {"reset", "anchor"} <=> source \in {"reset", "anchor"}
    PROVE  MutexHeld'
BY DEF Typed, MutexHeld, NotifyAll, Wakes, Inside

\* The source thread only begins in startCapture and ends before the join.
LEMMA JoinedStep ==
    ASSUME SourceIsJoined, Next
    PROVE  SourceIsJoined'
<1>1. CASE Source
  BY <1>1, SourceFrame DEF Source, SourceLoops, FrameRejected, FrameIngested, ClockReset,
     ClockAnchored, FrameNotified, SourceIsJoined, controlVars
<1>2. CASE Control
  BY <1>2 DEF Control, CaptureStarts, SourceStarts, SourceFailsToStart, CaptureStops,
     StopNotifies, SourceStopRequested, SourceJoined, StoreCloses, SourceIsJoined,
     sourceVars
<1>3. CASE \E r \in Requests : Request(r)
  BY <1>3, RequestFrame DEF SourceIsJoined, sourceVars, controlVars
<1> QED
  BY <1>1, <1>2, <1>3 DEF Next

LEMMA MutexStep ==
    ASSUME Typed, MutexHeld, SourceIsJoined, Next
    PROVE  MutexHeld'
<1> USE MutexAssumption
<1>1. CASE SourceLoops
  BY <1>1 DEF SourceLoops, MutexHeld, requestVars
<1>2. CASE FrameRejected
  BY <1>2 DEF FrameRejected, MutexHeld, requestVars
<1>3. ASSUME NEW f \in Offered, FrameIngested(f)
      PROVE  MutexHeld'
  BY <1>3 DEF FrameIngested, MutexHeld, requestVars
<1>4. CASE ClockReset
  BY <1>4 DEF ClockReset, MutexHeld, requestVars
<1>5. CASE ClockAnchored
  BY <1>5 DEF ClockAnchored, MutexHeld, requestVars
<1>6. CASE FrameNotified
  BY <1>6, NotifyKeepsMutex DEF FrameNotified
<1>7. CASE Control
  <2>1. CASE StopNotifies
    BY <2>1, NotifyKeepsMutex DEF StopNotifies, sourceVars
  <2>2. CASE SourceStarts
    BY <2>2 DEF SourceStarts, SourceIsJoined, MutexHeld, requestVars
  <2>3. ASSUME ~StopNotifies, ~SourceStarts
        PROVE  UNCHANGED <<lock, at, waiting, source>>
    BY <1>7, <2>3 DEF Control, CaptureStarts, SourceFailsToStart, CaptureStops,
       SourceStopRequested, SourceJoined, StoreCloses, HolderOverJoin, sourceVars,
       requestVars
  <2>4. CASE ~StopNotifies /\ ~SourceStarts
    BY <2>3, <2>4 DEF MutexHeld
  <2> QED
    BY <2>1, <2>2, <2>4
<1>8. ASSUME NEW r \in Requests, Request(r)
      PROVE  MutexHeld'
  <2>1. source' = source
    BY <1>8, RequestFrame DEF sourceVars
  <2>2. /\ at[r] = "asleep" <=> r \in waiting
        /\ waiting \subseteq Requests
        /\ at[r] \in Inside => lock = r
    BY DEF MutexHeld
  <2> USE DEF Places, Inside
  <2>3. CASE EnterExtraction(r)
    <3>1. CASE capturing
      BY <2>1, <2>2, <2>3, <3>1, RequestMoves
         DEF EnterExtraction
    <3>2. CASE ~capturing
      BY <2>1, <2>2, <2>3, <3>2, RequestMoves
         DEF EnterExtraction
    <3> QED
      BY <3>1, <3>2
  <2>4. CASE CheckPredicate(r)
    <3>1. CASE ~capturing \/ HasReached(r)
      BY <2>1, <2>2, <2>4, <3>1, RequestMoves DEF CheckPredicate
    <3>2. CASE ~(~capturing \/ HasReached(r))
      BY <2>1, <2>2, <2>4, <3>2, RequestMoves DEF CheckPredicate
    <3> QED
      BY <3>1, <3>2
  <2>5. CASE FallAsleep(r)
    BY <2>1, <2>2, <2>5, RequestMoves DEF FallAsleep
  <2>6. CASE WakeUp(r)
    <3>1. CASE at[r] = "woken"
      BY <2>1, <2>2, <2>6, <3>1, RequestMoves DEF WakeUp, WakeGoesTo
    <3>2. CASE at[r] = "late"
      BY <2>1, <2>2, <2>6, <3>2, RequestMoves DEF WakeUp
    <3> QED
      BY <2>6, <3>1, <3>2 DEF WakeUp
  <2>7. CASE AnswerExtraction(r)
    <3>1. Goto(r, "startAnchored") \/ Goto(r, "done")
      BY <2>7 DEF AnswerExtraction
    <3> QED
      BY <2>1, <2>2, <2>7, <3>1, RequestMoves DEF AnswerExtraction
  <2>8. CASE ClockChecked(r)
    <3>1. \/ Goto(r, "start") \/ Goto(r, "end") \/ Goto(r, "readStart")
          \/ Goto(r, "done")
      BY <2>8 DEF ClockChecked
    <3> QED
      BY <2>1, <2>2, <2>8, <3>1, RequestMoves DEF ClockChecked
  <2>9. CASE ClockRead(r)
    <3>1. \/ Goto(r, "endAnchored") \/ Goto(r, "done") \/ Goto(r, "readEnd")
          \/ Goto(r, "readEnter")
      BY <2>9 DEF ClockRead
    <3> QED
      BY <2>1, <2>2, <2>9, <3>1, RequestMoves DEF ClockRead
  <2>10. CASE AnswerRead(r)
    BY <2>1, <2>2, <2>10, RequestMoves DEF AnswerRead
  <2>11. CASE LeaveWait(r)
    BY <2>1, <2>2, <2>11, RequestMoves DEF LeaveWait
  <2>12. ASSUME NEW w \in Windows, Ask(r, w)
         PROVE  MutexHeld'
    BY <2>1, <2>2, <2>12, RequestMoves DEF Ask
  <2> QED
    BY <1>8, <2>3, <2>4, <2>5, <2>6, <2>7, <2>8, <2>9, <2>10, <2>11, <2>12
       DEF Request, RequestStep
<1> QED
  BY <1>1, <1>2, <1>3, <1>4, <1>5, <1>6, <1>7, <1>8 DEF Next, Source

-----------------------------------------------------------------------------
(***************************************************************************)
(* The clock, the arena, and the end of a wait.                            *)
(***************************************************************************)
LEMMA ClockStep ==
    ASSUME Typed, SourceIsJoined, ClockInStep, Next
    PROVE  ClockInStep'
<1>1. CASE SourceLoops
  BY <1>1 DEF SourceLoops, ClockInStep, logVars, clockVars
<1>2. CASE FrameRejected
  BY <1>2 DEF FrameRejected, ClockInStep, logVars, clockVars
<1>3. ASSUME NEW f \in Offered, FrameIngested(f)
      PROVE  ClockInStep'
  <2>1. log' # <<>> /\ session' = f.session /\ UNCHANGED clockVars
    BY <1>3, LogAccepts DEF FrameIngested, Typed
  <2>2. source = "onFrame" /\ source' \in {"reset", "anchor", "terminated"}
    BY <1>3 DEF FrameIngested
  <2>3. source' = "anchor" => session \in {NoSession, f.session}
    BY <1>3 DEF FrameIngested, ResetsClock
  <2>4. log # <<>> /\ source' = "anchor" => session = f.session
    BY <2>2, <2>3 DEF ClockInStep
  <2>5. session' # NoSession
    BY <2>1, FrameAssumption
  <2> QED
    BY <2>1, <2>2, <2>4, <2>5 DEF ClockInStep, clockVars
<1>4. CASE ClockReset
  BY <1>4 DEF ClockReset, ClockInStep, logVars
<1>5. CASE ClockAnchored
  BY <1>5 DEF ClockAnchored, ClockInStep, logVars
<1>6. CASE FrameNotified
  BY <1>6 DEF FrameNotified, ClockInStep, logVars, clockVars
<1>7. CASE Control
  <2>1. UNCHANGED <<logVars, clockVars>>
    BY <1>7, ControlFrame
  <2>2. source' = source \/ (source \in {"none", "exited"} /\ source' = "loop")
    BY <1>7 DEF Control, CaptureStarts, SourceStarts, SourceFailsToStart, CaptureStops,
       StopNotifies, SourceStopRequested, SourceJoined, StoreCloses, SourceIsJoined,
       sourceVars
  <2> QED
    BY <2>1, <2>2 DEF ClockInStep, logVars, clockVars
<1>8. CASE \E r \in Requests : Request(r)
  BY <1>8, RequestFrame DEF ClockInStep, logVars, clockVars, sourceVars
<1> QED
  BY <1>1, <1>2, <1>3, <1>4, <1>5, <1>6, <1>7, <1>8 DEF Next, Source

\* main() is idle before its first start, and after it only with the arena closed.
LEMMA StoreStep ==
    ASSUME Typed, StoreClosedOnce, Next
    PROVE  StoreClosedOnce'
<1>1. CASE Source
  BY <1>1, SourceFrame DEF StoreClosedOnce, sharedVars, controlVars
<1>2. CASE Control
  BY <1>2 DEF Control, CaptureStarts, SourceStarts, SourceFailsToStart, CaptureStops,
     StopNotifies, SourceStopRequested, SourceJoined, StoreCloses, StoreClosedOnce,
     sharedVars, Typed
<1>3. CASE \E r \in Requests : Request(r)
  BY <1>3, RequestFrame DEF StoreClosedOnce, controlVars
<1> QED
  BY <1>1, <1>2, <1>3 DEF Next

\* With one start nothing runs once the arena is closed.
LEMMA ClosedStep ==
    ASSUME MaxStarts =< 1, Typed, StoreClosedOnce, ClosedAfterJoin, Next
    PROVE  ClosedAfterJoin'
<1>1. CASE Source
  BY <1>1, SourceFrame DEF ClosedAfterJoin, sharedVars, controlVars
<1>2. CASE CaptureStarts
  <2>1. starts = 0 /\ starts' = 1 /\ control' = "starting" /\ storeOpen
    BY <1>2, BoundsAssumption DEF CaptureStarts, StoreClosedOnce, Typed
  <2> QED
    BY <1>2, <2>1 DEF CaptureStarts, ClosedAfterJoin
<1>3. CASE Control /\ ~CaptureStarts
  BY <1>3 DEF Control, SourceStarts, SourceFailsToStart, CaptureStops,
     StopNotifies, SourceStopRequested, SourceJoined, StoreCloses, ClosedAfterJoin,
     sharedVars
<1>4. CASE \E r \in Requests : Request(r)
  BY <1>4, RequestFrame DEF ClosedAfterJoin, controlVars
<1> QED
  BY <1>1, <1>2, <1>3, <1>4 DEF Next

\* What a request waits for stays true while it holds m_mutex: the index does
\* not move then, and a capture that starts again finds the arena closed.
LEMMA WaitStep ==
    ASSUME Typed, MutexHeld, StoreClosedOnce, WaitIsOver, Next
    PROVE  WaitIsOver'
<1>1. CASE Source \/ Control
  <2>1. UNCHANGED <<window, expired>>
    BY <1>1, SourceFrame, ControlFrame
  <2>2. \A r \in Requests : at'[r] = at[r] \/ (at[r] = "asleep" /\ at'[r] = "woken")
    BY <1>1 DEF Source, SourceLoops, FrameRejected, FrameIngested, ClockReset,
       ClockAnchored, FrameNotified, Control, CaptureStarts, SourceStarts,
       SourceFailsToStart, CaptureStops, StopNotifies, SourceStopRequested, SourceJoined,
       StoreCloses, NotifyAll, Wakes, requestVars, MutexHeld
  <2>3. \A r \in Requests : at[r] = "answer" => UNCHANGED log
    <3> SUFFICES ASSUME NEW r \in Requests, at[r] = "answer"
                 PROVE  UNCHANGED log
      OBVIOUS
    <3>1. lock = r /\ r # Free
      BY MutexAssumption DEF MutexHeld, Inside
    <3>2. CASE Source
      BY <3>1, <3>2 DEF Source, SourceLoops, FrameRejected, FrameIngested, ClockReset,
         ClockAnchored, FrameNotified, logVars
    <3>3. CASE Control
      BY <3>3, ControlFrame DEF logVars
    <3> QED
      BY <1>1, <3>2, <3>3
  <2>4. starts > 0 /\ (~capturing \/ ~storeOpen) => ~capturing' \/ ~storeOpen'
    BY <1>1, SourceFrame DEF Control, CaptureStarts, SourceStarts, SourceFailsToStart,
       CaptureStops, StopNotifies, SourceStopRequested, SourceJoined, StoreCloses,
       sharedVars, StoreClosedOnce
  <2> SUFFICES ASSUME NEW r \in Requests
               PROVE  /\ at'[r] \in Inside \cup {"asleep", "woken", "late"} => starts' > 0
                      /\ at'[r] = "late" => r \in expired'
                      /\ at'[r] = "answer" =>
                           r \in expired' \/ ~capturing' \/ ~storeOpen' \/ HasReached(r)'
    BY DEF WaitIsOver
  <2>5. at'[r] \in Inside \cup {"asleep", "woken", "late"} => starts > 0
    BY <2>2 DEF WaitIsOver, Inside
  <2>6. starts > 0 => starts' > 0
    BY <1>1, SourceFrame DEF Control, CaptureStarts, SourceStarts, SourceFailsToStart,
       CaptureStops, StopNotifies, SourceStopRequested, SourceJoined, StoreCloses,
       controlVars, Typed
  <2>7. at'[r] = "late" => r \in expired'
    BY <2>1, <2>2 DEF WaitIsOver
  <2>8. ASSUME at'[r] = "answer"
        PROVE  r \in expired' \/ ~capturing' \/ ~storeOpen' \/ HasReached(r)'
    <3>1. at[r] = "answer"
      BY <2>2, <2>8
    <3>2. r \in expired \/ ~capturing \/ ~storeOpen \/ HasReached(r)
      BY <3>1 DEF WaitIsOver
    <3>3. HasReached(r) => HasReached(r)'
      BY <2>1, <2>3, <3>1 DEF HasReached
    <3>4. starts > 0
      BY <3>1 DEF WaitIsOver, Inside
    <3> QED
      BY <2>1, <2>4, <3>2, <3>3, <3>4
  <2> QED
    BY <2>5, <2>6, <2>7, <2>8
<1>2. ASSUME NEW r \in Requests, Request(r)
      PROVE  WaitIsOver'
  <2>1. UNCHANGED <<log, storeOpen, capturing, starts>>
    BY <1>2, RequestFrame DEF logVars, controlVars
  <2>2. expired \subseteq expired'
    BY <1>2 DEF Request, RequestStep, EnterExtraction, CheckPredicate, FallAsleep,
       WakeUp, AnswerExtraction, ClockChecked, ClockRead, AnswerRead, LeaveWait, Ask
  <2>3. ASSUME NEW s \in Requests, s # r
        PROVE  at'[s] = at[s] /\ window'[s] = window[s]
    BY <1>2, <2>3 DEF Request, RequestStep, EnterExtraction, CheckPredicate, FallAsleep,
       WakeUp, AnswerExtraction, ClockChecked, ClockRead, AnswerRead, LeaveWait, Ask,
       Goto, Typed
  <2>4. at'[r] \in Inside \cup {"asleep", "woken", "late"} => starts > 0
    <3>1. CASE EnterExtraction(r)
      BY <3>1 DEF EnterExtraction, StoreClosedOnce, Goto, Inside, Typed
    <3>2. ASSUME ~EnterExtraction(r)
          PROVE  at'[r] \in Inside \cup {"asleep", "woken", "late"}
                   => at[r] \in Inside \cup {"asleep", "woken", "late"}
      BY <1>2, <3>2 DEF Request, RequestStep, CheckPredicate, FallAsleep,
         WakeUp, WakeGoesTo, AnswerExtraction, ClockChecked, ClockRead, AnswerRead,
         LeaveWait, Ask, Goto, Typed, MutexHeld, Inside
    <3> QED
      BY <3>1, <3>2 DEF WaitIsOver
  <2>5. at'[r] = "late" => r \in expired'
    BY <1>2 DEF Request, RequestStep, EnterExtraction, CheckPredicate, FallAsleep,
       WakeUp, WakeGoesTo, AnswerExtraction, ClockChecked, ClockRead, AnswerRead,
       LeaveWait, Ask, Goto, Typed
  <2>6. at'[r] = "answer" => r \in expired' \/ ~capturing \/ HasReached(r)
    <3>1. CASE CheckPredicate(r)
      BY <3>1 DEF CheckPredicate, Goto, Typed
    <3>2. CASE WakeUp(r)
      BY <3>2 DEF WakeUp, WakeGoesTo, Goto, Typed, WaitIsOver
    <3>3. ASSUME ~CheckPredicate(r), ~WakeUp(r)
          PROVE  at'[r] # "answer"
      BY <1>2, <3>3 DEF Request, RequestStep, EnterExtraction, FallAsleep,
         AnswerExtraction, ClockChecked, ClockRead, AnswerRead, LeaveWait, Ask, Goto, Typed
    <3> QED
      BY <3>1, <3>2, <3>3
  <2>7. at'[r] = "answer" => window'[r] = window[r]
    BY <1>2 DEF Request, RequestStep, EnterExtraction, CheckPredicate, FallAsleep,
       WakeUp, AnswerExtraction, ClockChecked, ClockRead, AnswerRead, LeaveWait, Ask,
       Goto, Typed
  <2> QED
    BY <2>1, <2>2, <2>3, <2>4, <2>5, <2>6, <2>7 DEF WaitIsOver, HasReached
<1> QED
  BY <1>1, <1>2 DEF Next

-----------------------------------------------------------------------------
(***************************************************************************)
(* Theorems.                                                               *)
(***************************************************************************)
IInv ==
    /\ Typed
    /\ SourceIsJoined
    /\ MutexHeld
    /\ StoreClosedOnce
    /\ ClockInStep
    /\ WaitIsOver

LEMMA InitHolds ==
    ASSUME Init
    PROVE  IInv
<1> USE MutexAssumption DEF Init, LogInit
<1>1. Typed
  <2>1. log \in Seq(Frames)
    OBVIOUS
  <2>2. at \in [Requests -> Places]
    BY DEF Places
  <2> QED
    BY <2>1, <2>2 DEF Typed
<1>2. MutexHeld
  BY DEF MutexHeld, Inside
<1>3. SourceIsJoined /\ StoreClosedOnce /\ ClockInStep
  BY DEF SourceIsJoined, StoreClosedOnce, ClockInStep
<1>4. WaitIsOver
  BY DEF WaitIsOver, Inside
<1> QED
  BY <1>1, <1>2, <1>3, <1>4 DEF IInv

LEMMA IInvStep ==
    ASSUME IInv, [Next]_vars
    PROVE  IInv'
<1>1. CASE Next
  BY <1>1, TypedStep, JoinedStep, MutexStep, StoreStep, ClockStep, WaitStep DEF IInv
<1>2. CASE UNCHANGED vars
  <2> USE <1>2 DEF vars, facadeVars, logVars
  <2>1. Typed'
    BY DEF IInv, Typed
  <2>2. SourceIsJoined' /\ StoreClosedOnce' /\ ClockInStep'
    BY DEF IInv, SourceIsJoined, StoreClosedOnce, ClockInStep
  <2>3. MutexHeld'
    BY DEF IInv, MutexHeld
  <2>4. WaitIsOver'
    BY DEF IInv, WaitIsOver, HasReached
  <2> QED
    BY <2>1, <2>2, <2>3, <2>4 DEF IInv
<1> QED
  BY <1>1, <1>2

\* Who holds m_mutex at which step, for any number of threads and starts.
THEOREM InductiveInvariant == Spec => []IInv
<1> QED
  BY InitHolds, IInvStep, PTL DEF Spec

\* ring_buffer_ram_facade.cpp, onFrame and extractCaptureWindow: an extraction
\* is cut short only by its timeout, however often capture stops and starts.
THEOREM TruncatedOnlyAfterTimeoutAlways == Spec => []TruncatedOnlyAfterTimeout
<1>1. Init => TruncatedOnlyAfterTimeout
  BY DEF Init, TruncatedOnlyAfterTimeout
<1>2. IInv /\ TruncatedOnlyAfterTimeout /\ [Next]_vars => TruncatedOnlyAfterTimeout'
  <2> SUFFICES ASSUME IInv, TruncatedOnlyAfterTimeout, [Next]_vars
               PROVE  TruncatedOnlyAfterTimeout'
    OBVIOUS
  <2>1. CASE Source \/ Control \/ UNCHANGED vars
    BY <2>1, SourceFrame, ControlFrame DEF TruncatedOnlyAfterTimeout, vars, facadeVars
  <2>2. ASSUME NEW r \in Requests, Request(r)
        PROVE  TruncatedOnlyAfterTimeout'
    <3>1. expired \subseteq expired'
      BY <2>2 DEF Request, RequestStep, EnterExtraction, CheckPredicate, FallAsleep,
         WakeUp, AnswerExtraction, ClockChecked, ClockRead, AnswerRead, LeaveWait, Ask
    <3>2. CASE AnswerExtraction(r)
      <4>1. ASSUME Extracted(window[r]) = "truncated", ~Refused
            PROVE  r \in expired
        <5>1. log # <<>> /\ storeOpen /\ log[Len(log)].ts < window[r].end
          BY <4>1 DEF Extracted, HasSegment
        <5>2. log[Len(log)].ts \in Int /\ window[r].end \in Int
          <6>1. log[Len(log)] \in Frames
            BY <5>1 DEF IInv, Typed
          <6>2. window[r] \in Windows \cup {NoWindow}
            BY DEF IInv, Typed
          <6> QED
            BY <6>1, <6>2, FrameAssumption DEF Frames, NoWindow
        <5>3. ~HasReached(r)
          BY <5>1, <5>2 DEF HasReached
        <5> QED
          BY <3>2, <4>1, <5>1, <5>3 DEF AnswerExtraction, Refused, IInv, WaitIsOver
      <4>2. ASSUME answer'[r] = "truncated"
            PROVE  r \in expired
        BY <3>2, <4>1, <4>2 DEF AnswerExtraction, Answered, IInv, Typed
      <4>3. \A s \in Requests : s # r => answer'[s] = answer[s]
        BY <3>2 DEF AnswerExtraction, Answered, IInv, Typed
      <4> QED
        BY <3>1, <4>2, <4>3 DEF TruncatedOnlyAfterTimeout
    <3>3. CASE ~AnswerExtraction(r)
      <4>1. \A s \in Requests : answer'[s] = "truncated" => answer[s] = "truncated"
        BY <2>2, <3>3 DEF Request, RequestStep, EnterExtraction, CheckPredicate,
           FallAsleep, WakeUp, ClockChecked, ClockRead, AnswerRead, LeaveWait, Ask,
           Answered, Read, IInv, Typed
      <4> QED
        BY <3>1, <4>1 DEF TruncatedOnlyAfterTimeout
    <3> QED
      BY <3>2, <3>3
  <2> QED
    BY <2>1, <2>2 DEF Next
<1> QED
  BY <1>1, <1>2, InductiveInvariant, PTL DEF Spec

\* onFrame resets and anchors the clock before it lets go of m_mutex: unless
\* the process ended, the clock is that of the session in the index.
THEOREM ClockFollowsSessionAlways ==
    Spec => [](source # "terminated" => ClockFollowsSession)
<1>1. IInv => (source # "terminated" => ClockFollowsSession)
  <2> SUFFICES ASSUME IInv, source # "terminated", lock = Free, log # <<>>
               PROVE  anchored /\ anchorSession = session
    BY DEF ClockFollowsSession
  <2>1. source \notin {"reset", "anchor"}
    BY MutexAssumption DEF IInv, MutexHeld
  <2> QED
    BY <2>1 DEF IInv, ClockInStep
<1> QED
  BY <1>1, InductiveInvariant, PTL

\* stopCapture joins the source before it closes the arena, and the flag it
\* clears first turns every later reader away: with one start nobody ever
\* touches the closed arena.
THEOREM NoClosedArenaAccessAlways ==
    ASSUME MaxStarts =< 1
    PROVE  Spec => []NoClosedArenaAccess
<1>1. Init => ClosedAfterJoin /\ NoClosedArenaAccess
  BY DEF Init, ClosedAfterJoin, NoClosedArenaAccess
<1>2. IInv /\ ClosedAfterJoin /\ NoClosedArenaAccess /\ [Next]_vars
        => ClosedAfterJoin' /\ NoClosedArenaAccess'
  <2> SUFFICES ASSUME IInv, ClosedAfterJoin, NoClosedArenaAccess, [Next]_vars
               PROVE  ClosedAfterJoin' /\ NoClosedArenaAccess'
    OBVIOUS
  <2>1. CASE UNCHANGED vars
    BY <2>1 DEF vars, facadeVars, sharedVars, sourceVars, ClosedAfterJoin,
       NoClosedArenaAccess
  <2>2. ASSUME Next PROVE ClosedAfterJoin'
    BY <2>2, ClosedStep DEF IInv
  <2>3. ASSUME Source PROVE NoClosedArenaAccess'
    <3>1. source = "onFrame" => storeOpen
      BY DEF ClosedAfterJoin, IInv, SourceIsJoined
    <3>2. source' # "terminated"
      BY <2>3, <3>1 DEF Source, SourceLoops, FrameRejected, FrameIngested, ClockReset,
         ClockAnchored, FrameNotified, NoClosedArenaAccess
    <3>3. answer' = answer
      BY <2>3, SourceFrame
    <3> QED
      BY <3>2, <3>3 DEF NoClosedArenaAccess
  <2>4. ASSUME Control PROVE NoClosedArenaAccess'
    <3>1. source' # "terminated"
      BY <2>4 DEF Control, CaptureStarts, SourceStarts, SourceFailsToStart, CaptureStops,
         StopNotifies, SourceStopRequested, SourceJoined, StoreCloses, sourceVars,
         NoClosedArenaAccess
    <3>2. answer' = answer
      BY <2>4, ControlFrame
    <3> QED
      BY <3>1, <3>2 DEF NoClosedArenaAccess
  <2>5. ASSUME NEW r \in Requests, Request(r)
        PROVE  NoClosedArenaAccess'
    <3>1. source' = source
      BY <2>5, RequestFrame DEF sourceVars
    <3>2. capturing => Extracted(window[r]) # "storeClosed"
      BY DEF Extracted, ClosedAfterJoin
    <3>3. \A s \in Requests : answer'[s] = "storeClosed" => answer[s] = "storeClosed"
      BY <2>5, <3>2 DEF Request, RequestStep, EnterExtraction, CheckPredicate,
         FallAsleep, WakeUp, AnswerExtraction, ClockChecked, ClockRead, AnswerRead,
         LeaveWait, Ask, Answered, Read, Refused, IInv, Typed
    <3> QED
      BY <3>1, <3>3 DEF NoClosedArenaAccess
  <2> QED
    BY <2>1, <2>2, <2>3, <2>4, <2>5 DEF Next
<1> QED
  BY <1>1, <1>2, InductiveInvariant, PTL DEF Spec

=============================================================================
