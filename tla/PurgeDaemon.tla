----------------------------- MODULE PurgeDaemon -----------------------------
(***************************************************************************)
(* S4.3: when the sweep of MediaRetention runs.  The thread of the daemon  *)
(* (run), main() (start, stop), Requesters (requestSweep) and Waiters      *)
(* (waitForSweeps) meet in m_mutex, two condition variables and two flags. *)
(*                                                                         *)
(* A critical section in which nobody can wait is one step; the two that   *)
(* go to sleep keep m_mutex between the test of the predicate and the      *)
(* sleep.                                                                  *)
(***************************************************************************)
EXTENDS Naturals, FiniteSets

CONSTANTS
    Requesters,  \* threads that call requestSweep
    Waiters,     \* threads that call waitForSweeps, once each
    Goals,       \* the counts they may wait for
    MaxSweeps,   \* bound: m_sweepsCompleted is counted up to it
    MaxStarts,   \* bound on the calls of start
    Free

ASSUME BoundAssumption == MaxSweeps \in Nat /\ MaxStarts \in Nat /\ Goals \subseteq 0 .. MaxSweeps
ASSUME NameAssumption == Free \notin Waiters \cup {"daemon"} /\ "daemon" \notin Waiters

VARIABLES
    lock,             \* who holds m_mutex over a step: Free, "daemon", a waiter
    isRunning,        \* m_isRunning
    isStopRequested,  \* m_isStopRequested
    isSweepRequested, \* m_isSweepRequested
    sweepsCompleted,  \* m_sweepsCompleted
    thread,           \* where run() is
    wasRequested,     \* run's wasRequested
    hasSwept,         \* run's hasSwept
    main,             \* where main() is in start and stop
    starts,
    requester,        \* where each requestSweep is
    waiter,           \* where each waitForSweeps is
    goal,             \* the count it waits for
    owed              \* a sweep was requested and none has begun since

daemonVars == <<thread, wasRequested, hasSwept>>
mainVars == <<main, starts>>
flagVars == <<isRunning, isStopRequested, isSweepRequested, sweepsCompleted>>
callVars == <<requester, waiter, goal>>
vars == <<lock, flagVars, daemonVars, mainVars, callVars, owed>>

Init ==
    /\ lock = Free
    /\ isRunning = FALSE
    /\ isStopRequested = FALSE
    /\ isSweepRequested = FALSE
    /\ sweepsCompleted = 0
    /\ thread = "none"
    /\ wasRequested = FALSE
    /\ hasSwept = FALSE
    /\ main = "idle"
    /\ starts = 0
    /\ requester = [r \in Requesters |-> "idle"]
    /\ waiter = [w \in Waiters |-> "idle"]
    /\ goal = [w \in Waiters |-> 0]
    /\ owed = FALSE

\* notify_all on m_wakeUp, and on m_sweepFinished.
Woken(place) == IF place = "asleep" THEN "woken" ELSE place
WakeUp == thread' = Woken(thread)

-----------------------------------------------------------------------------
(***************************************************************************)
(* The thread of the daemon.                                               *)
(***************************************************************************)
At(place) == thread = place
Goto(place) == thread' = place

\* The top of the loop, under m_mutex: the request is taken before the
\* sweep that serves it.
LoopTop ==
    /\ At("loop")
    /\ lock = Free
    /\ IF isStopRequested
       THEN Goto("exited") /\ UNCHANGED <<wasRequested, isSweepRequested>>
       ELSE /\ Goto("decide")
            /\ wasRequested' = isSweepRequested
            /\ isSweepRequested' = FALSE
    /\ UNCHANGED <<lock, isRunning, isStopRequested, sweepsCompleted, hasSwept,
                   mainVars, callVars, owed>>

\* Slip: the first sweep waits for its interval like the others.
NothingForced == wasRequested
SweepForced == wasRequested \/ ~hasSwept

\* isSweepDue: the interval may have passed, the disk may be over the quota.
SweepBegins ==
    /\ At("decide")
    /\ Goto("sweeping")
    /\ owed' = FALSE
    /\ UNCHANGED <<lock, flagVars, wasRequested, hasSwept, mainVars, callVars>>

NotDue ==
    /\ At("decide")
    /\ ~SweepForced
    /\ Goto("relock")
    /\ UNCHANGED <<lock, flagVars, wasRequested, hasSwept, mainVars, callVars, owed>>

\* sweep() swallows every exception and counts the sweep, under m_mutex.
\* Slip: the count is an atomic, incremented without m_mutex.
CountNeedsNoMutex == TRUE
CountMayChange == lock = Free

RequestAfterSweep == isSweepRequested

SweepCounted ==
    /\ At("sweeping")
    /\ CountMayChange
    /\ sweepsCompleted' = IF sweepsCompleted < MaxSweeps THEN sweepsCompleted + 1
                                                         ELSE MaxSweeps
    /\ isSweepRequested' = RequestAfterSweep
    /\ hasSwept' = TRUE
    /\ Goto("notify")
    /\ UNCHANGED <<lock, isRunning, isStopRequested, wasRequested,
                   mainVars, callVars, owed>>

SweepNotified ==
    /\ At("notify")
    /\ waiter' = [w \in Waiters |-> Woken(waiter[w])]
    /\ Goto("relock")
    /\ UNCHANGED <<lock, flagVars, wasRequested, hasSwept, mainVars, requester, goal, owed>>

\* wait_for(lock, diskCheckInterval, stop or request): the predicate is
\* tested under m_mutex, which only the sleep lets go.
\* Slip: only stop wakes the thread.
StopOnly == isStopRequested
MustWake == isStopRequested \/ isSweepRequested

TestPredicate ==
    /\ At("relock") \/ At("woken")
    /\ lock = Free
    /\ IF MustWake
       THEN Goto("loop") /\ UNCHANGED lock
       ELSE Goto("tested") /\ lock' = "daemon"
    /\ UNCHANGED <<flagVars, wasRequested, hasSwept, mainVars, callVars, owed>>

FallAsleep ==
    /\ At("tested")
    /\ Goto("asleep")
    /\ lock' = Free
    /\ UNCHANGED <<flagVars, wasRequested, hasSwept, mainVars, callVars, owed>>

Daemon == LoopTop \/ SweepBegins \/ NotDue \/ SweepCounted \/ SweepNotified
          \/ TestPredicate \/ FallAsleep

\* diskCheckInterval passes, the predicate still false: the loop goes on.
\* If it is true by then, the wait returns all the same.
Interval ==
    /\ At("asleep")
    /\ lock = Free
    /\ Goto("loop")
    /\ UNCHANGED <<lock, flagVars, wasRequested, hasSwept, mainVars, callVars, owed>>

-----------------------------------------------------------------------------
(***************************************************************************)
(* main(): start, and stop with its join.                                  *)
(***************************************************************************)
Start ==
    /\ main = "idle"
    /\ ~isRunning
    /\ starts < MaxStarts
    /\ lock = Free
    /\ starts' = starts + 1
    /\ isRunning' = TRUE
    /\ isStopRequested' = FALSE
    /\ Goto("loop")
    /\ hasSwept' = FALSE
    /\ main' = "running"
    /\ UNCHANGED <<lock, isSweepRequested, sweepsCompleted, wasRequested, callVars, owed>>

\* Slip: the flag is an atomic, set without m_mutex.
StopNeedsNoMutex == TRUE
StopMayChange == lock = Free

StopRequested ==
    /\ main = "running"
    /\ isRunning
    /\ StopMayChange
    /\ isStopRequested' = TRUE
    /\ main' = "notify"
    /\ UNCHANGED <<lock, isRunning, isSweepRequested, sweepsCompleted, daemonVars,
                   starts, callVars, owed>>

StopNotifies ==
    /\ main = "notify"
    /\ WakeUp
    /\ main' = "join"
    /\ UNCHANGED <<lock, flagVars, wasRequested, hasSwept, starts, callVars, owed>>

\* Slip: stop detaches a thread that is busy.
Detaches == TRUE
Joined == thread = "exited"

RunningAfterStop == FALSE

StopReturns ==
    /\ main = "join"
    /\ Joined
    /\ isRunning' = RunningAfterStop
    /\ main' = "idle"
    /\ UNCHANGED <<lock, isStopRequested, isSweepRequested, sweepsCompleted, daemonVars,
                   starts, callVars, owed>>

Main == Start \/ StopRequested \/ StopNotifies \/ StopReturns

-----------------------------------------------------------------------------
(***************************************************************************)
(* requestSweep and waitForSweeps, on any thread.                          *)
(***************************************************************************)
RequestSweep(r) ==
    /\ requester[r] = "idle"
    /\ lock = Free
    /\ isSweepRequested' = TRUE
    /\ owed' = TRUE
    /\ requester' = [requester EXCEPT ![r] = "notify"]
    /\ UNCHANGED <<lock, isRunning, isStopRequested, sweepsCompleted, daemonVars,
                   mainVars, waiter, goal>>

RequestNotifies(r) ==
    /\ requester[r] = "notify"
    /\ WakeUp
    /\ requester' = [requester EXCEPT ![r] = "idle"]
    /\ UNCHANGED <<lock, flagVars, wasRequested, hasSwept, mainVars, waiter, goal, owed>>

WaiterGoes(w, place) == waiter' = [waiter EXCEPT ![w] = place]

WaitForSweeps(w) ==
    /\ waiter[w] = "idle"
    /\ \E n \in Goals : goal' = [goal EXCEPT ![w] = n]
    /\ WaiterGoes(w, "test")
    /\ UNCHANGED <<lock, flagVars, daemonVars, mainVars, requester, owed>>

WaiterTests(w) ==
    /\ waiter[w] \in {"test", "woken"}
    /\ lock = Free
    /\ IF goal[w] <= sweepsCompleted
       THEN WaiterGoes(w, "reached") /\ UNCHANGED lock
       ELSE WaiterGoes(w, "tested") /\ lock' = w
    /\ UNCHANGED <<flagVars, daemonVars, mainVars, requester, goal, owed>>

WaiterSleeps(w) ==
    /\ waiter[w] = "tested"
    /\ WaiterGoes(w, "asleep")
    /\ lock' = Free
    /\ UNCHANGED <<flagVars, daemonVars, mainVars, requester, goal, owed>>

\* The timeout: wait_for returns the predicate.
WaiterTimesOut(w) ==
    /\ waiter[w] = "asleep"
    /\ lock = Free
    /\ WaiterGoes(w, IF goal[w] <= sweepsCompleted THEN "reached" ELSE "late")
    /\ UNCHANGED <<lock, flagVars, daemonVars, mainVars, requester, goal, owed>>

WaiterStep(w) == WaiterTests(w) \/ WaiterSleeps(w)

-----------------------------------------------------------------------------
Next ==
    \/ Daemon \/ Interval \/ Main
    \/ \E r \in Requesters : RequestSweep(r) \/ RequestNotifies(r)
    \/ \E w \in Waiters : WaitForSweeps(w) \/ WaiterStep(w) \/ WaiterTimesOut(w)

Spec == Init /\ [][Next]_vars

\* Threads run; no interval or timeout has to pass, and nobody has to call
\* start, stop, requestSweep or waitForSweeps.
Fairness ==
    /\ SF_vars(Daemon)
    /\ WF_vars(StopNotifies) /\ WF_vars(StopReturns)
    /\ \A r \in Requesters : WF_vars(RequestNotifies(r))
    /\ \A w \in Waiters : SF_vars(WaiterStep(w))
FairSpec == Spec /\ Fairness

-----------------------------------------------------------------------------
\* The state has its type, and m_mutex is held over a step exactly by the
\* thread that has tested its predicate and not gone to sleep yet.
TypeOK ==
    /\ isRunning \in BOOLEAN /\ isStopRequested \in BOOLEAN /\ isSweepRequested \in BOOLEAN
    /\ sweepsCompleted \in 0 .. MaxSweeps
    /\ thread \in {"none", "loop", "decide", "sweeping", "notify", "relock", "tested",
                   "asleep", "woken", "exited"}
    /\ main \in {"idle", "running", "notify", "join"} /\ starts \in 0 .. MaxStarts
    /\ requester \in [Requesters -> {"idle", "notify"}]
    /\ waiter \in [Waiters -> {"idle", "test", "tested", "asleep", "woken", "reached", "late"}]
    /\ (thread = "tested") <=> (lock = "daemon")
    /\ \A w \in Waiters : (waiter[w] = "tested") <=> (lock = w)
    /\ (main = "idle") <=> ~isRunning

\* purge_daemon.hpp:53: stop() waits for the sweep under way.  Whenever the
\* daemon is stopped, no sweep is, and a restart finds no second thread.
StoppedMeansNoSweep == main = "idle" => thread \in {"none", "exited"}

\* A request is pending in the flag or already taken by a sweep that is
\* about to begin: the daemon cannot go to sleep on it unnoticed.
RequestNotForgotten ==
    owed => \/ isSweepRequested
            \/ thread = "decide" /\ wasRequested

\* purge_daemon.hpp:33: a start sweeps once before it first goes to sleep,
\* to catch up with the time the service was down.
FirstSweepOnStart == thread \in {"relock", "tested", "asleep", "woken"} => hasSwept

\* purge_daemon.hpp:55: a request made while the daemon runs is served by a
\* sweep that begins after it, without waiting for an interval; or stop.
RequestServed == owed /\ main = "running" ~> ~owed \/ isStopRequested

\* stop() returns, without waiting for an interval.
StopTerminates == main = "notify" ~> main = "idle"

\* waitForSweeps returns when its count is reached, without its timeout.
WaiterReleased ==
    \A w \in Waiters :
        waiter[w] = "asleep" /\ goal[w] <= sweepsCompleted ~> waiter[w] \in {"reached", "late"}

=============================================================================
