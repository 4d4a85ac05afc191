------------------------- MODULE PurgeDaemonProofs -------------------------
(***************************************************************************)
(* Proofs about PurgeDaemon for any number of requesters, waiters and      *)
(* starts, and any count of sweeps.                                        *)
(***************************************************************************)
EXTENDS PurgeDaemon, TLAPS

\* Only a sweep leads from "decide" to the wait when the start owes one.
SweptBeforeWait ==
    thread \in {"notify", "relock", "tested", "asleep", "woken"} => hasSwept

IInv == TypeOK /\ StoppedMeansNoSweep /\ RequestNotForgotten /\ SweptBeforeWait

ThreadVars == <<thread, wasRequested, hasSwept, isSweepRequested, owed>>

\* Nothing runs and nothing is owed.
LEMMA IInvInit == Init => IInv
<1> SUFFICES ASSUME Init PROVE IInv
  OBVIOUS
<1>1. /\ requester \in [Requesters -> {"idle", "notify"}]
      /\ waiter \in [Waiters -> {"idle", "test", "tested", "asleep", "woken", "reached", "late"}]
      /\ \A w \in Waiters : waiter[w] # "tested"
  BY DEF Init
<1>2. sweepsCompleted \in 0 .. MaxSweeps /\ starts \in 0 .. MaxStarts
  BY BoundAssumption DEF Init
<1>3. lock # "daemon" /\ \A w \in Waiters : lock # w
  BY NameAssumption DEF Init
<1>4. TypeOK
  BY <1>1, <1>2, <1>3 DEF Init, TypeOK
<1> QED
  BY <1>4 DEF Init, IInv, StoppedMeansNoSweep, RequestNotForgotten, SweptBeforeWait

\* run(): the steps of the thread under m_mutex and around its sleep.
LEMMA DaemonStep ==
    ASSUME IInv, Daemon \/ Interval
    PROVE  IInv'
<1> USE DEF IInv, At, Goto, flagVars, mainVars, callVars
<1>1. CASE LoopTop
  <2>1. TypeOK'
    BY <1>1 DEF LoopTop, TypeOK
  <2> QED
    BY <1>1, <2>1 DEF LoopTop, StoppedMeansNoSweep, RequestNotForgotten, SweptBeforeWait
<1>2. CASE SweepBegins
  BY <1>2 DEF SweepBegins, TypeOK, StoppedMeansNoSweep, RequestNotForgotten, SweptBeforeWait
<1>3. CASE NotDue
  BY <1>3 DEF NotDue, SweepForced, TypeOK, StoppedMeansNoSweep, RequestNotForgotten,
              SweptBeforeWait
<1>4. CASE SweepCounted
  <2>1. sweepsCompleted' \in 0 .. MaxSweeps
    BY <1>4, BoundAssumption DEF SweepCounted, TypeOK
  <2> QED
    BY <1>4, <2>1 DEF SweepCounted, RequestAfterSweep, TypeOK, StoppedMeansNoSweep,
                      RequestNotForgotten, SweptBeforeWait
<1>5. CASE SweepNotified
  <2>1. /\ waiter' \in [Waiters -> {"idle", "test", "tested", "asleep", "woken", "reached", "late"}]
        /\ \A w \in Waiters : waiter'[w] = "tested" <=> waiter[w] = "tested"
    BY <1>5 DEF SweepNotified, Woken, TypeOK
  <2> QED
    BY <1>5, <2>1 DEF SweepNotified, TypeOK, StoppedMeansNoSweep, RequestNotForgotten,
                      SweptBeforeWait
<1>6. CASE TestPredicate
  <2>1. TypeOK'
    BY <1>6, NameAssumption DEF TestPredicate, TypeOK
  <2>2. RequestNotForgotten'
    BY <1>6 DEF TestPredicate, RequestNotForgotten
  <2> QED
    BY <1>6, <2>1, <2>2 DEF TestPredicate, StoppedMeansNoSweep, SweptBeforeWait
<1>7. CASE FallAsleep
  BY <1>7, NameAssumption DEF FallAsleep, TypeOK, StoppedMeansNoSweep, RequestNotForgotten,
                              SweptBeforeWait
<1>8. CASE Interval
  BY <1>8 DEF Interval, TypeOK, StoppedMeansNoSweep, RequestNotForgotten, SweptBeforeWait
<1> QED
  BY <1>1, <1>2, <1>3, <1>4, <1>5, <1>6, <1>7, <1>8 DEF Daemon

\* start() and stop(): the thread that stop joined is gone before a start
\* makes another.
LEMMA MainStep ==
    ASSUME IInv, Main
    PROVE  IInv'
<1> USE DEF IInv, Goto, WakeUp, Woken, Joined, RunningAfterStop, StopMayChange,
            flagVars, callVars, daemonVars
<1>1. CASE Start
  <2>1. thread \in {"none", "exited"} /\ thread' = "loop"
    BY <1>1 DEF Start, StoppedMeansNoSweep
  <2>2. starts' \in 0 .. MaxStarts
    BY <1>1, BoundAssumption DEF Start, TypeOK
  <2>3. TypeOK'
    BY <1>1, <2>1, <2>2 DEF Start, TypeOK
  <2> QED
    BY <1>1, <2>1, <2>3 DEF Start, StoppedMeansNoSweep, RequestNotForgotten, SweptBeforeWait
<1>2. CASE StopRequested
  BY <1>2 DEF StopRequested, TypeOK, StoppedMeansNoSweep, RequestNotForgotten, SweptBeforeWait
<1>3. CASE StopNotifies
  BY <1>3 DEF StopNotifies, TypeOK, StoppedMeansNoSweep, RequestNotForgotten, SweptBeforeWait
<1>4. CASE StopReturns
  BY <1>4 DEF StopReturns, TypeOK, StoppedMeansNoSweep, RequestNotForgotten, SweptBeforeWait
<1> QED
  BY <1>1, <1>2, <1>3, <1>4 DEF Main

\* requestSweep(): its flag and its notification.
LEMMA RequesterStep ==
    ASSUME IInv, NEW r \in Requesters, RequestSweep(r) \/ RequestNotifies(r)
    PROVE  IInv'
<1> USE DEF IInv, WakeUp, Woken, flagVars, daemonVars, mainVars
<1>1. CASE RequestSweep(r)
  BY <1>1 DEF RequestSweep, TypeOK, StoppedMeansNoSweep, RequestNotForgotten, SweptBeforeWait
<1>2. CASE RequestNotifies(r)
  BY <1>2 DEF RequestNotifies, TypeOK, StoppedMeansNoSweep, RequestNotForgotten,
              SweptBeforeWait
<1> QED
  BY <1>1, <1>2

\* waitForSweeps(): it holds m_mutex only between predicate and sleep.
LEMMA WaiterStepKeeps ==
    ASSUME IInv, NEW w \in Waiters, WaitForSweeps(w) \/ WaiterStep(w) \/ WaiterTimesOut(w)
    PROVE  IInv'
<1> USE DEF IInv, WaiterGoes, flagVars, daemonVars, mainVars
<1>1. UNCHANGED <<isRunning, isStopRequested, sweepsCompleted, mainVars, requester, ThreadVars>>
  BY DEF WaitForSweeps, WaiterStep, WaiterTests, WaiterSleeps, WaiterTimesOut, ThreadVars
<1>2. /\ waiter' \in [Waiters -> {"idle", "test", "tested", "asleep", "woken", "reached", "late"}]
      /\ \A v \in Waiters : v # w => waiter'[v] = waiter[v]
  BY DEF WaitForSweeps, WaiterStep, WaiterTests, WaiterSleeps, WaiterTimesOut, TypeOK
<1>3. \/ UNCHANGED lock /\ waiter[w] # "tested" /\ waiter'[w] # "tested"
      \/ lock = Free /\ lock' = w /\ waiter'[w] = "tested"
      \/ lock = w /\ lock' = Free /\ waiter'[w] # "tested"
  BY DEF WaitForSweeps, WaiterStep, WaiterTests, WaiterSleeps, WaiterTimesOut, TypeOK
<1>4. TypeOK'
  BY <1>1, <1>2, <1>3, NameAssumption DEF TypeOK, ThreadVars
<1> QED
  BY <1>1, <1>4 DEF StoppedMeansNoSweep, RequestNotForgotten, SweptBeforeWait, ThreadVars

\* The four invariants together are inductive.
THEOREM IInvAlways == Spec => []IInv
<1>1. ASSUME IInv, UNCHANGED vars PROVE IInv'
  BY <1>1 DEF IInv, TypeOK, StoppedMeansNoSweep, RequestNotForgotten, SweptBeforeWait,
              vars, flagVars, daemonVars, mainVars, callVars
<1>2. IInv /\ [Next]_vars => IInv'
  BY <1>1, DaemonStep, MainStep, RequesterStep, WaiterStepKeeps DEF Next
<1> QED
  BY <1>2, IInvInit, PTL DEF Spec

\* m_mutex is held over a step exactly by the thread that has tested its
\* predicate and not gone to sleep yet, in run() and waitForSweeps().
THEOREM TypeCorrect == Spec => []TypeOK
<1>1. IInv => TypeOK
  BY DEF IInv
<1> QED
  BY <1>1, IInvAlways, PTL

\* purge_daemon.hpp:53: after stop() no sweep is under way, after any number
\* of starts and stops.
THEOREM StoppedMeansNoSweepAlways == Spec => []StoppedMeansNoSweep
<1>1. IInv => StoppedMeansNoSweep
  BY DEF IInv
<1> QED
  BY <1>1, IInvAlways, PTL

\* A request made at any time, even while a sweep runs, is pending until a
\* sweep begins after it.
THEOREM RequestNotForgottenAlways == Spec => []RequestNotForgotten
<1>1. IInv => RequestNotForgotten
  BY DEF IInv
<1> QED
  BY <1>1, IInvAlways, PTL

\* purge_daemon.hpp:33: every start sweeps before its thread first waits.
THEOREM FirstSweepOnStartAlways == Spec => []FirstSweepOnStart
<1>1. IInv => FirstSweepOnStart
  BY DEF IInv, SweptBeforeWait, FirstSweepOnStart
<1> QED
  BY <1>1, IInvAlways, PTL

=============================================================================
