SPECIFICATION FairSpec
INVARIANTS StoppedMeansNoSweep FirstSweepOnStart
PROPERTIES RequestServed StopTerminates WaiterReleased
CONSTANTS
    Requesters = {r1, r2}
    Waiters = {w1}
    Goals = {1, 2}
    MaxSweeps = 2
    MaxStarts = 2
    Free = Free
