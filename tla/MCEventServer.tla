--------------------------- MODULE MCEventServer ---------------------------
(***************************************************************************)
(* Small instances of EventServer: a stream in decode order with a         *)
(* B-frame, two frames of one time and a sample without any time, and two  *)
(* windows: one has no length, the other, at 2, ends after all frames and  *)
(* holds those that arrived, and at the newest frame holds the last.  One  *)
(* request may be of any kind but a GET, the other comes before or after   *)
(* it, asks for an instant or reads either clip.                           *)
(***************************************************************************)
EXTENDS EventServer

CONSTANTS r1, r2

BFrames == << [dts |-> 1, pts |-> 1], [dts |-> NoTime, pts |-> NoTime],
              [dts |-> 2, pts |-> 4], [dts |-> 2, pts |-> 3] >>
EveryKind == [r \in Requests |->
                 IF r = r1 THEN {"bad", "at", "now", "wall"} ELSE {"at", "get"}]
CaptureClock == [r \in Requests |-> {"at"}]
AroundTheStart == {NoWindow, [ts |-> 2, pre |-> 0, post |-> 2]}

=============================================================================
