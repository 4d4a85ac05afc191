-------------------------- MODULE MCMediaRetention --------------------------
(***************************************************************************)
(* c1 and c2 are clips of one event and share a file, c3 and c4 have one   *)
(* each.  The disk of RetentionSweep is at the trigger when all three of   *)
(* its files are there, and below the target without the largest.          *)
(***************************************************************************)
EXTENDS MediaRetention

CONSTANTS e1, e2, e3, c1, c2, c3, c4

EventOfClip == [c \in Clips |-> IF c = c3 THEN e2 ELSE IF c = c4 THEN e3 ELSE e1]
Bytes == [e \in Events |-> IF e = e1 THEN 2 ELSE 1]

=============================================================================
