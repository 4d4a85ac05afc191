---------------------------- MODULE MCRingBuffer ----------------------------
(***************************************************************************)
(* A small instance of RingBuffer for TLC: an arena of 5 bytes, laps of    *)
(* frames of unequal lengths, two lengths allocate() refuses, keyframes and*)
(* equal timestamps in every order, and a second session.  No frame fills  *)
(* the arena, so that the reason of an eviction can be measured.           *)
(***************************************************************************)
EXTENDS RingBuffer

CONSTANTS s1, s2

MixOffered ==
    [ts : {1}, len : {0, 3, 6}, key : {TRUE}, session : {s1}]
      \cup [ts : 1 .. 3, len : {1, 2}, key : BOOLEAN, session : {s1}]
      \cup [ts : {1}, len : {2, 3}, key : {TRUE}, session : {s2}]
MixWindows == {w \in [start : 1 .. 3, end : 2 .. 4] : w.start < w.end}

=============================================================================
