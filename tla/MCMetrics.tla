----------------------------- MODULE MCMetrics -----------------------------
(***************************************************************************)
(* Two visitors who cross the border up to six times: one comes and goes   *)
(* early, also faster than the filter allows, and both may stay later, for *)
(* longer.  The rows of [0, 4] and [4, 8] tile the window of the first     *)
(* link at time 8, with one visit and two of another length; those of      *)
(* [-8, 0], an empty one, and [0, 8], measured or rolled up, tile that of  *)
(* the second.                                                             *)
(***************************************************************************)
EXTENDS MetricsPipeline

CONSTANTS a, b

Instants == [o \in Origins |-> IF o = a THEN {1, 2, 3, 5, 8} ELSE {5, 8}]
FineOrDefault ==
    {[at |-> 0, sizes |-> <<8>>], [at |-> 4, sizes |-> <<4>>],
     [at |-> 8, sizes |-> <<4, 8>>]}
Labels == [size \in {4, 8, 16} |->
              CASE size = 4 -> "1s" [] size = 8 -> "1m" [] size = 16 -> "15m"]
TwoLinks == << [from |-> "1s", to |-> "1m", size |-> 8],
               [from |-> "1m", to |-> "15m", size |-> 16] >>

=============================================================================
