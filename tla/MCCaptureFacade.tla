--------------------------- MODULE MCCaptureFacade ---------------------------
(***************************************************************************)
(* Two extractions against a source whose session may change.  One frame   *)
(* lies in both windows and ends the first of them, the other ends both    *)
(* and lies past the first, so that one notification may release one       *)
(* waiter, both or none, and every answer of an extraction is possible.    *)
(***************************************************************************)
EXTENDS CaptureFacade

CONSTANTS s1, s2, r1, r2

Frame(ts, s) == [ts |-> ts, key |-> TRUE, session |-> s]
TwoSessions == {Frame(2, s1), Frame(3, s2)}
MCWindows == {[start |-> 1, end |-> 2], [start |-> 2, end |-> 3]}
OneEach == [r \in Requests |->
               {IF r = r1 THEN [start |-> 1, end |-> 2] ELSE [start |-> 2, end |-> 3]}]

=============================================================================
