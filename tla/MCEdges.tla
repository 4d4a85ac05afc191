------------------------------ MODULE MCEdges ------------------------------
(***************************************************************************)
(* The edges of the system on one small instance: the two pages of the     *)
(* front end, the body of a request, the container that is handed out and  *)
(* the scenario on disk.  They share nothing: a behaviour is of one part,  *)
(* and the others stay in an initial state.                                *)
(***************************************************************************)
EXTENDS ZoneEditor, OverlayPlayer, EventRequest, IsoBmff, ScenarioLog

CONSTANTS mdat, stbl, garbage, Null

VARIABLE part

-----------------------------------------------------------------------------
(***************************************************************************)
(* The pages.                                                              *)
(***************************************************************************)
\* The corners of a square.
Square == {<<0, 0>>, <<0, 2>>, <<2, 0>>, <<2, 2>>}

\* No box, one interval, and two that share an instant.
SomeTimelines ==
    {{}, {[start |-> 1, end |-> 1]},
     {[start |-> 0, end |-> 1], [start |-> 1, end |-> 2]}}

-----------------------------------------------------------------------------
(***************************************************************************)
(* Bodies of at most three fields: numbers of every kind, strings, a null. *)
(* Values of numbers are in halves, so that 1.5 has the digits 1 and the   *)
(* value 3.                                                                *)
(***************************************************************************)
Number(digits, value) ==
    [t |-> "number", v |-> [digits |-> digits, value |-> value]]
Integer(n) == Number(n, 2 * n)

FieldSet ==
    {[key |-> "event_id", value |-> String(s)] :
        s \in {"evt-1", "../evil", "start_ms", Nothing}}
    \cup {[key |-> "event_id", value |-> [t |-> "word", v |-> Null]]}
    \cup {[key |-> "note", value |-> String(s)] : s \in {"x", "event_id"}}
    \cup {[key |-> "capture_ts_ns", value |-> n] :
            n \in {Integer(0), Integer(7), Number(TooLong, 2000)}}
    \cup {[key |-> "pre_window_seconds", value |-> n] :
            n \in {Integer(-1), Number(1, 3)}}
    \cup {[key |-> "post_window_seconds", value |-> n] :
            n \in {Integer(0), Number(0, 1)}}
    \cup {[key |-> "start_ms", value |-> Integer(n)] : n \in {4, 5}}
    \cup {[key |-> "end_ms", value |-> Integer(5)]}

MCBodies == UNION {[1 .. n -> FieldSet] : n \in 0 .. 3}
MCValid == {"evt-1", "start_ms", "event-uuid"}

-----------------------------------------------------------------------------
(***************************************************************************)
(* Containers as mp4mux writes them, and what must be left alone: samples  *)
(* that look like a header, boxes whose size is none.                      *)
(***************************************************************************)
Box(type, content) == <<Len(content) + Header, type>> \o content

HeaderBoxes(type) ==
    {Box(type, <<0, Date, Date, 7>>),               \* version 0
     Box(type, <<1, Date, Date, Date, Date, 7>>),   \* version 1
     Box(type, <<0, 7>>),                           \* too short for dates
     Box(type, <<>>)}

\* Samples that happen to spell a header.
Samples == Box(mdat, <<5, mvhd, 0, 7, 7>>)

\* A size of zero, or one beyond the end; nothing after it is read.
Malformed == {<<0, mvhd, 0, 7, 7>>, <<9, tkhd, 0, 7, 7>>, <<2>>}

Tracks ==
    {Box(trak, t \o Box(edts, <<>>) \o
               Box(mdia, m \o Box(minf, Box(stbl, <<3, 7>>)))) :
        t \in HeaderBoxes(tkhd), m \in HeaderBoxes(mdhd)}

Movies == {Box(moov, h \o t) : h \in HeaderBoxes(mvhd), t \in Tracks}

MCLayouts ==
    {Box(first, <<7>>) \o m \o Samples :
        first \in {ftyp, styp, free, skip, wide}, m \in Movies}
    \cup {m \o Samples \o x : m \in Movies, x \in Malformed}
    \cup {Box(moov, x) : x \in Malformed}
    \cup {Box(garbage, <<5, mvhd, 0, 7, 7>>), Samples, <<7>>, <<>>}

-----------------------------------------------------------------------------
(***************************************************************************)
(* Three kinds of frame, of three sessions.                                *)
(***************************************************************************)
MCFrames ==
    {[ts |-> 1, length |-> 2, key |-> TRUE, session |-> "s1"],
     [ts |-> 2, length |-> 1, key |-> FALSE, session |-> "s 2"],
     [ts |-> 0, length |-> 1, key |-> TRUE, session |-> NoSession]}

-----------------------------------------------------------------------------
\* A part that does not run stays in one of its initial states.
RequestIdle ==
    /\ sent = <<>> /\ windowed = FALSE /\ newest = 0
    /\ parsed = Nothing /\ answer = Nothing
BoxIdle == layout = <<>> /\ words = <<>> /\ walk = NotCalled

Init ==
    /\ part \in {"editor", "player", "request", "container", "scenario"}
    /\ EditorInit /\ PlayerInit /\ ScenarioInit
    /\ part # "editor" => menuAt = "press"
    /\ part # "player" => paused
    /\ IF part = "request" THEN RequestInit ELSE RequestIdle
    /\ IF part = "container" THEN BoxInit ELSE BoxIdle

EditorStep ==
    /\ part = "editor" /\ EditorNext
    /\ UNCHANGED <<part, playerVars, requestVars, boxVars, scenarioVars>>
PlayerStep ==
    /\ part = "player" /\ PlayerNext
    /\ UNCHANGED <<part, editorVars, requestVars, boxVars, scenarioVars>>
RequestStep ==
    /\ part = "request" /\ RequestNext
    /\ UNCHANGED <<part, editorVars, playerVars, boxVars, scenarioVars>>
BoxStep ==
    /\ part = "container" /\ BoxNext
    /\ UNCHANGED <<part, editorVars, playerVars, requestVars, scenarioVars>>
ScenarioStep ==
    /\ part = "scenario" /\ ScenarioNext
    /\ UNCHANGED <<part, editorVars, playerVars, requestVars, boxVars>>

Next == EditorStep \/ PlayerStep \/ RequestStep \/ BoxStep \/ ScenarioStep

vars == <<part, editorVars, playerVars, requestVars, boxVars, scenarioVars>>

Spec == Init /\ [][Next]_vars /\ BoxFairness

=============================================================================
