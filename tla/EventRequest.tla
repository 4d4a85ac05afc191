---------------------------- MODULE EventRequest ----------------------------
(***************************************************************************)
(* What POST /api/v1/events makes of the body it is sent.  The handler has *)
(* no JSON parser: it looks for the quoted name of a field wherever it is, *)
(* then for the next colon, then for a value behind it.                    *)
(*                                                                         *)
(* A body is a sequence of tokens: quoted strings without escaped quotes,  *)
(* numbers, other words (null, true) and punctuation.  Of a number are     *)
(* kept the digits before its first other character, which are what an     *)
(* integer is read from, and the value, which is what a double is read     *)
(* from.                                                                   *)
(***************************************************************************)
EXTENDS Integers, FiniteSets, FiniteSetsExt, SequencesExt

CONSTANTS
    Bodies,     \* what clients send: sequences of [key, value]
    Valid,      \* the event ids of letters, digits, "_" and "-"
    Generated,  \* what generate_event_id makes up
    LastSecond, \* the window from a second ago to now
    NewestTimes,    \* the times of the newest frame, 0 without frames
    TooLong,    \* digits that std::stoll refuses
    Nothing     \* std::nullopt, and the empty string

\* A body is a sequence of fields, and a number is something.
ASSUME BodiesAssumption ==
    \A body \in Bodies :
        /\ body \in Seq(Range(body))
        /\ \A field \in Range(body) : field.value.t = "number" => field.value.v # Nothing

VARIABLES
    sent,       \* the fields of the body, in the order sent
    windowed,   \* supportsCaptureWindows(): built with a muxer
    newest,     \* newestCaptureTsNs() of the buffer, 0 without frames
    parsed,     \* the EventRequest, or Nothing
    answer      \* where the handler goes: [path, ...], or Nothing before

requestVars == <<sent, windowed, newest, parsed, answer>>

\* The first of some places, 0 if there is none.
First(places) == IF places = {} THEN 0 ELSE Min(places)

Mark(m) == [t |-> m, v |-> Nothing]
String(s) == [t |-> "string", v |-> s]

\* One field, as a client writes it.
FieldTokens(field) == <<String(field.key), Mark(":"), field.value, Mark(",")>>

\* The body as it arrives.
Body == FlattenSeq([i \in DOMAIN sent |-> FieldTokens(sent[i])])

-----------------------------------------------------------------------------
(***************************************************************************)
(* extract_json_string, extract_json_int, extract_json_double.             *)
(***************************************************************************)
\* body.find: the first token of these after a place, 0 if there is none.
Find(tokens, place) == First({i \in DOMAIN Body : i > place /\ Body[i] \in tokens})

\* Slip: the colon sought from the beginning of the body.
FirstColon(key) ==
    IF Find({String(key)}, 0) = 0 THEN 0 ELSE Find({Mark(":")}, 0)

ColonAfter(key) ==
    LET name == Find({String(key)}, 0)
    IN  IF name = 0 THEN 0 ELSE Find({Mark(":")}, name)

\* The next quoted string behind the colon, whatever comes before it.
ExtractString(key) ==
    LET colon == ColonAfter(key)
        quoted == {i \in DOMAIN Body : i > colon /\ Body[i].t = "string"}
    IN  IF colon = 0 \/ quoted = {} THEN Nothing ELSE Body[First(quoted)].v

\* The number right behind the colon; a name in last place has a colon only
\* if something follows it.
NumberAfter(key) ==
    LET colon == ColonAfter(key)
    IN  IF colon # 0 /\ Body[colon + 1].t = "number"
        THEN Body[colon + 1].v ELSE Nothing

ExtractInt(key) ==
    IF NumberAfter(key) = Nothing \/ NumberAfter(key).digits = TooLong
    THEN Nothing ELSE NumberAfter(key).digits

ExtractDouble(key) ==
    IF NumberAfter(key) = Nothing THEN Nothing ELSE NumberAfter(key).value

-----------------------------------------------------------------------------
(***************************************************************************)
(* parse_event_request and the handler up to the extraction.               *)
(***************************************************************************)
OrZero(number) == IF number = Nothing THEN 0 ELSE number
Refused(code) == [path |-> code]

Seconds == {"pre_window_seconds", "post_window_seconds"}
FieldNames == {"event_id", "capture_ts_ns", "start_ms", "end_ms"} \cup Seconds

Extracted ==
    [key \in FieldNames |->
        IF key = "event_id" THEN ExtractString(key)
        ELSE IF key \in Seconds THEN ExtractDouble(key) ELSE ExtractInt(key)]

\* What the fields amount to, however they are read.
EventRequestOf(field) ==
    LET first == field["start_ms"]
        last == field["end_ms"]
        pre == OrZero(field["pre_window_seconds"])
        post == OrZero(field["post_window_seconds"])
        hasWindow == first # Nothing /\ last # Nothing
    IN  IF pre < 0 \/ post < 0 \/ (hasWindow /\ first >= last)
        THEN Refused("400")
        ELSE [path |-> "parsed", eventId |-> field["event_id"],
              captureTs |-> field["capture_ts_ns"], pre |-> pre, post |-> post,
              window |-> IF hasWindow THEN <<first, last>> ELSE Nothing]

\* Where the handler takes a request: to a refusal, to a window around an
\* instant of the capture clock, or to one of the wall clock, which is the
\* last second unless the request names it.
Outcome(request) ==
    LET id == IF request.eventId = Nothing THEN Generated ELSE request.eventId
        ts == IF request.captureTs = Nothing THEN newest ELSE request.captureTs
    IN  IF request.path = "400" THEN request
        ELSE IF id \notin Valid THEN Refused("400")
        ELSE IF windowed /\ request.window = Nothing
        THEN IF ts = 0 THEN Refused("409")
             ELSE IF request.pre + request.post = 0 THEN Refused("500")
             ELSE [path |-> "capture", id |-> id, ts |-> ts,
                   pre |-> request.pre, post |-> request.post]
        ELSE [path |-> "wall", id |-> id,
              window |-> IF request.window = Nothing THEN LastSecond
                         ELSE request.window]

RequestInit ==
    /\ sent \in Bodies
    /\ windowed \in BOOLEAN
    /\ newest \in NewestTimes
    /\ parsed = Nothing
    /\ answer = Nothing

ParseEventRequest ==
    /\ parsed = Nothing
    /\ parsed' = EventRequestOf(Extracted)
    /\ UNCHANGED <<sent, windowed, newest, answer>>

Handle ==
    /\ parsed # Nothing
    /\ answer = Nothing
    /\ answer' = Outcome(parsed)
    /\ UNCHANGED <<sent, windowed, newest, parsed>>

RequestNext == ParseEventRequest \/ Handle

RequestSpec == RequestInit /\ [][RequestNext]_requestVars

-----------------------------------------------------------------------------
(***************************************************************************)
(* What the body says, read as JSON.                                       *)
(***************************************************************************)
Fields(key) == {i \in DOMAIN sent : sent[i].key = key}
Value(key) == sent[First(Fields(key))].value

Meant ==
    [key \in FieldNames |->
        IF Fields(key) = {} THEN Nothing
        ELSE IF key = "event_id" THEN Value(key).v
        ELSE IF key \in Seconds THEN Value(key).v.value ELSE Value(key).v.digits]

\* A body that means something: a field is given once and with a value of
\* its type, and no string of it is spelt like the name of a field.
IsInteger(value) ==
    /\ value.t = "number"
    /\ value.v.digits # TooLong /\ value.v.value = 2 * value.v.digits
Plain ==
    /\ \A key \in FieldNames : Cardinality(Fields(key)) =< 1
    /\ \A i \in DOMAIN sent :
          LET value == sent[i].value
          IN  /\ value.t = "string" => value.v \notin FieldNames
              /\ sent[i].key = "event_id" => value.t = "string"
              /\ sent[i].key \in Seconds => value.t = "number"
              /\ sent[i].key \in {"capture_ts_ns", "start_ms", "end_ms"}
                    => IsInteger(value)

\* The search for names and colons finds in a body what a JSON parser would,
\* in whatever order its fields come and whatever other fields it has: the
\* clip is extracted under the name and from the window the client meant, or
\* refused for the reason it should be.
BodyIsReadAsMeant ==
    answer # Nothing /\ Plain => answer = Outcome(EventRequestOf(Meant))

\* The README (lines 297-303) posts an event_id and nothing else: a clip of
\* the last second is extracted.
BareEventIsServed ==
    (answer # Nothing /\ Plain /\ newest # 0
        /\ Len(sent) = 1 /\ Fields("event_id") # {} /\ Value("event_id").v \in Valid)
            => answer.path \in {"capture", "wall"}

=============================================================================
