-------------------------- MODULE EventServerProofs --------------------------
(***************************************************************************)
(* What the server promises for any number of requests and of handlers,    *)
(* any stream and any failures.  Handlers share the members of the muxer   *)
(* without a lock, so a clip is promised to be the one that was asked for  *)
(* only to a request whose mux() met no other one (the history variable    *)
(* lone); the invariant says what the others, before it and after it, can  *)
(* no longer reach of it.                                                  *)
(***************************************************************************)
EXTENDS EventServer, FiniteSetTheorems, SequenceTheorems, WellFoundedInduction, TLAPS

Places == {"idle", "parse", "wait", "drop", "launch", "ends", "connect", "play",
           "push", "bus", "pop", "write", "save", "describe", "done"}
Early == {"idle", "parse", "wait", "drop"}
Preparing == {"ends", "connect", "play"}
Running == {"push", "bus", "pop"}
Inside == {"launch"} \cup Preparing \cup Running
Over == {"write", "save", "describe", "done"}
Before == Early \cup {"launch"}

-----------------------------------------------------------------------------
(***************************************************************************)
(* The answer and the store.                                               *)
(***************************************************************************)
\* A clip is saved just before it is described; 201 is the last thing said.
StoreInv ==
    /\ at \in [Requests -> Places]
    /\ status \in [Requests -> Nat]
    /\ \A r \in Requests :
          /\ r \in rows => at[r] \in {"describe", "done"}
          /\ at[r] = "describe" => r \in rows
          /\ at[r] # "done" => status[r] = 0
    /\ AnswerMatchesStore

\* A handler moves to a place and may answer on the way.
LEMMA HandlerMoves ==
    ASSUME StoreInv, NEW r \in Requests, at[r] \notin {"describe", "done"},
           NEW p \in Places, NEW n \in Nat, p # "describe", n # 201,
           p # "done" => n = 0,
           Goes(r, p), status' = [status EXCEPT ![r] = n], UNCHANGED rows
    PROVE  StoreInv'
<1>1. r \notin rows
  BY DEF StoreInv
<1>2. \A s \in Requests : /\ at'[s] = IF s = r THEN p ELSE at[s]
                          /\ status'[s] = IF s = r THEN n ELSE status[s]
  BY DEF StoreInv, Goes
<1>3. at' \in [Requests -> Places] /\ status' \in [Requests -> Nat]
  BY DEF StoreInv, Goes
<1> QED
  BY <1>1, <1>2, <1>3 DEF StoreInv, AnswerMatchesStore

\* A handler that did not save anything yet goes on or gives up.
LEMMA UnsavedMoves ==
    ASSUME StoreInv, NEW r \in Requests, at[r] \notin {"describe", "done"},
           UNCHANGED rows,
           \/ Throws(r)
           \/ \E code \in {200, 400, 404, 409} : Answers(r, code)
           \/ \E p \in Places \ {"describe", "done"} : Goes(r, p) /\ UNCHANGED status
    PROVE  StoreInv'
<1>1. ASSUME NEW code \in {200, 400, 404, 409, 500}, Answers(r, code)
      PROVE  StoreInv'
  <2>1. code \in Nat /\ code # 201 /\ r \notin rows
    BY DEF StoreInv
  <2>2. \A s \in Requests : /\ at'[s] = IF s = r THEN "done" ELSE at[s]
                            /\ status'[s] = IF s = r THEN code ELSE status[s]
    BY <1>1 DEF StoreInv, Answers, Goes
  <2>3. at' \in [Requests -> Places] /\ status' \in [Requests -> Nat]
    BY <1>1, <2>1 DEF StoreInv, Answers, Goes, Places
  <2> QED
    BY <2>1, <2>2, <2>3 DEF StoreInv, AnswerMatchesStore
<1>2. ASSUME NEW p \in Places \ {"describe", "done"}, Goes(r, p), UNCHANGED status
      PROVE  StoreInv'
  <2>1. status' = [status EXCEPT ![r] = 0]
    BY <1>2 DEF StoreInv
  <2>2. p \in Places /\ p # "describe" /\ p # "done" /\ 0 \in Nat /\ 0 # 201
    OBVIOUS
  <2> QED
    BY <1>2, <2>1, <2>2, HandlerMoves
<1> QED
  BY <1>1, <1>2 DEF Throws

\* Whatever mux() does, nothing is saved by it.
LEMMA MuxMoves ==
    ASSUME NEW r \in Requests, Mux(r)
    PROVE  /\ at[r] \in {"drop"} \cup Inside
           /\ UNCHANGED <<rows, kind, segment, log, arrived>>
           /\ \/ Throws(r)
              \/ \E p \in Places \ {"describe", "done"} : Goes(r, p) /\ UNCHANGED status
              \/ UNCHANGED <<at, status>>
<1> USE DEF Places, Inside, Preparing, Running, MuxElsewhere, MuxThrows, captureVars, carried
<1>1. CASE DropOldPipeline(r)
  BY <1>1 DEF DropOldPipeline
<1>2. CASE LaunchPipeline(r)
  BY <1>2 DEF LaunchPipeline
<1>3. CASE TakeEnds(r)
  BY <1>3 DEF TakeEnds
<1>4. CASE ConnectSink(r)
  BY <1>4 DEF ConnectSink
<1>5. CASE SetPlaying(r)
  BY <1>5 DEF SetPlaying
<1>6. CASE PushFrame(r)
  BY <1>6 DEF PushFrame
<1>7. CASE EndOfStream(r)
  BY <1>7 DEF EndOfStream
<1>8. CASE GetBus(r)
  BY <1>8 DEF GetBus
<1>9. CASE PopMessage(r)
  BY <1>9 DEF PopMessage
<1>10. CASE PopTimesOut(r)
  BY <1>10 DEF PopTimesOut
<1> QED
  BY <1>1, <1>2, <1>3, <1>4, <1>5, <1>6, <1>7, <1>8, <1>9, <1>10 DEF Mux

LEMMA StoreStep ==
    ASSUME StoreInv, [Next]_vars
    PROVE  StoreInv'
<1>1. ASSUME UNCHANGED <<at, status, rows>>
      PROVE  StoreInv'
  BY <1>1 DEF StoreInv, AnswerMatchesStore
<1>2. CASE NewSample \/ StopCapture \/ StopServer \/ ServerJoined \/ UNCHANGED vars
  BY <1>1, <1>2 DEF NewSample, StopCapture, StopServer, ServerJoined, vars
<1>3. ASSUME NEW r \in Requests, Accepted(r)
      PROVE  StoreInv'
  <2>1. Goes(r, "parse") /\ at[r] = "idle" /\ UNCHANGED <<status, rows>>
    BY <1>3 DEF Accepted
  <2> QED
    BY <2>1, UnsavedMoves DEF Places
<1>4. ASSUME NEW r \in Requests, Streams(r)
      PROVE  StoreInv'
  BY <1>1, <1>4 DEF Streams, FrameTaken, ContainerEmitted, PipelineFails, MuxElsewhere
<1>5. ASSUME NEW r \in Requests, Handles(r)
      PROVE  StoreInv'
  <2>1. CASE GetClip(r)
    <3>1. at[r] = "parse" /\ UNCHANGED rows
      BY <2>1 DEF GetClip
    <3>2. Answers(r, 200) \/ Answers(r, 404) \/ Throws(r)
      BY <2>1 DEF GetClip
    <3> QED
      BY <3>1, <3>2, UnsavedMoves
  <2>2. CASE BadRequest(r)
    BY <2>2, UnsavedMoves DEF BadRequest
  <2>3. CASE NoClockYet(r)
    BY <2>3, UnsavedMoves DEF NoClockYet
  <2>4. CASE WindowAsked(r)
    <3>1. /\ at[r] = "parse" /\ UNCHANGED rows
          /\ Throws(r) \/ (Goes(r, "wait") /\ UNCHANGED status)
      BY <2>4 DEF WindowAsked
    <3> QED
      BY <3>1, UnsavedMoves DEF Places
  <2>5. CASE SegmentExtracted(r)
    <3>1. /\ at[r] = "wait" /\ UNCHANGED rows
          /\ Throws(r) \/ (Goes(r, "drop") /\ UNCHANGED status)
      BY <2>5 DEF SegmentExtracted
    <3> QED
      BY <3>1, UnsavedMoves DEF Places
  <2>6. CASE CaptureStopped(r)
    BY <2>6, UnsavedMoves DEF CaptureStopped
  <2>7. CASE LegacyRead(r)
    <3>1. /\ at[r] = "parse" /\ UNCHANGED rows
          /\ Throws(r) \/ (Goes(r, "write") /\ UNCHANGED status)
      BY <2>7 DEF LegacyRead
    <3> QED
      BY <3>1, UnsavedMoves DEF Places
  <2>8. CASE Mux(r)
    <3>1. at[r] \notin {"describe", "done"} /\ UNCHANGED rows
      BY <2>8, MuxMoves DEF Inside, Preparing, Running
    <3>2. CASE UNCHANGED <<at, status>>
      BY <1>1, <3>1, <3>2
    <3> QED
      BY <2>8, <3>1, <3>2, MuxMoves, UnsavedMoves
  <2>9. CASE FileWritten(r)
    <3>1. /\ at[r] = "write" /\ UNCHANGED rows
          /\ Throws(r) \/ (Goes(r, "save") /\ UNCHANGED status)
      BY <2>9 DEF FileWritten
    <3> QED
      BY <3>1, UnsavedMoves DEF Places
  <2>10. CASE ClipSaved(r)
    <3>1. CASE Throws(r) /\ UNCHANGED rows
      BY <2>10, <3>1, UnsavedMoves DEF ClipSaved
    <3>2. CASE Goes(r, "describe") /\ rows' = rows \cup {r} /\ UNCHANGED status
      BY <2>10, <3>2 DEF ClipSaved, Goes, StoreInv, AnswerMatchesStore, Places
    <3> QED
      BY <2>10, <3>1, <3>2 DEF ClipSaved
  <2>11. CASE Described(r)
    <3>1. at[r] = "describe" /\ r \in rows /\ UNCHANGED rows
      BY <2>11 DEF Described, StoreInv
    <3>2. CASE Answers(r, 201)
      BY <3>1, <3>2 DEF Answers, Goes, StoreInv, AnswerMatchesStore, Places
    <3>3. CASE May("find") /\ Throws(r)
      BY <3>1, <3>3 DEF Throws, Answers, Goes, StoreInv, AnswerMatchesStore, Places
    <3> QED
      BY <2>11, <3>2, <3>3 DEF Described
  <2> QED
    BY <1>5, <2>1, <2>2, <2>3, <2>4, <2>5, <2>6, <2>7, <2>8, <2>9, <2>10, <2>11
       DEF Handles
<1> QED
  BY <1>2, <1>3, <1>4, <1>5 DEF Next

\* extract_clip.cpp and the controller: 201 for a saved clip only, and a saved
\* clip is answered with 201 unless it could not be read back.
THEOREM AnswerMatchesStoreAlways == Spec => []AnswerMatchesStore
<1>1. Init => StoreInv
  BY DEF Init, StoreInv, AnswerMatchesStore, Places
<1>2. StoreInv /\ [Next]_vars => StoreInv'
  BY StoreStep
<1>3. StoreInv => AnswerMatchesStore
  BY DEF StoreInv
<1> QED
  BY <1>1, <1>2, <1>3, PTL DEF Spec

-----------------------------------------------------------------------------
(***************************************************************************)
(* A mux() that meets no other: what belongs to it while it runs.          *)
(***************************************************************************)
Frame == [id : Nat, ts : Int]
Samples == {Sample(s, i) : s \in Seq(Frame), i \in Nat}
Pipe == [state : {"none", "null", "playing"}, fed : Seq(Samples), taken : Nat,
         eos : BOOLEAN, emitted : BOOLEAN, message : {"none", "eos", "error"},
         sinks : Seq(Requests)]

MuxTyped ==
    /\ arrived \in Nat /\ log \in Seq(Frame)
    /\ at \in [Requests -> Places]
    /\ segment \in [Requests -> Seq(Frame)]
    /\ pushed \in [Requests -> Nat]
    /\ container \in [Requests -> Seq(Samples)]
    /\ appsrc \in [Requests -> Requests \cup {None}]
    /\ bus \in [Requests -> Requests \cup {None}]
    /\ pipes \in [Requests -> Pipe]
    /\ members \in [pipeline : Requests \cup {None}, source : Requests \cup {None},
                    sink : Requests \cup {None}]
    /\ lone \in SUBSET Requests
    /\ DOMAIN kind = Requests

\* The sink of pipeline p calls back into the mux() of s.
Holds(p, s) == \E i \in DOMAIN pipes[p].sinks : pipes[p].sinks[i] = s

\* The samples of the first n frames of a segment.
Fed(s, n) == [i \in 1 .. n |-> Sample(segment[s], i)]

Fresh(s) ==
    /\ pipes[s] = NewPipe /\ container[s] = <<>> /\ pushed[s] = 0
    /\ members.pipeline # s /\ members.sink # s
    /\ \A p \in Requests : ~Holds(p, s)

Ready(s) ==
    /\ members.pipeline = s
    /\ pipes[s].state = "null" /\ container[s] = <<>> /\ pushed[s] = 0
    /\ at[s] = "connect" => members.source = s /\ members.sink = s
    /\ pipes[s].sinks = IF at[s] = "play" THEN <<s>> ELSE <<>>
    /\ at[s] = "play" => appsrc[s] = s

Feeding(s) ==
    /\ members.pipeline = s /\ appsrc[s] = s
    /\ pipes[s].state = "playing" /\ pipes[s].sinks = <<s>>
    /\ pushed[s] =< Len(segment[s])
    /\ pipes[s].fed = Fed(s, pushed[s])
    /\ pipes[s].eos => pushed[s] = Len(segment[s])
    /\ container[s] # <<>> =>
          pipes[s].eos /\ pipes[s].emitted /\ container[s] = pipes[s].fed
    /\ at[s] = "pop" => bus[s] = s

\* While it runs nobody else is in mux(); once it is over its pipeline is
\* silent, and nobody finds it in the muxer who could start it again.
Alone(s) ==
    /\ at[s] \notin Early
    /\ at[s] \in Inside => InMux = {s}
    /\ \A p \in Requests \ {s} : ~Holds(p, s)
    /\ at[s] \in Preparing => Ready(s)
    /\ at[s] \in Running => Feeding(s)
    /\ at[s] \in Over => /\ pipes[s].state # "playing"
                         /\ members.pipeline = s => InMux = {}
    /\ Muxed(s) => container[s] = Fed(s, Len(segment[s]))

Hand(s) == (at[s] \in Before => Fresh(s)) /\ (s \in lone => Alone(s))

MuxInv == MuxTyped /\ \A s \in Requests : Hand(s)

\* What a step of the mux() of r does to the others at most.
Touches(r) ==
    /\ UNCHANGED <<log, arrived, segment, kind>>
    /\ \A s \in Requests \ {r} : /\ at'[s] = at[s] /\ pushed'[s] = pushed[s]
                                 /\ appsrc'[s] = appsrc[s] /\ bus'[s] = bus[s]
                                 /\ container'[s] = container[s]
    /\ \A p \in Requests, s \in Requests \ {r} : Holds(p, s)' => Holds(p, s)
    /\ \A s \in Requests \ {r} :
          /\ \/ pipes'[s] = pipes[s] \/ members.pipeline = s \/ members.sink = s
             \/ pipes[s].state = "playing" \/ pipes[s].message # "none"
          /\ pipes'[s].state = "playing" =>
                \/ pipes[s].state = "playing"
                \/ members.pipeline = s /\ at[r] \in Inside
    /\ members'.pipeline \in {members.pipeline, r, None}
    /\ members'.sink \in {members.pipeline, members.sink}
    /\ \/ at[r] \in Inside /\ lone' = lone
       \/ /\ at[r] = "drop" /\ at'[r] = "launch" /\ members'.pipeline = None
          /\ lone' = IF InMux = {} THEN lone \cup {r} ELSE lone \ InMux

-----------------------------------------------------------------------------
LEMMA SampleIn ==
    ASSUME NEW s \in Seq(Frame), NEW i \in Nat
    PROVE  Sample(s, i) \in Samples /\ Sample(s, i).id = s[i].id
BY DEF Samples, Sample

LEMMA InMuxPlaces == InMux = {s \in Requests : at[s] \in Inside}
BY DEF InMux, Inside, Preparing, Running

\* The places of a request in the order it passes them.
LEMMA PlacesSplit ==
    /\ Places = Early \cup Inside \cup Over
    /\ Inside = {"launch"} \cup Preparing \cup Running
    /\ Before = Early \cup {"launch"}
    /\ Early \cap Inside = {} /\ Early \cap Over = {} /\ Inside \cap Over = {}
    /\ Preparing \cap Before = {} /\ Running \cap Before = {} /\ Over \cap Before = {}
    /\ Preparing \cap Running = {}
BY DEF Places, Early, Inside, Over, Before, Preparing, Running

LEMMA SamePlacesInMux ==
    ASSUME \A s \in Requests : at'[s] \in Inside <=> at[s] \in Inside
    PROVE  InMux' = InMux
<1>1. InMux' = {s \in Requests : at'[s] \in Inside}
  BY DEF InMux, Inside, Preparing, Running
<1> QED
  BY <1>1, InMuxPlaces

\* The frames up to a time are some of those there are.
LEMMA UpToBound ==
    ASSUME log \in Seq(Frame), NEW t
    PROVE  UpTo(t) \in 0 .. Len(log)
<1> DEFINE earlier == {i \in DOMAIN log : log[i].ts =< t}
<1>1. Len(log) \in Nat /\ DOMAIN log = 1 .. Len(log)
  BY LenProperties
<1>2. IsFiniteSet(1 .. Len(log)) /\ Cardinality(1 .. Len(log)) = Len(log)
  BY <1>1, FS_Interval
<1>3. earlier \in SUBSET (1 .. Len(log))
  BY <1>1
<1>4. IsFiniteSet(earlier) /\ Cardinality(earlier) =< Len(log)
  BY <1>2, <1>3, FS_Subset
<1>5. Cardinality(earlier) \in Nat
  BY <1>4, FS_CardinalityType
<1> QED
  BY <1>1, <1>4, <1>5 DEF UpTo

LEMMA SegmentIn ==
    ASSUME log \in Seq(Frame), NEW r \in Requests
    PROVE  Segment(r) \in Seq(Frame)
<1> DEFINE from == IF UpTo(FirstNs(r)) = 0 THEN 1 ELSE UpTo(FirstNs(r))
           to == UpTo(LastNs(r))
<1>1. Len(log) \in Nat /\ DOMAIN log = 1 .. Len(log)
  BY LenProperties
<1>2. from \in Int /\ 1 =< from /\ to \in Int /\ to =< Len(log)
  BY <1>1, UpToBound
<1>3. SubSeq(log, from, to) \in Seq(Frame)
  <2> HIDE DEF from, to
  <2>1. \A i \in from .. to : log[i] \in Frame
    BY <1>1, <1>2, ElementOfSeq
  <2> QED
    BY <1>2, <2>1, SubSeqProperties
<1>4. <<>> \in Seq(Frame)
  BY EmptySeq
<1> QED
  BY <1>3, <1>4 DEF Segment

\* A member that is silenced stays a pipeline, with its sinks.
LEMMA SilencedIn ==
    ASSUME pipes \in [Requests -> Pipe], NEW p \in Requests \cup {None}
    PROVE  /\ Silenced(p) \in [Requests -> Pipe]
           /\ \A s \in Requests : /\ Silenced(p)[s].sinks = pipes[s].sinks
                                  /\ Silenced(p)[s].state = "playing" => s # p
           /\ \A s \in Requests \ {p} : Silenced(p)[s] = pipes[s]
<1> QED
  BY RequestsAssumption DEF Silenced, Pipe

-----------------------------------------------------------------------------
(***************************************************************************)
(* Steps outside mux().                                                    *)
(***************************************************************************)
LEMMA SameHand ==
    ASSUME MuxTyped, NEW s \in Requests, Hand(s),
           at'[s] = at[s], kind'[s] = kind[s], segment'[s] = segment[s],
           pushed'[s] = pushed[s], appsrc'[s] = appsrc[s], bus'[s] = bus[s],
           container'[s] = container[s], pipes'[s] = pipes[s], UNCHANGED <<members, lone>>,
           InMux' = InMux, \A p \in Requests : Holds(p, s)' => Holds(p, s)
    PROVE  Hand(s)'
<1>1. \A n : Fed(s, n)' = Fed(s, n)
  BY DEF Fed
<1>2. Fresh(s) => Fresh(s)'
  BY DEF Fresh
<1>3. Ready(s)' <=> Ready(s)
  BY DEF Ready
<1>4. Feeding(s)' <=> Feeding(s)
  BY <1>1 DEF Feeding
<1>5. (Muxed(s)' <=> Muxed(s)) /\ Fed(s, Len(segment[s]))' = Fed(s, Len(segment[s]))
  BY <1>1 DEF Muxed
<1>6. Alone(s) => Alone(s)'
  BY <1>3, <1>4, <1>5 DEF Alone
<1> QED
  BY <1>2, <1>6 DEF Hand

LEMMA Elsewhere ==
    ASSUME MuxTyped, \A s \in Requests : Hand(s), NEW r \in Requests, NEW p \in Places,
           at[r] \notin Inside, p \notin Inside, p \in Early => at[r] \in Early,
           Goes(r, p), UNCHANGED muxVars,
           \A s \in Requests \ {r} : kind'[s] = kind[s] /\ segment'[s] = segment[s],
           Muxed(r)' => Muxed(r) /\ segment'[r] = segment[r]
    PROVE  \A s \in Requests : Hand(s)'
<1>1. \A s \in Requests : at'[s] = IF s = r THEN p ELSE at[s]
  BY DEF Goes, MuxTyped
<1>2. InMux' = InMux
  BY <1>1, SamePlacesInMux
<1>3. \A q, s \in Requests : Holds(q, s)' <=> Holds(q, s)
  BY DEF Holds, muxVars
<1>4. ASSUME NEW s \in Requests \ {r}
      PROVE  Hand(s)'
  BY <1>1, <1>2, <1>3, SameHand DEF muxVars
<1>5. Hand(r)'
  <2>1. Fresh(r)' <=> Fresh(r)
    BY <1>3 DEF Fresh, muxVars
  <2>2. at'[r] \in Before => at[r] \in Before
    BY <1>1, PlacesSplit
  <2>3. ASSUME Muxed(r)', Muxed(r) => container[r] = Fed(r, Len(segment[r]))
        PROVE  container'[r] = Fed(r, Len(segment[r]))'
    <3>1. Muxed(r) /\ segment'[r] = segment[r]
      BY <2>3
    <3>2. Fed(r, Len(segment[r]))' = Fed(r, Len(segment[r]))
      BY <3>1 DEF Fed
    <3> QED
      BY <2>3, <3>1, <3>2 DEF muxVars
  <2>4. ASSUME Alone(r)
        PROVE  Alone(r)'
    <3>1. at[r] \in Over /\ at'[r] \in Over
      BY <1>1, <2>4, PlacesSplit DEF Alone, MuxTyped
    <3> QED
      BY <1>2, <1>3, <2>3, <2>4, <3>1, PlacesSplit DEF Alone, muxVars
  <2> QED
    BY <2>1, <2>2, <2>4 DEF Hand, muxVars
<1> QED
  BY <1>4, <1>5

\* The index grows by frames.
LEMMA SampleStep ==
    ASSUME MuxInv, NewSample
    PROVE  MuxTyped' /\ \A s \in Requests : Hand(s)'
<1> USE DEF MuxInv
<1>1. \A s \in Requests : Hand(s)'
  <2>1. UNCHANGED <<at, kind, segment, muxVars>>
    BY DEF NewSample, carried
  <2>2. InMux' = InMux /\ \A p, s \in Requests : Holds(p, s)' <=> Holds(p, s)
    BY <2>1 DEF InMux, Holds, muxVars
  <2> QED
    BY <2>1, <2>2, SameHand DEF muxVars
<1>2. arrived' \in Nat /\ log' \in Seq(Frame)
  <2> DEFINE time == BufferTime(Stream[arrived + 1])
  <2>1. arrived + 1 \in 1 .. Len(Stream)
    BY StreamAssumption DEF NewSample, MuxTyped
  <2>2. time \in Nat \cup {NoTime}
    <3>1. Stream[arrived + 1] \in [dts : Nat \cup {NoTime}, pts : Nat \cup {NoTime}]
      BY <2>1, StreamAssumption, ElementOfSeq
    <3> QED
      BY <3>1 DEF BufferTime
  <2>3. ASSUME time # NoTime
        PROVE  [id |-> arrived + 1, ts |-> BaseTime + time] \in Frame
    BY <2>1, <2>2, <2>3, BaseAssumption DEF Frame, MuxTyped
  <2>4. log' = log \/ (time # NoTime /\ log' = Append(log, [id |-> arrived + 1, ts |-> BaseTime + time]))
    BY DEF NewSample
  <2>5. arrived' \in Nat /\ log \in Seq(Frame)
    BY DEF NewSample, MuxTyped
  <2> HIDE DEF time
  <2>6. CASE time # NoTime /\ log' = Append(log, [id |-> arrived + 1, ts |-> BaseTime + time])
    <3> DEFINE frame == [id |-> arrived + 1, ts |-> BaseTime + time]
    <3>1. frame \in Frame /\ log' = Append(log, frame)
      BY <2>3, <2>6
    <3> HIDE DEF frame
    <3> QED
      BY <2>5, <3>1, AppendProperties
  <2> QED
    BY <2>4, <2>5, <2>6
<1> QED
  BY <1>1, <1>2 DEF NewSample, MuxTyped, muxVars, carried

LEMMA HandlerStep ==
    ASSUME MuxInv, NEW r \in Requests, Accepted(r) \/ Handles(r), ~Mux(r)
    PROVE  MuxTyped' /\ \A s \in Requests : Hand(s)'
<1> USE DEF MuxInv
<1>1. /\ UNCHANGED <<log, arrived, muxVars>>
      /\ \A s \in Requests \ {r} : kind'[s] = kind[s]
      /\ DOMAIN kind' = Requests
  BY DEF MuxTyped, Accepted, Handles, GetClip, BadRequest, NoClockYet, WindowAsked,
         SegmentExtracted, CaptureStopped, LegacyRead, FileWritten, ClipSaved, Described,
         captureVars, carried
<1>2. /\ segment' \in [Requests -> Seq(Frame)]
      /\ \A s \in Requests \ {r} : segment'[s] = segment[s]
  <2>1. Segment(r) \in Seq(Frame) /\ <<>> \in Seq(Frame)
    BY SegmentIn, EmptySeq DEF MuxTyped
  <2>2. \/ segment' = segment
        \/ segment' = [segment EXCEPT ![r] = Segment(r)]
        \/ segment' = [segment EXCEPT ![r] = <<>>]
    BY DEF Accepted, Handles, GetClip, BadRequest, NoClockYet, WindowAsked,
         SegmentExtracted, CaptureStopped, LegacyRead, FileWritten, ClipSaved, Described
  <2> QED
    BY <2>1, <2>2 DEF MuxTyped
<1>3. \E p \in Places : /\ Goes(r, p)
                        /\ at[r] \notin Inside /\ p \notin Inside
                        /\ p \in Early => at[r] \in Early
                        /\ Muxed(r)' => Muxed(r) /\ segment'[r] = segment[r]
  <2> USE DEF Places, Early, Inside, Preparing, Running, Muxed, MuxTyped, Goes, Throws, Answers,
              carried
  <2>1. CASE Accepted(r)
    BY <2>1 DEF Accepted
  <2>2. CASE GetClip(r)
    BY <2>2 DEF GetClip
  <2>3. CASE BadRequest(r)
    BY <2>3 DEF BadRequest
  <2>4. CASE NoClockYet(r)
    BY <2>4 DEF NoClockYet
  <2>5. CASE WindowAsked(r)
    BY <2>5 DEF WindowAsked
  <2>6. CASE SegmentExtracted(r)
    BY <2>6 DEF SegmentExtracted
  <2>7. CASE CaptureStopped(r)
    BY <2>7 DEF CaptureStopped
  <2>8. CASE LegacyRead(r)
    BY <2>8 DEF LegacyRead
  <2>9. CASE FileWritten(r)
    BY <2>9 DEF FileWritten
  <2>10. CASE ClipSaved(r)
    BY <2>10 DEF ClipSaved
  <2>11. CASE Described(r)
    BY <2>11 DEF Described
  <2> QED
    BY <2>1, <2>2, <2>3, <2>4, <2>5, <2>6, <2>7, <2>8, <2>9, <2>10, <2>11 DEF Handles
<1>4. \A s \in Requests : Hand(s)'
  BY <1>1, <1>2, <1>3, Elsewhere
<1>5. at' \in [Requests -> Places]
  BY <1>3 DEF MuxTyped, Goes
<1> QED
  BY <1>1, <1>2, <1>4, <1>5 DEF MuxTyped, muxVars

-----------------------------------------------------------------------------
(***************************************************************************)
(* Steps of mux().                                                         *)
(***************************************************************************)
LEMMA FedGrows ==
    ASSUME MuxTyped, NEW r \in Requests, NEW n \in Nat
    PROVE  /\ Fed(r, 0) = <<>>
           /\ Fed(r, n) \in Seq(Samples) /\ Len(Fed(r, n)) = n
           /\ Fed(r, n + 1) = Append(Fed(r, n), Sample(segment[r], n + 1))
<1>1. \A i \in Nat : Sample(segment[r], i) \in Samples
  BY SampleIn DEF MuxTyped
<1>2. \A k \in Nat : Fed(r, k) \in Seq(Samples) /\ Len(Fed(r, k)) = k
  BY <1>1 DEF Fed
<1>3. Fed(r, 0) = <<>>
  BY <1>2
<1>4. Fed(r, n + 1) = Append(Fed(r, n), Sample(segment[r], n + 1))
  <2> DEFINE e == Sample(segment[r], n + 1)
  <2>1. e \in Samples
    BY <1>1
  <2>2. \A i \in 1 .. n + 1 : Fed(r, n + 1)[i] = Append(Fed(r, n), e)[i]
    BY <1>2, <2>1, AppendProperties DEF Fed
  <2>3. /\ Fed(r, n + 1) \in Seq(Samples) /\ Len(Fed(r, n + 1)) = n + 1
        /\ Append(Fed(r, n), e) \in Seq(Samples) /\ Len(Append(Fed(r, n), e)) = n + 1
    BY <1>2, <2>1, AppendProperties
  <2> HIDE DEF e
  <2>4. Fed(r, n + 1) = Append(Fed(r, n), e)
    BY <2>2, <2>3, SeqEqual
  <2> QED
    BY <2>4 DEF e
<1> QED
  BY <1>2, <1>3, <1>4

\* Whatever mux() shares with the others, a lone request keeps what is its.
LEMMA Others ==
    ASSUME MuxInv, NEW r \in Requests, Touches(r), NEW s \in Requests \ {r}
    PROVE  Hand(s)'
<1>1. /\ at'[s] = at[s] /\ container'[s] = container[s] /\ pushed'[s] = pushed[s]
      /\ \A p \in Requests : Holds(p, s)' => Holds(p, s)
      /\ kind' = kind /\ segment' = segment
  BY DEF Touches
<1>2. ASSUME at'[s] \in Before
      PROVE  Fresh(s)'
  <2>1. Fresh(s)
    BY <1>1, <1>2 DEF MuxInv, Hand
  <2>2. pipes[s].state = "none" /\ pipes[s].message = "none"
    BY <2>1 DEF Fresh, NewPipe
  <2>3. pipes'[s] = pipes[s]
    BY <2>1, <2>2 DEF Touches, Fresh
  <2>4. members'.pipeline # s /\ members'.sink # s
    BY <2>1, RequestsAssumption DEF Touches, Fresh
  <2> QED
    BY <1>1, <2>1, <2>3, <2>4 DEF Fresh
<1>3. ASSUME s \in lone'
      PROVE  Alone(s)'
  <2>1. /\ s \in lone
        /\ at[r] \in Inside \/ (at[r] = "drop" /\ members'.pipeline = None)
    BY <1>3 DEF Touches
  <2>2. Alone(s)
    BY <2>1 DEF MuxInv, Hand
  <2>3. at[s] \in Over
    <3>1. CASE at[s] \in Inside
      <4>1. InMux = {s} /\ r \notin InMux
        BY <2>2, <3>1 DEF Alone
      <4>2. lone' = lone \ InMux
        BY <4>1, InMuxPlaces DEF Touches
      <4> QED
        BY <1>3, <4>1, <4>2
    <3> QED
      BY <2>2, <3>1, PlacesSplit DEF Alone, MuxInv, MuxTyped
  <2>4. pipes'[s].state # "playing"
    <3>1. ASSUME members.pipeline = s
          PROVE  at[r] \notin Inside
      BY <2>2, <2>3, <3>1, InMuxPlaces DEF Alone
    <3> QED
      BY <2>2, <2>3, <3>1 DEF Alone, Touches
  <2>5. members'.pipeline # s
    <3>1. CASE at[r] \in Inside
      <4>1. members.pipeline # s
        BY <2>2, <2>3, <3>1, InMuxPlaces DEF Alone
      <4> QED
        BY <4>1, RequestsAssumption DEF Touches
    <3> QED
      BY <2>1, <3>1, RequestsAssumption
  <2>6. Muxed(s)' => container'[s] = Fed(s, Len(segment[s]))'
    <3>1. (Muxed(s)' <=> Muxed(s)) /\ Fed(s, Len(segment[s]))' = Fed(s, Len(segment[s]))
      BY <1>1 DEF Muxed, Fed
    <3> QED
      BY <1>1, <2>2, <3>1 DEF Alone
  <2>7. at'[s] \in Over /\ at'[s] \notin Early \cup Inside \cup Preparing \cup Running
    BY <1>1, <2>3, PlacesSplit
  <2> QED
    BY <1>1, <2>2, <2>4, <2>5, <2>6, <2>7 DEF Alone
<1> QED
  BY <1>2, <1>3 DEF Hand

\* The request itself, from its launch on.
LEMMA Own ==
    ASSUME MuxInv, MuxTyped', NEW r \in Requests, Touches(r),
           at[r] \in Inside, at'[r] \notin Before,
           r \in lone =>
              /\ at'[r] \in Preparing => Ready(r)'
              /\ at'[r] \in Running => Feeding(r)'
              /\ at'[r] \in Over => pipes'[r].state # "playing"
              /\ Muxed(r)' => container'[r] = Fed(r, Len(segment[r]))'
              /\ \A p \in Requests \ {r} : Holds(p, r)' => Holds(p, r)
    PROVE  Hand(r)'
<1> SUFFICES ASSUME r \in lone'
             PROVE  Alone(r)'
  BY DEF Hand
<1>1. r \in lone
  BY PlacesSplit DEF Touches, Inside, Preparing, Running
<1>2. Alone(r) /\ InMux = {r}
  BY <1>1 DEF MuxInv, Hand, Alone
<1>3. \A s \in Requests \ {r} : at'[s] \notin Inside
  BY <1>2, InMuxPlaces DEF Touches
<1>4. InMux' = {s \in Requests : at'[s] \in Inside}
  BY DEF InMux, Inside, Preparing, Running
<1>5. at'[r] \in Inside => InMux' = {r}
  BY <1>3, <1>4
<1>6. at'[r] \in Over => InMux' = {}
  BY <1>3, <1>4, PlacesSplit
<1>7. at'[r] \notin Early
  BY PlacesSplit
<1>8. \A p \in Requests \ {r} : ~Holds(p, r)'
  BY <1>1, <1>2 DEF Alone
<1> QED
  BY <1>1, <1>5, <1>6, <1>7, <1>8 DEF Alone

\* What a lone request has before each part of its mux().
LEMMA LoneHas ==
    ASSUME MuxInv, NEW r \in lone
    PROVE  /\ r \in Requests
           /\ at[r] \in Preparing => Ready(r)
           /\ at[r] \in Running => Feeding(r)
BY DEF MuxInv, MuxTyped, Hand, Alone

LEMMA MuxCommon ==
    ASSUME MuxInv, NEW r \in Requests, Mux(r)
    PROVE  /\ UNCHANGED <<log, arrived, segment, kind>>
           /\ at' \in [Requests -> Places]
           /\ \A s \in Requests \ {r} : at'[s] = at[s]
<1> USE DEF MuxElsewhere, MuxThrows, Throws, Answers, Goes, captureVars, carried
<1>1. UNCHANGED <<log, arrived, segment, kind>>
  BY DEF Mux, DropOldPipeline, LaunchPipeline, TakeEnds, ConnectSink,
         SetPlaying, PushFrame, EndOfStream, GetBus, PopMessage, PopTimesOut
<1>2. UNCHANGED at \/ \E p \in Places : at' = [at EXCEPT ![r] = p]
  BY DEF Mux, Places, DropOldPipeline, LaunchPipeline, TakeEnds, ConnectSink,
         SetPlaying, PushFrame, EndOfStream, GetBus, PopMessage, PopTimesOut
<1>3. at \in [Requests -> Places]
  BY DEF MuxInv, MuxTyped
<1> QED
  BY <1>1, <1>2, <1>3

\* One pipeline is replaced, or none is.
LEMMA PipeReplaced ==
    ASSUME MuxInv, NEW p \in Requests, NEW q \in Pipe, pipes' = [pipes EXCEPT ![p] = q]
    PROVE  /\ pipes' \in [Requests -> Pipe] /\ pipes'[p] = q
           /\ \A s \in Requests \ {p} : pipes'[s] = pipes[s]
BY DEF MuxInv, MuxTyped

\* Pipelines whose sinks stay call back to whom they did.
LEMMA SameSinks ==
    ASSUME \A p \in Requests : pipes'[p].sinks = pipes[p].sinks
    PROVE  \A p, s \in Requests : Holds(p, s)' <=> Holds(p, s)
BY DEF Holds

LEMMA DropStep ==
    ASSUME MuxInv, NEW r \in Requests, DropOldPipeline(r)
    PROVE  MuxTyped' /\ Touches(r) /\ Hand(r)'
<1>1. /\ UNCHANGED <<log, arrived, segment, kind>> /\ at' \in [Requests -> Places]
      /\ \A s \in Requests \ {r} : at'[s] = at[s]
  BY MuxCommon DEF Mux
<1>2. /\ at[r] = "drop" /\ at'[r] = "launch"
      /\ UNCHANGED <<pushed, appsrc, bus, container>>
      /\ pipes' = Silenced(members.pipeline)
      /\ members' = [members EXCEPT !.pipeline = None]
      /\ lone' = IF InMux = {} THEN lone \cup {r} ELSE lone \ InMux
  BY DEF DropOldPipeline, Goes, MuxInv, MuxTyped
<1>3. /\ members'.pipeline = None /\ members'.sink = members.sink
      /\ members.pipeline \in Requests \cup {None}
      /\ members' \in [pipeline : Requests \cup {None}, source : Requests \cup {None},
                      sink : Requests \cup {None}]
  BY <1>2 DEF MuxInv, MuxTyped
<1>4. /\ pipes' \in [Requests -> Pipe]
      /\ \A s \in Requests : /\ pipes'[s].sinks = pipes[s].sinks
                             /\ pipes'[s].state = "playing" => s # members.pipeline
      /\ \A s \in Requests \ {members.pipeline} : pipes'[s] = pipes[s]
  <2>1. PICK k \in Requests \cup {None} : k = members.pipeline
    BY <1>3
  <2>2. pipes' = Silenced(k) /\ pipes \in [Requests -> Pipe]
    BY <1>2, <2>1 DEF MuxInv, MuxTyped
  <2> QED
    BY <2>1, <2>2, SilencedIn
<1>5. \A p, s \in Requests : Holds(p, s)' <=> Holds(p, s)
  BY <1>4, SameSinks
<1>6. MuxTyped'
  BY <1>1, <1>2, <1>3, <1>4 DEF MuxInv, MuxTyped
<1>7. Touches(r)
  <2>1. \A s \in Requests \ {r} :
           /\ pipes'[s] = pipes[s] \/ members.pipeline = s
           /\ pipes'[s].state = "playing" => pipes[s].state = "playing"
    BY <1>4
  <2> QED
    BY <1>1, <1>2, <1>3, <1>5, <2>1 DEF Touches
<1>8. Fresh(r) /\ r \notin lone
  BY <1>2 DEF MuxInv, Hand, Alone, Before, Early
<1>9. Fresh(r)'
  BY <1>2, <1>3, <1>4, <1>5, <1>8, RequestsAssumption DEF Fresh
<1>10. ASSUME r \in lone'
       PROVE  Alone(r)'
  <2>1. InMux = {}
    BY <1>2, <1>8, <1>10
  <2>2. InMux' = {r}
    <3>1. \A s \in Requests : at'[s] \in Inside <=> s = r
      BY <1>1, <1>2, <2>1, InMuxPlaces DEF Inside
    <3>2. InMux' = {s \in Requests : at'[s] \in Inside}
      BY DEF InMux, Inside, Preparing, Running
    <3> QED
      BY <3>1, <3>2
  <2> QED
    BY <1>2, <1>9, <2>2 DEF Alone, Fresh, Muxed, Early, Preparing, Running, Over
<1> QED
  BY <1>6, <1>7, <1>9, <1>10 DEF Hand

LEMMA LaunchStep ==
    ASSUME MuxInv, NEW r \in Requests, LaunchPipeline(r)
    PROVE  MuxTyped' /\ Touches(r) /\ Hand(r)'
<1>1. /\ UNCHANGED <<log, arrived, segment, kind>> /\ at' \in [Requests -> Places]
      /\ \A s \in Requests \ {r} : at'[s] = at[s]
  BY MuxCommon DEF Mux
<1>2. Fresh(r) /\ at[r] = "launch" /\ UNCHANGED <<pushed, appsrc, bus, container, lone>>
  BY DEF MuxInv, Hand, Before, LaunchPipeline, MuxThrows, MuxElsewhere
<1>3. at[r] \in Inside
  BY <1>2 DEF Inside
<1>4. CASE /\ at'[r] = "ends"
           /\ pipes' = [pipes EXCEPT ![r].state = "null"]
           /\ members' = [members EXCEPT !.pipeline = r]
  <2>1. PICK q : q = [pipes[r] EXCEPT !.state = "null"]
    OBVIOUS
  <2>2. q \in Pipe /\ q.state = "null" /\ q.sinks = pipes[r].sinks
    <3>1. pipes[r] \in Pipe
      BY DEF MuxInv, MuxTyped
    <3> QED
      BY <2>1, <3>1 DEF Pipe
  <2>3. /\ pipes' \in [Requests -> Pipe]
        /\ pipes'[r].state = "null" /\ pipes'[r].sinks = pipes[r].sinks
        /\ \A s \in Requests \ {r} : pipes'[s] = pipes[s]
    BY <1>4, <2>1, <2>2, PipeReplaced
  <2>4. /\ members'.pipeline = r /\ members'.sink = members.sink
        /\ members' \in [pipeline : Requests \cup {None}, source : Requests \cup {None},
                        sink : Requests \cup {None}]
    BY <1>4 DEF MuxInv, MuxTyped
  <2>5. \A p, s \in Requests : Holds(p, s)' <=> Holds(p, s)
    BY <2>3, SameSinks
  <2>6. MuxTyped'
    BY <1>1, <1>2, <2>3, <2>4 DEF MuxInv, MuxTyped
  <2>7. Touches(r)
    BY <1>1, <1>2, <1>3, <2>3, <2>4, <2>5 DEF Touches
  <2>8. Ready(r)'
    BY <1>2, <1>4, <2>3, <2>4 DEF Ready, Fresh, NewPipe
  <2>9. Hand(r)'
    BY <1>3, <1>4, <2>5, <2>6, <2>7, <2>8, Own
       DEF Before, Early, Muxed, Preparing, Running, Over
  <2> QED
    BY <2>6, <2>7, <2>9
<1>5. CASE /\ at'[r] = "done" /\ UNCHANGED pipes
           /\ members' = [members EXCEPT !.pipeline = None]
  <2>1. /\ members'.pipeline = None /\ members'.sink = members.sink
        /\ members' \in [pipeline : Requests \cup {None}, source : Requests \cup {None},
                        sink : Requests \cup {None}]
    BY <1>5 DEF MuxInv, MuxTyped
  <2>2. \A p, s \in Requests : Holds(p, s)' <=> Holds(p, s)
    BY <1>5 DEF Holds
  <2>3. MuxTyped'
    BY <1>1, <1>2, <1>5, <2>1 DEF MuxInv, MuxTyped
  <2>4. Touches(r)
    BY <1>1, <1>2, <1>3, <1>5, <2>1, <2>2 DEF Touches
  <2>5. pipes'[r].state # "playing"
    BY <1>2, <1>5 DEF Fresh, NewPipe
  <2>6. Hand(r)'
    BY <1>3, <1>5, <2>2, <2>3, <2>4, <2>5, Own
       DEF Before, Early, Muxed, Preparing, Running, Over
  <2> QED
    BY <2>3, <2>4, <2>6
<1> QED
  BY <1>4, <1>5 DEF LaunchPipeline, MuxThrows, Throws, Answers, Goes, MuxInv, MuxTyped

LEMMA EndsStep ==
    ASSUME MuxInv, NEW r \in Requests, TakeEnds(r)
    PROVE  MuxTyped' /\ Touches(r) /\ Hand(r)'
<1>1. /\ UNCHANGED <<log, arrived, segment, kind>> /\ at' \in [Requests -> Places]
      /\ \A s \in Requests \ {r} : at'[s] = at[s]
  BY MuxCommon DEF Mux
<1>2. at[r] = "ends" /\ UNCHANGED <<pushed, appsrc, bus, container, pipes, lone>>
  BY DEF TakeEnds, MuxThrows, MuxElsewhere
<1>3. at[r] \in Inside /\ at[r] \in Preparing
  BY <1>2 DEF Inside, Preparing
<1>4. /\ members'.pipeline = members.pipeline
      /\ members'.source = members.pipeline /\ members'.sink = members.pipeline
      /\ members' \in [pipeline : Requests \cup {None}, source : Requests \cup {None},
                      sink : Requests \cup {None}]
  BY DEF TakeEnds, EndsTaken, MuxInv, MuxTyped
<1>5. \/ at'[r] = "connect"
      \/ at'[r] = "done" /\ members.pipeline = None
  BY <1>4 DEF TakeEnds, MuxThrows, Throws, Answers, Goes, MuxInv, MuxTyped
<1>6. \A p, s \in Requests : Holds(p, s)' <=> Holds(p, s)
  BY <1>2 DEF Holds
<1>7. MuxTyped'
  BY <1>1, <1>2, <1>4 DEF MuxInv, MuxTyped
<1>8. Touches(r)
  BY <1>1, <1>2, <1>3, <1>4, <1>6 DEF Touches
<1>9. ASSUME r \in lone
      PROVE  at'[r] = "connect" /\ Ready(r)'
  <2>1. Ready(r)
    BY <1>3, <1>9, LoneHas
  <2>2. at'[r] = "connect"
    BY <1>5, <2>1, RequestsAssumption DEF Ready
  <2> QED
    BY <1>2, <1>4, <2>1, <2>2 DEF Ready
<1>10. at'[r] \notin Before
  BY <1>5 DEF Before, Early
<1>11. at'[r] = "connect" => at'[r] \notin Running \cup Over /\ ~Muxed(r)'
  BY DEF Running, Over, Muxed
<1>12. Hand(r)'
  BY <1>3, <1>6, <1>7, <1>8, <1>9, <1>10, <1>11, Own
<1> QED
  BY <1>7, <1>8, <1>12

LEMMA ConnectStep ==
    ASSUME MuxInv, NEW r \in Requests, ConnectSink(r)
    PROVE  MuxTyped' /\ Touches(r) /\ Hand(r)'
<1>1. /\ UNCHANGED <<log, arrived, segment, kind>> /\ at' \in [Requests -> Places]
      /\ \A s \in Requests \ {r} : at'[s] = at[s]
  BY MuxCommon DEF Mux
<1>2. /\ at[r] = "connect" /\ at'[r] = "play"
      /\ UNCHANGED <<pushed, bus, container, members, lone>>
  BY DEF ConnectSink, Goes, MuxElsewhere, MuxInv, MuxTyped
<1>3. at[r] \in Inside /\ at[r] \in Preparing
  BY <1>2 DEF Inside, Preparing
<1>4. /\ appsrc' \in [Requests -> Requests \cup {None}] /\ appsrc'[r] = members.source
      /\ \A s \in Requests \ {r} : appsrc'[s] = appsrc[s]
  BY DEF ConnectSink, MuxInv, MuxTyped
<1>5. /\ pipes' \in [Requests -> Pipe]
      /\ \A s \in Requests : pipes'[s].state = pipes[s].state
      /\ \A s \in Requests : \/ pipes'[s] = pipes[s]
                             \/ /\ members.sink = s
                                /\ pipes'[s].sinks = Append(pipes[s].sinks, r)
      /\ members.sink \in Requests =>
            pipes'[members.sink].sinks = Append(pipes[members.sink].sinks, r)
  <2>1. CASE members.sink = None
    BY <2>1, RequestsAssumption DEF ConnectSink, MuxInv, MuxTyped
  <2>2. CASE members.sink # None
    <3>1. PICK k \in Requests : k = members.sink
      BY <2>2 DEF MuxInv, MuxTyped
    <3>2. pipes[k] \in Pipe /\ pipes[k].sinks \in Seq(Requests)
      BY DEF MuxInv, MuxTyped, Pipe
    <3>3. PICK n \in Seq(Requests) : n = Append(pipes[k].sinks, r)
      BY <3>2, AppendProperties
    <3>4. PICK q : q = [pipes[k] EXCEPT !.sinks = n]
      OBVIOUS
    <3>5. q \in Pipe /\ q.state = pipes[k].state /\ q.sinks = n
      BY <3>2, <3>4 DEF Pipe
    <3>6. pipes' = [pipes EXCEPT ![k] = q]
      BY <2>2, <3>1, <3>3, <3>4 DEF ConnectSink
    <3>7. /\ pipes' \in [Requests -> Pipe] /\ pipes'[k] = q
          /\ \A s \in Requests \ {k} : pipes'[s] = pipes[s]
      BY <3>5, <3>6, PipeReplaced
    <3> QED
      BY <3>1, <3>3, <3>5, <3>7
  <2> QED
    BY <2>1, <2>2
<1>6. ASSUME NEW p \in Requests, NEW s \in Requests \ {r}, Holds(p, s)'
      PROVE  Holds(p, s)
  <2>1. pipes[p].sinks \in Seq(Requests)
    BY DEF MuxInv, MuxTyped, Pipe
  <2>2. CASE pipes'[p] = pipes[p]
    BY <1>6, <2>2 DEF Holds
  <2>3. CASE pipes'[p].sinks = Append(pipes[p].sinks, r)
    <3>1. PICK i \in DOMAIN pipes'[p].sinks : pipes'[p].sinks[i] = s
      BY <1>6 DEF Holds
    <3>2. PICK k \in Seq(Requests) : k = pipes[p].sinks
      BY <2>1
    <3>3. /\ Append(k, r) \in Seq(Requests) /\ Len(Append(k, r)) = Len(k) + 1
          /\ Append(k, r)[Len(k) + 1] = r /\ Len(k) \in Nat
          /\ \A j \in 1 .. Len(k) : Append(k, r)[j] = k[j]
      BY <3>2, AppendProperties, LenProperties
    <3>4. DOMAIN Append(k, r) = 1 .. Len(k) + 1 /\ DOMAIN k = 1 .. Len(k)
      BY <3>3, LenProperties
    <3>5. i \in DOMAIN k /\ k[i] = s
      BY <2>3, <3>1, <3>2, <3>3, <3>4
    <3> QED
      BY <3>2, <3>5 DEF Holds
  <2> QED
    BY <1>5, <2>2, <2>3
<1>7. MuxTyped'
  BY <1>1, <1>2, <1>4, <1>5 DEF MuxInv, MuxTyped
<1>8. Touches(r)
  <2>1. \A s \in Requests \ {r} :
           /\ pipes'[s] = pipes[s] \/ members.sink = s
           /\ pipes'[s].state = "playing" => pipes[s].state = "playing"
    BY <1>5
  <2>2. members'.pipeline = members.pipeline /\ members'.sink = members.sink
    BY <1>2
  <2> QED
    BY <1>1, <1>2, <1>3, <1>4, <1>6, <2>1, <2>2 DEF Touches
<1>9. ASSUME r \in lone
      PROVE  Ready(r)' /\ \A p \in Requests \ {r} : Holds(p, r)' => Holds(p, r)
  <2>1. Ready(r) /\ members.source = r /\ members.sink = r /\ pipes[r].sinks = <<>>
    BY <1>2, <1>3, <1>9, LoneHas DEF Ready
  <2>2. Append(<<>>, r) = <<r>>
    OBVIOUS
  <2>3. pipes'[r].sinks = <<r>> /\ pipes'[r].state = pipes[r].state
    BY <1>5, <2>1, <2>2
  <2>4. \A p \in Requests \ {r} : pipes'[p] = pipes[p]
    BY <1>5, <2>1
  <2> QED
    BY <1>2, <1>4, <2>1, <2>3, <2>4 DEF Ready, Holds
<1>10. /\ at'[r] \notin Before /\ at'[r] \notin Running \cup Over /\ ~Muxed(r)'
  BY <1>2 DEF Before, Early, Running, Over, Muxed
<1>11. Hand(r)'
  BY <1>3, <1>7, <1>8, <1>9, <1>10, Own
<1> QED
  BY <1>7, <1>8, <1>11

LEMMA StartedIn ==
    ASSUME NEW q \in Pipe
    PROVE  Started(q) \in Pipe /\ Started(q).sinks = q.sinks
<1>1. <<>> \in Seq(Samples) /\ q.sinks \in Seq(Requests)
  BY EmptySeq DEF Pipe
<1> QED
  BY <1>1 DEF Started, Pipe, NewPipe

LEMMA PlayStep ==
    ASSUME MuxInv, NEW r \in Requests, SetPlaying(r)
    PROVE  MuxTyped' /\ Touches(r) /\ Hand(r)'
<1>1. /\ UNCHANGED <<log, arrived, segment, kind>> /\ at' \in [Requests -> Places]
      /\ \A s \in Requests \ {r} : at'[s] = at[s]
  BY MuxCommon DEF Mux
<1>2. at[r] = "play" /\ UNCHANGED <<pushed, appsrc, bus, container, members, lone>>
  BY DEF SetPlaying, MuxThrows, MuxElsewhere
<1>3. at[r] \in Inside /\ at[r] \in Preparing
  BY <1>2 DEF Inside, Preparing
<1>4. CASE /\ members.pipeline # None /\ at'[r] = "push"
           /\ pipes' = [pipes EXCEPT ![members.pipeline] = Started(@)]
  <2>1. PICK k \in Requests : k = members.pipeline
    BY <1>4 DEF MuxInv, MuxTyped
  <2>2. PICK q : q = Started(pipes[k])
    OBVIOUS
  <2>3. q \in Pipe /\ q.sinks = pipes[k].sinks
    BY <2>2, StartedIn DEF MuxInv, MuxTyped
  <2>4. pipes' = [pipes EXCEPT ![k] = q]
    BY <1>4, <2>1, <2>2
  <2>5. /\ pipes' \in [Requests -> Pipe] /\ pipes'[k] = q
        /\ \A s \in Requests \ {k} : pipes'[s] = pipes[s]
    BY <2>3, <2>4, PipeReplaced
  <2>6. \A p, s \in Requests : Holds(p, s)' <=> Holds(p, s)
    BY <2>3, <2>5, SameSinks
  <2>7. MuxTyped'
    BY <1>1, <1>2, <2>5 DEF MuxInv, MuxTyped
  <2>8. Touches(r)
    <3>1. \A s \in Requests \ {r} : pipes'[s] = pipes[s] \/ members.pipeline = s
      BY <2>1, <2>5
    <3> QED
      BY <1>1, <1>2, <1>3, <2>6, <3>1 DEF Touches
  <2>9. ASSUME r \in lone
        PROVE  Feeding(r)'
    <3>1. Ready(r) /\ k = r /\ pipes[r].sinks = <<r>> /\ appsrc[r] = r
      BY <1>2, <1>3, <2>1, <2>9, LoneHas DEF Ready
    <3>2. pipes'[r] = [NewPipe EXCEPT !.state = "playing", !.sinks = <<r>>]
      BY <2>2, <2>5, <3>1 DEF Started, Ready
    <3>3. /\ pipes'[r].state = "playing" /\ pipes'[r].sinks = <<r>>
          /\ pipes'[r].fed = <<>> /\ pipes'[r].eos = FALSE
      BY <3>2 DEF NewPipe
    <3>4. Fed(r, 0)' = <<>>
      BY FedGrows, <1>1 DEF MuxInv, Fed
    <3>5. Len(segment'[r]) \in Nat
      BY <2>7, LenProperties DEF MuxTyped
    <3> QED
      BY <1>2, <1>4, <3>1, <3>3, <3>4, <3>5 DEF Feeding, Ready
  <2>10. /\ at'[r] \notin Before /\ at'[r] \notin Preparing \cup Over /\ ~Muxed(r)'
    BY <1>4 DEF Before, Early, Preparing, Over, Muxed
  <2>11. Hand(r)'
    BY <1>3, <2>6, <2>7, <2>8, <2>9, <2>10, Own
  <2> QED
    BY <2>7, <2>8, <2>11
<1>5. CASE at'[r] = "done" /\ UNCHANGED pipes
  <2>1. \A p, s \in Requests : Holds(p, s)' <=> Holds(p, s)
    BY <1>5 DEF Holds
  <2>2. MuxTyped'
    BY <1>1, <1>2, <1>5 DEF MuxInv, MuxTyped
  <2>3. Touches(r)
    BY <1>1, <1>2, <1>3, <1>5, <2>1 DEF Touches
  <2>4. r \in lone => pipes'[r].state # "playing"
    BY <1>3, <1>5, LoneHas DEF Ready
  <2>5. Hand(r)'
    BY <1>3, <1>5, <2>1, <2>2, <2>3, <2>4, Own
       DEF Before, Early, Muxed, Preparing, Running, Over
  <2> QED
    BY <2>2, <2>3, <2>5
<1> QED
  BY <1>4, <1>5 DEF SetPlaying, MuxThrows, Throws, Answers, Goes, MuxInv, MuxTyped

\* From play to the message, mux() ends by silencing the pipeline it finds.
LEMMA EndsSilent ==
    ASSUME MuxInv, NEW r \in Requests, at[r] \in Running,
           UNCHANGED <<log, arrived, segment, kind, pushed, appsrc, bus, container,
                       members, lone>>,
           at' \in [Requests -> Places],
           \A s \in Requests \ {r} : at'[s] = at[s],
           at'[r] = "done" \/ (at'[r] = "write" /\ container[r] # <<>>),
           \/ pipes' = Silenced(members.pipeline)
           \/ /\ bus[r] # None /\ pipes[bus[r]].message # "none"
              /\ pipes' = [Silenced(members.pipeline) EXCEPT ![bus[r]].message = "none"]
    PROVE  MuxTyped' /\ Touches(r) /\ Hand(r)'
<1> DEFINE old == Silenced(members.pipeline)
<1>1. at[r] \in Inside /\ members.pipeline \in Requests \cup {None}
  BY DEF Inside, MuxInv, MuxTyped
<1>2. /\ old \in [Requests -> Pipe]
      /\ \A s \in Requests : /\ old[s].sinks = pipes[s].sinks
                             /\ old[s].state = "playing" => s # members.pipeline
      /\ \A s \in Requests \ {members.pipeline} : old[s] = pipes[s]
  BY <1>1, SilencedIn DEF MuxInv, MuxTyped
<1>3. /\ pipes' \in [Requests -> Pipe]
      /\ \A s \in Requests : pipes'[s].sinks = old[s].sinks /\ pipes'[s].state = old[s].state
      /\ \A s \in Requests : pipes'[s] = old[s] \/ pipes[s].message # "none"
  <2> HIDE DEF old
  <2>1. CASE pipes' = old
    BY <1>2, <2>1
  <2>2. CASE /\ bus[r] # None /\ pipes[bus[r]].message # "none"
             /\ pipes' = [old EXCEPT ![bus[r]].message = "none"]
    <3>1. PICK k \in Requests : k = bus[r]
      BY <2>2 DEF MuxInv, MuxTyped
    <3>2. PICK q : q = [old[k] EXCEPT !.message = "none"]
      OBVIOUS
    <3>3. q \in Pipe /\ q.sinks = old[k].sinks /\ q.state = old[k].state
      <4>1. old[k] \in Pipe
        BY <1>2
      <4> QED
        BY <3>2, <4>1 DEF Pipe
    <3>4. pipes' = [old EXCEPT ![k] = q]
      BY <2>2, <3>1, <3>2
    <3>5. pipes'[k] = q /\ \A s \in Requests \ {k} : pipes'[s] = old[s]
      BY <1>2, <3>4
    <3>6. pipes' \in [Requests -> Pipe]
      BY <1>2, <3>3, <3>4
    <3> QED
      BY <2>2, <3>1, <3>3, <3>5, <3>6
  <2> QED
    BY <2>1, <2>2 DEF old
<1> HIDE DEF old
<1>4. \A p, s \in Requests : Holds(p, s)' <=> Holds(p, s)
  BY <1>2, <1>3, SameSinks
<1>5. MuxTyped'
  BY <1>3 DEF MuxInv, MuxTyped
<1>6. Touches(r)
  <2>1. \A s \in Requests \ {r} :
           /\ \/ pipes'[s] = pipes[s] \/ members.pipeline = s \/ pipes[s].message # "none"
           /\ pipes'[s].state = "playing" => pipes[s].state = "playing"
    BY <1>2, <1>3
  <2> QED
    BY <1>1, <1>4, <2>1 DEF Touches
<1>7. ASSUME r \in lone
      PROVE  /\ pipes'[r].state # "playing"
             /\ Muxed(r)' => container'[r] = Fed(r, Len(segment[r]))'
  <2>1. Feeding(r)
    BY <1>7, LoneHas
  <2>2. pipes'[r].state # "playing"
    BY <1>2, <1>3, <2>1 DEF Feeding
  <2>3. ASSUME Muxed(r)'
        PROVE  container'[r] = Fed(r, Len(segment[r]))'
    <3>1. container[r] # <<>>
      BY <2>3 DEF Muxed
    <3>2. container[r] = Fed(r, Len(segment[r]))
      BY <2>1, <3>1 DEF Feeding
    <3> QED
      BY <3>2 DEF Fed
  <2> QED
    BY <2>2, <2>3
<1>8. at'[r] \notin Before /\ at'[r] \notin Preparing \cup Running
  BY DEF Before, Early, Preparing, Running
<1>9. Hand(r)'
  BY <1>1, <1>4, <1>5, <1>6, <1>7, <1>8, Own
<1> QED
  BY <1>5, <1>6, <1>9

LEMMA PushStep ==
    ASSUME MuxInv, NEW r \in Requests, PushFrame(r)
    PROVE  MuxTyped' /\ Touches(r) /\ Hand(r)'
<1>1. /\ UNCHANGED <<log, arrived, segment, kind>> /\ at' \in [Requests -> Places]
      /\ \A s \in Requests \ {r} : at'[s] = at[s]
  BY MuxCommon DEF Mux
<1>2. at[r] = "push" /\ UNCHANGED <<appsrc, bus, container, members, lone>>
  BY DEF PushFrame, MuxThrows, MuxElsewhere
<1>3. at[r] \in Inside /\ at[r] \in Running
  BY <1>2 DEF Inside, Running
<1>4. ASSUME pipes' = Silenced(members.pipeline), MuxThrows(r)
      PROVE  MuxTyped' /\ Touches(r) /\ Hand(r)'
  <2>1. at'[r] = "done" /\ UNCHANGED pushed
    BY <1>4 DEF MuxThrows, Throws, Answers, Goes, MuxInv, MuxTyped
  <2> QED
    BY <1>1, <1>2, <1>3, <1>4, <2>1, EndsSilent
<1>5. ASSUME Accepts(appsrc[r]), UNCHANGED at,
             pushed[r] < FrameCount(r),
             pushed' = [pushed EXCEPT ![r] = @ + 1],
             pipes' = [pipes EXCEPT ![appsrc[r]].fed =
                          Append(@, Sample(segment[r], pushed[r] + 1))]
      PROVE  MuxTyped' /\ Touches(r) /\ Hand(r)'
  <2>1. PICK k \in Requests : k = appsrc[r]
    BY <1>5 DEF Accepts, MuxInv, MuxTyped
  <2>2. PICK n \in Nat : n = pushed[r]
    BY DEF MuxInv, MuxTyped
  <2>3. n + 1 =< Len(segment[r]) /\ Len(segment[r]) \in Nat /\ segment[r] \in Seq(Frame)
    BY <1>5, <2>2, LenProperties DEF FrameCount, MuxInv, MuxTyped
  <2>4. PICK e \in Samples : e = Sample(segment[r], n + 1)
    BY <2>2, <2>3, SampleIn
  <2>5. pipes[k] \in Pipe /\ pipes[k].fed \in Seq(Samples)
    BY DEF MuxInv, MuxTyped, Pipe
  <2>6. PICK more \in Seq(Samples) : more = Append(pipes[k].fed, e)
    BY <2>5, AppendProperties
  <2>7. PICK q : q = [pipes[k] EXCEPT !.fed = more]
    OBVIOUS
  <2>8. /\ q \in Pipe /\ q.fed = more /\ q.state = pipes[k].state
        /\ q.sinks = pipes[k].sinks /\ q.eos = pipes[k].eos
    BY <2>5, <2>7 DEF Pipe
  <2>9. pipes' = [pipes EXCEPT ![k] = q]
    BY <1>5, <2>1, <2>2, <2>4, <2>6, <2>7
  <2>10. /\ pipes' \in [Requests -> Pipe] /\ pipes'[k] = q
         /\ \A s \in Requests \ {k} : pipes'[s] = pipes[s]
    BY <2>8, <2>9, PipeReplaced
  <2>11. /\ pushed' \in [Requests -> Nat] /\ pushed'[r] = n + 1
         /\ \A s \in Requests \ {r} : pushed'[s] = pushed[s]
    <3>1. PICK m \in Nat : m = n + 1
      OBVIOUS
    <3>2. pushed' = [pushed EXCEPT ![r] = m] /\ pushed \in [Requests -> Nat]
      BY <1>5, <2>2, <3>1 DEF MuxInv, MuxTyped
    <3> QED
      BY <3>1, <3>2
  <2>12. \A p, s \in Requests : Holds(p, s)' <=> Holds(p, s)
    BY <2>8, <2>10, SameSinks
  <2>13. MuxTyped'
    BY <1>1, <1>2, <2>10, <2>11 DEF MuxInv, MuxTyped
  <2>14. Touches(r)
    <3>1. pipes[k].state = "playing"
      BY <1>5, <2>1 DEF Accepts
    <3>2. \A s \in Requests \ {r} : pipes'[s] = pipes[s] \/ pipes[s].state = "playing"
      BY <2>10, <3>1
    <3>3. \A s \in Requests \ {r} : pipes'[s].state = "playing" => pipes[s].state = "playing"
      BY <2>10, <3>1
    <3> QED
      BY <1>1, <1>2, <1>3, <2>11, <2>12, <3>2, <3>3 DEF Touches
  <2>15. ASSUME r \in lone
         PROVE  Feeding(r)'
    <3>1. Feeding(r) /\ k = r /\ ~pipes[r].eos
      BY <1>3, <1>5, <2>1, <2>15, LoneHas DEF Feeding, Accepts
    <3>2. pipes[r].fed = Fed(r, n)
      BY <2>2, <3>1 DEF Feeding
    <3>3. more = Fed(r, n + 1)
      BY <2>4, <2>6, <3>1, <3>2, FedGrows DEF MuxInv
    <3>4. Fed(r, pushed[r])' = Fed(r, n + 1)
      BY <1>1, <2>11 DEF Fed
    <3>5. /\ pipes'[r].fed = more /\ pipes'[r].state = pipes[r].state
          /\ pipes'[r].sinks = pipes[r].sinks /\ pipes'[r].eos = pipes[r].eos
      BY <2>8, <2>10, <3>1
    <3>6. container[r] = <<>>
      BY <3>1 DEF Feeding
    <3> QED
      BY <1>1, <1>2, <1>5, <2>3, <2>11, <3>1, <3>3, <3>4, <3>5, <3>6 DEF Feeding
  <2>16. at'[r] \notin Before /\ at'[r] \notin Preparing \cup Over /\ ~Muxed(r)'
    BY <1>2, <1>5 DEF Before, Early, Preparing, Over, Muxed
  <2>17. Hand(r)'
    BY <1>3, <2>12, <2>13, <2>14, <2>15, <2>16, Own
  <2> QED
    BY <2>13, <2>14, <2>17
<1> QED
  BY <1>4, <1>5 DEF PushFrame

LEMMA EosStep ==
    ASSUME MuxInv, NEW r \in Requests, EndOfStream(r)
    PROVE  MuxTyped' /\ Touches(r) /\ Hand(r)'
<1>1. /\ UNCHANGED <<log, arrived, segment, kind>> /\ at' \in [Requests -> Places]
      /\ \A s \in Requests \ {r} : at'[s] = at[s]
  BY MuxCommon DEF Mux
<1>2. /\ pushed[r] = Len(segment[r]) /\ at[r] = "push" /\ at'[r] = "bus"
      /\ UNCHANGED <<pushed, appsrc, bus, container, members, lone>>
  BY DEF MuxInv, MuxTyped, EndOfStream, FrameCount, Goes, MuxElsewhere
<1>3. at[r] \in Inside /\ at[r] \in Running
  BY <1>2 DEF Inside, Running
<1>4. /\ pipes' \in [Requests -> Pipe]
      /\ \A s \in Requests :
            /\ pipes'[s] = pipes[s] \/ (appsrc[r] = s /\ pipes[s].state = "playing")
            /\ pipes'[s].state = pipes[s].state /\ pipes'[s].sinks = pipes[s].sinks
            /\ pipes'[s].fed = pipes[s].fed /\ pipes'[s].emitted = pipes[s].emitted
  <2>1. CASE ~Accepts(appsrc[r])
    BY <2>1 DEF EndOfStream, MuxInv, MuxTyped
  <2>2. CASE Accepts(appsrc[r])
    <3>1. PICK k \in Requests : k = appsrc[r] /\ pipes[k].state = "playing"
      BY <2>2 DEF Accepts, MuxInv, MuxTyped
    <3>2. PICK q : q = [pipes[k] EXCEPT !.eos = TRUE]
      OBVIOUS
    <3>3. /\ q \in Pipe /\ q.state = pipes[k].state /\ q.sinks = pipes[k].sinks
          /\ q.fed = pipes[k].fed /\ q.emitted = pipes[k].emitted
      <4>1. pipes[k] \in Pipe
        BY DEF MuxInv, MuxTyped
      <4> QED
        BY <3>2, <4>1 DEF Pipe
    <3>4. pipes' = [pipes EXCEPT ![k] = q]
      BY <2>2, <3>1, <3>2 DEF EndOfStream
    <3>5. /\ pipes' \in [Requests -> Pipe] /\ pipes'[k] = q
          /\ \A s \in Requests \ {k} : pipes'[s] = pipes[s]
      BY <3>3, <3>4, PipeReplaced
    <3> QED
      BY <3>1, <3>3, <3>5
  <2> QED
    BY <2>1, <2>2
<1>5. \A p, s \in Requests : Holds(p, s)' <=> Holds(p, s)
  BY <1>4, SameSinks
<1>6. MuxTyped'
  BY <1>1, <1>2, <1>4 DEF MuxInv, MuxTyped
<1>7. Touches(r)
  BY <1>1, <1>2, <1>3, <1>4, <1>5 DEF Touches
<1>8. ASSUME r \in lone
      PROVE  Feeding(r)'
  <2>1. Feeding(r)
    BY <1>3, <1>8, LoneHas
  <2>2. container[r] # <<>> => pipes'[r].eos
    <3>1. ASSUME container[r] # <<>>
          PROVE  pipes' = pipes
      BY <2>1, <3>1 DEF Feeding, EndOfStream, Accepts
    <3> QED
      BY <2>1, <3>1 DEF Feeding
  <2>3. Fed(r, pushed[r])' = Fed(r, pushed[r])
    BY <1>1, <1>2 DEF Fed
  <2> QED
    BY <1>1, <1>2, <1>4, <2>1, <2>2, <2>3 DEF Feeding
<1>9. at'[r] \notin Before /\ at'[r] \notin Preparing \cup Over /\ ~Muxed(r)'
  BY <1>2 DEF Before, Early, Preparing, Over, Muxed
<1>10. Hand(r)'
  BY <1>3, <1>5, <1>6, <1>7, <1>8, <1>9, Own
<1> QED
  BY <1>6, <1>7, <1>10

LEMMA BusStep ==
    ASSUME MuxInv, NEW r \in Requests, GetBus(r)
    PROVE  MuxTyped' /\ Touches(r) /\ Hand(r)'
<1>1. /\ UNCHANGED <<log, arrived, segment, kind>> /\ at' \in [Requests -> Places]
      /\ \A s \in Requests \ {r} : at'[s] = at[s]
  BY MuxCommon DEF Mux
<1>2. /\ at[r] = "bus" /\ at'[r] = "pop"
      /\ UNCHANGED <<pushed, appsrc, container, members, pipes, lone>>
      /\ bus' \in [Requests -> Requests \cup {None}] /\ bus'[r] = members.pipeline
      /\ \A s \in Requests \ {r} : bus'[s] = bus[s]
  BY DEF MuxInv, MuxTyped, GetBus, Goes, MuxElsewhere
<1>3. at[r] \in Inside /\ at[r] \in Running
  BY <1>2 DEF Inside, Running
<1>4. \A p, s \in Requests : Holds(p, s)' <=> Holds(p, s)
  BY <1>2 DEF Holds
<1>5. MuxTyped'
  BY <1>1, <1>2 DEF MuxInv, MuxTyped
<1>6. Touches(r)
  BY <1>1, <1>2, <1>3, <1>4 DEF Touches
<1>7. ASSUME r \in lone
      PROVE  Feeding(r)'
  <2>1. Feeding(r)
    BY <1>3, <1>7, LoneHas
  <2>2. Fed(r, pushed[r])' = Fed(r, pushed[r])
    BY <1>1, <1>2 DEF Fed
  <2> QED
    BY <1>1, <1>2, <2>1, <2>2 DEF Feeding
<1>8. at'[r] \notin Before /\ at'[r] \notin Preparing \cup Over /\ ~Muxed(r)'
  BY <1>2 DEF Before, Early, Preparing, Over, Muxed
<1>9. Hand(r)'
  BY <1>3, <1>4, <1>5, <1>6, <1>7, <1>8, Own
<1> QED
  BY <1>5, <1>6, <1>9

LEMMA PopStep ==
    ASSUME MuxInv, NEW r \in Requests, PopMessage(r) \/ PopTimesOut(r)
    PROVE  MuxTyped' /\ Touches(r) /\ Hand(r)'
<1>1. /\ UNCHANGED <<log, arrived, segment, kind>> /\ at' \in [Requests -> Places]
      /\ \A s \in Requests \ {r} : at'[s] = at[s]
  BY MuxCommon DEF Mux
<1>2. at[r] \in Running /\ UNCHANGED <<pushed, appsrc, bus, container, members, lone>>
  BY DEF PopMessage, PopTimesOut, MuxThrows, MuxElsewhere, Running
<1>3. at'[r] = "done" \/ (at'[r] = "write" /\ container[r] # <<>>)
  BY DEF PopMessage, PopTimesOut, MuxThrows, Throws, Answers, Goes, MuxInv, MuxTyped
<1>4. \/ pipes' = Silenced(members.pipeline)
      \/ /\ bus[r] # None /\ pipes[bus[r]].message # "none"
         /\ pipes' = [Silenced(members.pipeline) EXCEPT ![bus[r]].message = "none"]
  BY DEF PopMessage, PopTimesOut
<1> QED
  BY <1>1, <1>2, <1>3, <1>4, EndsSilent

-----------------------------------------------------------------------------
(***************************************************************************)
(* Steps of the pipelines.                                                 *)
(***************************************************************************)
\* A running pipeline among those of Fresh and lone requests is a fed one.
LEMMA RunningIsFed ==
    ASSUME MuxInv, NEW p \in Requests, pipes[p].state = "playing"
    PROVE  /\ at[p] \notin Before
           /\ p \in lone => at[p] \in Running /\ Feeding(p)
<1>1. at[p] \notin Before
  BY DEF MuxInv, Hand, Fresh, NewPipe
<1>2. ASSUME p \in lone
      PROVE  at[p] \in Running /\ Feeding(p)
  <2>1. Alone(p)
    BY <1>2 DEF MuxInv, Hand
  <2>2. at[p] \notin Over /\ at[p] \notin Preparing
    BY <2>1 DEF Alone, Ready
  <2>3. at[p] \in Running
    BY <1>1, <2>2, PlacesSplit DEF MuxInv, MuxTyped
  <2> QED
    BY <2>1, <2>3 DEF Alone
<1> QED
  BY <1>1, <1>2

\* A pipeline that goes on keeps its state, its sinks and what it was fed.
LEMMA StreamStep ==
    ASSUME MuxInv, MuxTyped', NEW p \in Requests, pipes[p].state = "playing",
           UNCHANGED <<log, arrived, segment, kind, at, pushed, appsrc, bus, members, lone>>,
           \A s \in Requests \ {p} : pipes'[s] = pipes[s],
           pipes'[p].state = pipes[p].state, pipes'[p].sinks = pipes[p].sinks,
           pipes'[p].fed = pipes[p].fed, pipes'[p].eos = pipes[p].eos,
           pipes[p].emitted => pipes'[p].emitted,
           \A s \in Requests : \/ container'[s] = container[s]
                               \/ /\ Holds(p, s)
                                  /\ pipes[p].sinks = <<s>> /\ container[s] = <<>> =>
                                        /\ container'[s] = pipes[p].fed
                                        /\ pipes[p].eos /\ pipes'[p].emitted
                                  /\ ~pipes[p].emitted
    PROVE  \A s \in Requests : Hand(s)'
<1>1. \A q, s \in Requests : Holds(q, s)' <=> Holds(q, s)
  BY SameSinks
<1>2. InMux' = InMux
  BY SamePlacesInMux
<1>3. ASSUME NEW s \in Requests \ {p}, container'[s] = container[s]
      PROVE  Hand(s)'
  BY <1>1, <1>2, <1>3, SameHand DEF MuxInv
<1>4. ASSUME NEW s \in Requests \ {p}, container'[s] # container[s]
      PROVE  Hand(s)'
  <2>1. Holds(p, s)
    BY <1>4
  <2>2. at[s] \notin Before /\ s \notin lone
    BY <2>1 DEF MuxInv, Hand, Fresh, Alone
  <2> QED
    BY <2>2 DEF Hand
<1>5. Hand(p)'
  <2>1. at'[p] \notin Before
    BY RunningIsFed
  <2>2. ASSUME p \in lone
        PROVE  Alone(p)'
    <3>1. at[p] \in Running /\ Feeding(p) /\ Alone(p)
      BY <2>2, RunningIsFed DEF MuxInv, Hand
    <3>2. Fed(p, pushed[p])' = Fed(p, pushed[p])
      BY DEF Fed
    <3>3. /\ container'[p] # <<>> =>
                pipes'[p].eos /\ pipes'[p].emitted /\ container'[p] = pipes'[p].fed
      <4>1. CASE container'[p] = container[p]
        BY <3>1, <4>1 DEF Feeding
      <4>2. CASE container'[p] # container[p]
        <5>1. container[p] = <<>> /\ pipes[p].sinks = <<p>>
          BY <3>1, <4>2 DEF Feeding
        <5> QED
          BY <4>2, <5>1
      <4> QED
        BY <4>1, <4>2
    <3>4. Feeding(p)'
      BY <3>1, <3>2, <3>3 DEF Feeding
    <3>5. ~Muxed(p)' /\ at'[p] \notin Over /\ at'[p] \notin Preparing /\ at'[p] \notin Early
      BY <3>1 DEF Muxed, Running, Over, Preparing, Early
    <3> QED
      BY <1>1, <1>2, <3>1, <3>4, <3>5 DEF Alone
  <2> QED
    BY <2>1, <2>2 DEF Hand
<1> QED
  BY <1>3, <1>4, <1>5

LEMMA StreamsStep ==
    ASSUME MuxInv, NEW p \in Requests, Streams(p)
    PROVE  MuxInv'
<1>1. /\ pipes[p].state = "playing"
      /\ UNCHANGED <<log, arrived, segment, kind, at, pushed, appsrc, bus, members, lone>>
  BY DEF Streams, FrameTaken, ContainerEmitted, PipelineFails, MuxElsewhere, captureVars,
         carried
<1>2. /\ pipes[p] \in Pipe /\ pipes[p].fed \in Seq(Samples)
      /\ pipes[p].sinks \in Seq(Requests)
  BY DEF MuxInv, MuxTyped, Pipe
<1>3. CASE FrameTaken(p)
  <2>1. PICK q : q = [pipes[p] EXCEPT !.taken = @ + 1]
    OBVIOUS
  <2>2. /\ q \in Pipe /\ q.state = pipes[p].state /\ q.sinks = pipes[p].sinks
        /\ q.fed = pipes[p].fed /\ q.eos = pipes[p].eos /\ q.emitted = pipes[p].emitted
    BY <1>2, <2>1 DEF Pipe
  <2>3. pipes' = [pipes EXCEPT ![p] = q] /\ container' = container
    BY <1>3, <2>1 DEF FrameTaken
  <2>4. /\ pipes' \in [Requests -> Pipe] /\ pipes'[p] = q
        /\ \A s \in Requests \ {p} : pipes'[s] = pipes[s]
    BY <2>2, <2>3, PipeReplaced
  <2>5. MuxTyped'
    BY <1>1, <2>3, <2>4 DEF MuxInv, MuxTyped
  <2>6. \A s \in Requests : Hand(s)'
    BY <1>1, <2>2, <2>3, <2>4, <2>5, StreamStep
  <2> QED
    BY <2>5, <2>6 DEF MuxInv
<1>4. ASSUME NEW m \in {"none", "eos", "error"},
             pipes' = [pipes EXCEPT ![p].emitted = TRUE, ![p].message = m]
      PROVE  /\ pipes' \in [Requests -> Pipe]
             /\ pipes'[p].state = pipes[p].state /\ pipes'[p].sinks = pipes[p].sinks
             /\ pipes'[p].fed = pipes[p].fed /\ pipes'[p].eos = pipes[p].eos
             /\ pipes'[p].emitted
             /\ \A s \in Requests \ {p} : pipes'[s] = pipes[s]
  <2>1. PICK q : q = [pipes[p] EXCEPT !.emitted = TRUE, !.message = m]
    OBVIOUS
  <2>2. /\ q \in Pipe /\ q.state = pipes[p].state /\ q.sinks = pipes[p].sinks
        /\ q.fed = pipes[p].fed /\ q.eos = pipes[p].eos /\ q.emitted
    <3>1. PICK n : n = [pipes[p] EXCEPT !.emitted = TRUE]
      OBVIOUS
    <3>2. /\ n \in Pipe /\ n.state = pipes[p].state /\ n.sinks = pipes[p].sinks
          /\ n.fed = pipes[p].fed /\ n.eos = pipes[p].eos /\ n.emitted
      BY <1>2, <3>1 DEF Pipe
    <3>3. q = [n EXCEPT !.message = m]
      BY <1>2, <2>1, <3>1 DEF Pipe
    <3> QED
      BY <3>2, <3>3 DEF Pipe
  <2>3. pipes' = [pipes EXCEPT ![p] = q]
    BY <1>2, <1>4, <2>1 DEF MuxInv, MuxTyped
  <2> QED
    BY <2>2, <2>3, PipeReplaced
<1>5. CASE ContainerEmitted(p)
  <2>1. /\ pipes[p].eos /\ ~pipes[p].emitted /\ pipes[p].sinks # <<>>
        /\ container' = [container EXCEPT ![Head(pipes[p].sinks)] = @ \o pipes[p].fed]
    BY <1>5 DEF ContainerEmitted
  <2>2. \E m \in {"none", "eos", "error"} :
           pipes' = [pipes EXCEPT ![p].emitted = TRUE, ![p].message = m]
    <3>1. pipes[p].message \in {"none", "eos", "error"}
      BY <1>2 DEF Pipe
    <3>2. CASE Len(pipes[p].sinks) = 1
      BY <1>5, <3>2 DEF ContainerEmitted
    <3>3. CASE Len(pipes[p].sinks) # 1
      <4>1. pipes' = [pipes EXCEPT ![p].emitted = TRUE, ![p].message = pipes[p].message]
        BY <1>5, <3>3 DEF ContainerEmitted
      <4> QED
        BY <3>1, <4>1
    <3> QED
      BY <3>2, <3>3
  <2>3. PICK h \in Requests : h = Head(pipes[p].sinks) /\ Holds(p, h)
    <3>1. PICK k \in Seq(Requests) : k = pipes[p].sinks /\ k # <<>>
      BY <1>2, <2>1
    <3>2. Head(k) = k[1] /\ 1 \in DOMAIN k /\ k[1] \in Requests
      BY <3>1, EmptySeq, LenProperties, ElementOfSeq
    <3> QED
      BY <3>1, <3>2 DEF Holds
  <2>4. container[h] \in Seq(Samples)
    BY DEF MuxInv, MuxTyped
  <2>5. PICK c \in Seq(Samples) : c = container[h] \o pipes[p].fed
    BY <1>2, <2>4, ConcatProperties
  <2>6. container[h] = <<>> => c = pipes[p].fed
    BY <1>2, <2>5, ConcatEmptySeq
  <2>7. /\ container' \in [Requests -> Seq(Samples)] /\ container'[h] = c
        /\ \A s \in Requests \ {h} : container'[s] = container[s]
    BY <2>1, <2>3, <2>5 DEF MuxInv, MuxTyped
  <2>8. /\ pipes' \in [Requests -> Pipe]
        /\ pipes'[p].state = pipes[p].state /\ pipes'[p].sinks = pipes[p].sinks
        /\ pipes'[p].fed = pipes[p].fed /\ pipes'[p].eos = pipes[p].eos
        /\ pipes'[p].emitted
        /\ \A s \in Requests \ {p} : pipes'[s] = pipes[s]
    BY <1>4, <2>2
  <2>9. MuxTyped'
    BY <1>1, <2>7, <2>8 DEF MuxInv, MuxTyped
  <2>10. \A s \in Requests : Hand(s)'
    <3>1. \A s \in Requests : \/ container'[s] = container[s]
                              \/ s = h /\ Holds(p, s) /\ ~pipes[p].emitted
      BY <2>1, <2>3, <2>7
    <3>2. ASSUME container[h] = <<>>
          PROVE  container'[h] = pipes[p].fed /\ pipes[p].eos /\ pipes'[p].emitted
      BY <2>1, <2>6, <2>7, <2>8, <3>2
    <3>3. \A s \in Requests : \/ container'[s] = container[s]
                              \/ /\ Holds(p, s)
                                 /\ pipes[p].sinks = <<s>> /\ container[s] = <<>> =>
                                       /\ container'[s] = pipes[p].fed
                                       /\ pipes[p].eos /\ pipes'[p].emitted
                                 /\ ~pipes[p].emitted
      BY <3>1, <3>2
    <3> QED
      BY <1>1, <2>8, <2>9, <3>3, StreamStep
  <2> QED
    BY <2>9, <2>10 DEF MuxInv
<1>6. CASE PipelineFails(p)
  <2>1. pipes' = [pipes EXCEPT ![p].emitted = TRUE, ![p].message = "error"]
    BY <1>2, <1>6 DEF PipelineFails, MuxInv, MuxTyped, Pipe
  <2>2. /\ pipes' \in [Requests -> Pipe]
        /\ pipes'[p].state = pipes[p].state /\ pipes'[p].sinks = pipes[p].sinks
        /\ pipes'[p].fed = pipes[p].fed /\ pipes'[p].eos = pipes[p].eos
        /\ pipes'[p].emitted
        /\ \A s \in Requests \ {p} : pipes'[s] = pipes[s]
    BY <1>4, <2>1
  <2>3. container' = container
    BY <1>6 DEF PipelineFails
  <2>4. MuxTyped'
    BY <1>1, <2>2, <2>3 DEF MuxInv, MuxTyped
  <2>5. \A s \in Requests : Hand(s)'
    BY <1>1, <2>2, <2>3, <2>4, StreamStep
  <2> QED
    BY <2>4, <2>5 DEF MuxInv
<1> QED
  BY <1>3, <1>5, <1>6 DEF Streams

LEMMA MuxStep ==
    ASSUME MuxInv, [Next]_vars
    PROVE  MuxInv'
<1>1. CASE NewSample
  BY <1>1, SampleStep DEF MuxInv
<1>2. ASSUME NEW r \in Requests, Accepted(r) \/ Handles(r)
      PROVE  MuxInv'
  <2>1. CASE ~Mux(r)
    BY <1>2, <2>1, HandlerStep DEF MuxInv
  <2>2. CASE Mux(r)
    <3>1. MuxTyped' /\ Touches(r) /\ Hand(r)'
      BY <2>2, DropStep, LaunchStep, EndsStep, ConnectStep, PlayStep, PushStep,
         EosStep, BusStep, PopStep DEF Mux
    <3>2. \A s \in Requests \ {r} : Hand(s)'
      BY <3>1, Others
    <3> QED
      BY <3>1, <3>2 DEF MuxInv
  <2> QED
    BY <2>1, <2>2
<1>3. ASSUME NEW p \in Requests, Streams(p)
      PROVE  MuxInv'
  BY <1>3, StreamsStep
<1>4. CASE StopCapture \/ StopServer \/ ServerJoined \/ UNCHANGED vars
  <2>1. UNCHANGED <<log, arrived, segment, kind, at, muxVars>>
    BY <1>4 DEF StopCapture, StopServer, ServerJoined, vars, captureVars, carried
  <2>2. InMux' = InMux /\ \A p, s \in Requests : Holds(p, s)' <=> Holds(p, s)
    BY <2>1 DEF InMux, Holds, muxVars
  <2>3. \A s \in Requests : Hand(s)'
    BY <2>1, <2>2, SameHand DEF MuxInv, muxVars
  <2>4. MuxTyped'
    BY <2>1 DEF MuxInv, MuxTyped, muxVars
  <2> QED
    BY <2>3, <2>4 DEF MuxInv
<1> QED
  BY <1>1, <1>2, <1>3, <1>4 DEF Next

LEMMA MuxInit == Init => MuxInv
<1> SUFFICES ASSUME Init
             PROVE  MuxInv
  OBVIOUS
<1>1. <<>> \in Seq(Samples) /\ <<>> \in Seq(Frame) /\ <<>> \in Seq(Requests)
  BY EmptySeq
<1>2. NewPipe \in Pipe
  BY <1>1 DEF NewPipe, Pipe
<1>3. MuxTyped
  BY <1>1, <1>2 DEF Init, MuxTyped, Places
<1>4. \A s \in Requests : Hand(s)
  <2>1. \A p, s \in Requests : ~Holds(p, s)
    <3>1. DOMAIN <<>> = {}
      BY EmptySeq
    <3> QED
      BY <3>1 DEF Init, Holds, NewPipe
  <2> QED
    BY <2>1, RequestsAssumption DEF Init, Hand, Fresh
<1> QED
  BY <1>3, <1>4 DEF MuxInv

\* gstreamer_mp4_muxer.cpp: a request whose mux() met no other one writes the
\* whole of its own segment, however many handlers run before it and after
\* it, into each other or not, and whatever failed or timed out.
THEOREM LoneContainerIsOwnAlways == Spec => []LoneContainerIsOwn
<1>1. MuxInv => LoneContainerIsOwn
  <2> SUFFICES ASSUME MuxInv, NEW r \in lone, Muxed(r)
               PROVE  Ids(container[r]) = Ids(segment[r])
    BY DEF LoneContainerIsOwn, OwnContainer
  <2>1. r \in Requests /\ container[r] = Fed(r, Len(segment[r]))
    BY DEF MuxInv, MuxTyped, Hand, Alone
  <2>2. segment[r] \in Seq(Frame) /\ Len(segment[r]) \in Nat
        /\ DOMAIN segment[r] = 1 .. Len(segment[r])
    BY <2>1, LenProperties DEF MuxInv, MuxTyped
  <2>3. DOMAIN Fed(r, Len(segment[r])) = DOMAIN segment[r]
    BY <2>2 DEF Fed
  <2>4. \A i \in DOMAIN segment[r] : Fed(r, Len(segment[r]))[i].id = segment[r][i].id
    BY <2>2, SampleIn DEF Fed
  <2> QED
    BY <2>1, <2>3, <2>4 DEF Ids
<1> QED
  BY <1>1, MuxInit, MuxStep, PTL DEF Spec

\* gstreamer_mp4_muxer.cpp:212 and after: such a mux() that is over, by whatever
\* way, left no running pipeline that holds the address of its container, and
\* no later mux() starts one again.
THEOREM NoWriteAfterReturnAlways == Spec => []NoWriteAfterReturn
<1>1. MuxInv => NoWriteAfterReturn
  <2> SUFFICES ASSUME MuxInv, NEW r \in lone,
                      at[r] \in {"write", "save", "describe", "done"},
                      NEW p \in Requests, pipes[p].state = "playing",
                      NEW i \in DOMAIN pipes[p].sinks
               PROVE  pipes[p].sinks[i] # r
    BY DEF NoWriteAfterReturn
  <2>1. r \in Requests /\ Alone(r) /\ at[r] \in Over
    BY DEF MuxInv, MuxTyped, Hand, Over
  <2>2. p # r
    BY <2>1 DEF Alone
  <2>3. ~Holds(p, r)
    BY <2>1, <2>2 DEF Alone
  <2> QED
    BY <2>3 DEF Holds
<1> QED
  BY <1>1, MuxInit, MuxStep, PTL DEF Spec

-----------------------------------------------------------------------------
(***************************************************************************)
(* What is indexed of the stream.                                          *)
(***************************************************************************)

\* What the capture pipeline promises: buffers come in decode order, so their
\* times do not decrease.
InDecodeOrder ==
    \A i, j \in 1 .. Len(Stream) :
        i < j /\ BufferTime(Stream[i]) # NoTime /\ BufferTime(Stream[j]) # NoTime =>
            BufferTime(Stream[i]) =< BufferTime(Stream[j])

\* A frame of the index is a sample that arrived, with its time.
IndexInv ==
    /\ arrived \in 0 .. Len(Stream)
    /\ log \in Seq(Frame)
    /\ \A k \in 1 .. Len(log) :
          /\ log[k].id \in 1 .. arrived
          /\ BufferTime(Stream[log[k].id]) # NoTime
          /\ log[k].ts = BaseTime + BufferTime(Stream[log[k].id])
    /\ NothingLost

\* A sample is indexed or carries no time: the order of the stream leaves
\* nothing for rejectIfClockWentBackwards.
LEMMA SampleIndexed ==
    ASSUME InDecodeOrder, IndexInv, NewSample
    PROVE  IndexInv'
<1> DEFINE n == arrived + 1
           time == BufferTime(Stream[n])
           frame == [id |-> n, ts |-> BaseTime + time]
           timed(m) == {i \in 1 .. m : BufferTime(Stream[i]) # NoTime}
<1>1. /\ Len(Stream) \in Nat /\ arrived \in Nat /\ n \in 1 .. Len(Stream)
      /\ arrived' = n
      /\ Len(log) \in Nat /\ DOMAIN log = 1 .. Len(log)
  BY StreamAssumption, LenProperties DEF IndexInv, NewSample
<1>2. \A i \in 1 .. Len(Stream) : BufferTime(Stream[i]) \in Nat \cup {NoTime}
  <2>1. \A i \in 1 .. Len(Stream) :
          Stream[i] \in [dts : Nat \cup {NoTime}, pts : Nat \cup {NoTime}]
    BY StreamAssumption, ElementOfSeq
  <2> QED
    BY <2>1 DEF BufferTime
<1>3. /\ {log[k].id : k \in DOMAIN log} = timed(arrived)
      /\ \A i, j \in DOMAIN log : i < j => log[i].id < log[j].id
  BY DEF IndexInv, NothingLost
<1>4. CASE time = NoTime
  <2>1. log' = log
    BY <1>4 DEF NewSample
  <2>2. timed(n) = timed(arrived)
    BY <1>1, <1>4
  <2>3. \A k \in 1 .. Len(log) : log[k].id \in 1 .. n
    BY <1>1 DEF IndexInv
  <2>4. NothingLost'
    BY <1>1, <1>3, <2>1, <2>2 DEF NothingLost
  <2> QED
    BY <1>1, <2>1, <2>3, <2>4 DEF IndexInv
<1>5. CASE time # NoTime
  <2>1. log = <<>> \/ BaseTime + time >= Newest
    <3> SUFFICES ASSUME log # <<>>
                 PROVE  BaseTime + time >= Newest
      OBVIOUS
    <3>1. Len(log) \in 1 .. Len(log)
      BY <1>1, EmptySeq DEF IndexInv
    <3>2. PICK m \in 1 .. arrived : m = log[Len(log)].id
      BY <3>1 DEF IndexInv
    <3>3. /\ BufferTime(Stream[m]) # NoTime
          /\ Newest = BaseTime + BufferTime(Stream[m])
      BY <3>1, <3>2 DEF IndexInv, Newest
    <3>4. BufferTime(Stream[m]) =< time
      BY <1>1, <1>5, <3>3 DEF InDecodeOrder
    <3>5. BufferTime(Stream[m]) \in Nat /\ time \in Nat
      BY <1>1, <1>2, <1>5, <3>3
    <3> HIDE DEF time
    <3> QED
      BY <3>3, <3>4, <3>5, BaseAssumption
  <2>2. log' = Append(log, frame)
    BY <1>5, <2>1 DEF NewSample
  <2>3. frame \in Frame
    <3>1. time \in Nat
      BY <1>1, <1>2, <1>5
    <3> QED
      BY <1>1, <3>1, BaseAssumption DEF Frame
  <2>4. /\ log' \in Seq(Frame) /\ Len(log') = Len(log) + 1
        /\ log'[Len(log) + 1] = frame
        /\ \A k \in 1 .. Len(log) : log'[k] = log[k]
    <3>1. log \in Seq(Frame)
      BY DEF IndexInv
    <3> HIDE DEF frame
    <3> QED
      BY <2>2, <2>3, <3>1, AppendProperties
  <2>5. DOMAIN log' = 1 .. Len(log) + 1
    BY <2>4, LenProperties
  <2>6. frame.id = n /\ frame.ts = BaseTime + time
    OBVIOUS
  <2>7. \A k \in 1 .. Len(log) + 1 :
          \/ k = Len(log) + 1 /\ log'[k] = frame
          \/ k \in 1 .. Len(log) /\ log'[k] = log[k]
    BY <1>1, <2>4
  <2>8. ASSUME NEW k \in 1 .. Len(log')
        PROVE  /\ log'[k].id \in 1 .. n
               /\ BufferTime(Stream[log'[k].id]) # NoTime
               /\ log'[k].ts = BaseTime + BufferTime(Stream[log'[k].id])
    <3> HIDE DEF frame, timed
    <3> QED
      BY <1>1, <1>5, <2>4, <2>6, <2>7 DEF IndexInv
  <2>9. {log'[k].id : k \in DOMAIN log'} = timed(n)
    <3>1. timed(n) = timed(arrived) \cup {n}
      BY <1>1, <1>5
    <3>2. {log'[k].id : k \in DOMAIN log'} = {log[k].id : k \in DOMAIN log} \cup {n}
      <4> HIDE DEF frame, timed, n
      <4>1. Len(log) + 1 \in DOMAIN log' /\ \A k \in DOMAIN log : k \in DOMAIN log'
        BY <1>1, <2>5
      <4> QED
        BY <1>1, <2>4, <2>5, <2>6, <2>7, <4>1
    <3> QED
      BY <1>3, <3>1, <3>2
  <2>10. ASSUME NEW i \in DOMAIN log', NEW j \in DOMAIN log', i < j
         PROVE  log'[i].id < log'[j].id
    <3>1. i \in 1 .. Len(log) /\ log'[i] = log[i] /\ log[i].id \in 1 .. arrived
      BY <1>1, <2>5, <2>7, <2>10 DEF IndexInv
    <3> HIDE DEF frame, timed
    <3> QED
      BY <1>1, <1>3, <2>5, <2>6, <2>7, <2>10, <3>1
  <2>11. NothingLost'
    BY <1>1, <2>9, <2>10 DEF NothingLost
  <2> QED
    BY <1>1, <2>4, <2>8, <2>11 DEF IndexInv
<1> QED
  BY <1>4, <1>5

\* appsink_frame_source.cpp: of a stream in decode order every sample that
\* carries a time is indexed, in the order it was delivered, whatever the
\* requests do meanwhile, also if presentation times go back and forth.
THEOREM NothingLostAlways ==
    ASSUME InDecodeOrder
    PROVE  Spec => []NothingLost
<1>1. Init => IndexInv
  BY EmptySeq, StreamAssumption, LenProperties DEF Init, IndexInv, NothingLost
<1>2. IndexInv /\ [Next]_vars => IndexInv'
  <2> SUFFICES ASSUME IndexInv, [Next]_vars
               PROVE  IndexInv'
    OBVIOUS
  <2>1. CASE NewSample
    BY <2>1, SampleIndexed
  <2>2. CASE UNCHANGED captureVars
    BY <2>2 DEF captureVars, IndexInv, NothingLost
  <2>3. NewSample \/ UNCHANGED captureVars
    <3>1. ASSUME NEW r \in Requests, Mux(r) \/ Streams(r)
          PROVE  UNCHANGED captureVars
      BY <3>1 DEF Streams, Mux, MuxElsewhere, DropOldPipeline, LaunchPipeline, TakeEnds,
                  ConnectSink, SetPlaying, PushFrame, EndOfStream, GetBus, PopMessage,
                  PopTimesOut, FrameTaken, ContainerEmitted, PipelineFails
    <3>2. ASSUME NEW r \in Requests, Accepted(r) \/ (Handles(r) /\ ~Mux(r))
          PROVE  UNCHANGED captureVars
      BY <3>2 DEF Accepted, Handles, GetClip, BadRequest, NoClockYet, WindowAsked,
                  SegmentExtracted, CaptureStopped, LegacyRead, FileWritten, ClipSaved,
                  Described
    <3>3. ASSUME StopCapture \/ StopServer \/ ServerJoined \/ UNCHANGED vars
          PROVE  UNCHANGED captureVars
      BY <3>3 DEF StopCapture, StopServer, ServerJoined, vars
    <3> QED
      BY <3>1, <3>2, <3>3 DEF Next
  <2> QED
    BY <2>1, <2>2, <2>3
<1>3. IndexInv => NothingLost
  BY DEF IndexInv
<1> QED
  BY <1>1, <1>2, <1>3, PTL DEF Spec

-----------------------------------------------------------------------------
(***************************************************************************)
(* The times of a container.                                               *)
(***************************************************************************)
InTimeOrder(s) == \A i, j \in 1 .. Len(s) : i =< j => s[i].ts =< s[j].ts

\* The index and every segment taken from it are in the order of their times.
TimeInv ==
    /\ arrived \in Nat
    /\ log \in Seq(Frame) /\ InTimeOrder(log)
    /\ segment \in [Requests -> Seq(Frame)]
    /\ \A r \in Requests : InTimeOrder(segment[r])

\* A set of naturals has a least element; what the library says of well-founded
\* relations, without an operator as a parameter.
LEMMA LeastNatural ==
    ASSUME NEW T \in SUBSET Nat, T # {}
    PROVE  \E n \in T : \A m \in T : n =< m
<1>1. PICK n \in T : \A m \in T : <<m, n>> \notin OpToRel(<, Nat)
  BY NatLessThanWellFounded, WFMin, Zenon
<1>2. ASSUME NEW m \in T
      PROVE  n =< m
  <2>1. <<m, n>> \notin OpToRel(<, Nat)
    BY <1>1
  <2>2. m \in Nat /\ n \in Nat
    OBVIOUS
  <2>3. ~(m < n)
    BY <2>1, <2>2 DEF OpToRel
  <2> QED
    BY <2>2, <2>3
<1> QED
  BY <1>2

\* Between two frames in order the delta is the difference of their times.
LEMMA DeltaIsGap ==
    ASSUME NEW s \in Seq(Frame), InTimeOrder(s), NEW i \in 2 .. Len(s)
    PROVE  Delta(s, i) = s[i].ts - s[i - 1].ts
<1>1. Len(s) \in Nat /\ i - 1 \in 1 .. Len(s) /\ i \in 1 .. Len(s) /\ i > 1 /\ i - 1 =< i
  BY LenProperties
<1>2. s[i].ts \in Int /\ s[i - 1].ts \in Int
  <2>1. s[i] \in Frame /\ s[i - 1] \in Frame
    BY <1>1, ElementOfSeq
  <2> QED
    BY <2>1 DEF Frame
<1>3. s[i - 1].ts =< s[i].ts
  BY <1>1 DEF InTimeOrder
<1> QED
  BY <1>1, <1>2, <1>3 DEF Delta

\* The running sum of the deltas, in closed form: the samples start at 1 ns and
\* are as far from the first as their frames were.
LEMMA SampleTimeIsOffset ==
    ASSUME NEW s \in Seq(Frame), InTimeOrder(s), NEW i \in 1 .. Len(s)
    PROVE  SampleTime(s, i) = 1 + s[i].ts - s[1].ts
<1> DEFINE step(g, k) == IF k = 1 THEN 1 ELSE g[k - 1] + Delta(s, k)
           IsRunning(g) == g = [k \in 1 .. i |-> step(g, k)]
           closed == [k \in 1 .. i |-> 1 + s[k].ts - s[1].ts]
<1>1. Len(s) \in Nat /\ i \in Nat /\ 1 =< i /\ i =< Len(s)
  BY LenProperties
<1>2. \A k \in 1 .. i : s[k].ts \in Int
  <2>1. \A k \in 1 .. Len(s) : s[k] \in Frame
    BY ElementOfSeq
  <2> QED
    BY <1>1, <2>1 DEF Frame
<1>3. \A k \in 2 .. i : Delta(s, k) = s[k].ts - s[k - 1].ts
  BY <1>1, DeltaIsGap
<1>4. IsRunning(closed)
  <2>1. ASSUME NEW k \in 1 .. i
        PROVE  step(closed, k) = 1 + s[k].ts - s[1].ts
    <3>1. CASE k = 1
      BY <1>1, <1>2, <3>1
    <3>2. CASE k # 1
      <4>1. k \in 2 .. i /\ k - 1 \in 1 .. i
        BY <1>1, <3>2
      <4>2. step(closed, k) = (1 + s[k - 1].ts - s[1].ts) + (s[k].ts - s[k - 1].ts)
        BY <1>3, <3>2, <4>1
      <4>3. s[k].ts \in Int /\ s[k - 1].ts \in Int /\ s[1].ts \in Int
        BY <1>1, <1>2, <4>1
      <4> QED
        BY <4>2, <4>3
    <3> QED
      BY <3>1, <3>2
  <2> HIDE DEF step
  <2> QED
    BY <2>1
<1>5. ASSUME NEW g, IsRunning(g)
      PROVE  g[i] = closed[i]
  <2> DEFINE wrong == {k \in 1 .. i : g[k] # closed[k]}
  <2>0. \A k \in 1 .. i : g[k] = step(g, k)
    BY <1>5
  <2>1. ASSUME wrong # {}
        PROVE  FALSE
    <3>1. wrong \in SUBSET Nat
      BY <1>1
    <3>2. PICK n \in wrong : \A m \in wrong : n =< m
      <4> HIDE DEF wrong
      <4> QED
        BY <2>1, <3>1, LeastNatural
    <3>3. n \in 1 .. i /\ g[n] # closed[n]
      BY <3>2
    <3>4. CASE n = 1
      <4>1. g[1] = 1
        BY <2>0, <3>3, <3>4
      <4>2. closed[1] = 1
        BY <1>1, <1>2
      <4> QED
        BY <3>3, <3>4, <4>1, <4>2
    <3>5. CASE n # 1
      <4>1. n - 1 \in 1 .. i /\ ~(n =< n - 1)
        BY <1>1, <3>3, <3>5
      <4>2. g[n - 1] = closed[n - 1]
        BY <3>2, <4>1
      <4>3. g[n] = g[n - 1] + Delta(s, n)
        BY <2>0, <3>3, <3>5
      <4>4. closed[n] = closed[n - 1] + Delta(s, n)
        <5>1. closed[n] = step(closed, n)
          <6> HIDE DEF closed, step
          <6>1. closed = [k \in 1 .. i |-> step(closed, k)]
            BY <1>4
          <6> QED
            BY <3>3, <6>1
        <5> QED
          BY <3>5, <5>1
      <4> QED
        BY <3>3, <4>2, <4>3, <4>4
    <3> QED
      BY <3>4, <3>5
  <2>2. i \in 1 .. i
    BY <1>1
  <2> HIDE DEF closed
  <2> QED
    BY <2>1, <2>2
<1>6. SampleTime(s, i) = (CHOOSE g : IsRunning(g))[i]
  BY DEF SampleTime
<1>7. IsRunning(CHOOSE g : IsRunning(g))
  <2> HIDE DEF IsRunning, closed
  <2> QED
    BY <1>4
<1>8. SampleTime(s, i) = closed[i]
  <2> HIDE DEF IsRunning, closed
  <2> QED
    BY <1>5, <1>6, <1>7
<1> QED
  BY <1>1, <1>8

\* What segmentFor takes of the index keeps its order.
LEMMA SegmentInOrder ==
    ASSUME log \in Seq(Frame), InTimeOrder(log), NEW r \in Requests
    PROVE  InTimeOrder(Segment(r))
<1> DEFINE from == IF UpTo(FirstNs(r)) = 0 THEN 1 ELSE UpTo(FirstNs(r))
           to == UpTo(LastNs(r))
           part == SubSeq(log, from, to)
<1>1. Len(log) \in Nat /\ DOMAIN log = 1 .. Len(log)
  BY LenProperties
<1>2. from \in Int /\ 1 =< from /\ to \in Int /\ to =< Len(log)
  BY <1>1, UpToBound
<1>3. InTimeOrder(part)
  <2> HIDE DEF from, to
  <2>1. \A i \in from .. to : log[i] \in Frame
    BY <1>1, <1>2, ElementOfSeq
  <2>2. /\ Len(part) = IF from =< to THEN to - from + 1 ELSE 0
        /\ \A i \in 1 .. to - from + 1 : part[i] = log[from + i - 1]
    BY <1>2, <2>1, SubSeqProperties
  <2>3. ASSUME NEW i \in 1 .. Len(part), NEW j \in 1 .. Len(part), i =< j
        PROVE  part[i].ts =< part[j].ts
    <3>1. i \in 1 .. to - from + 1 /\ j \in 1 .. to - from + 1
      BY <1>2, <2>2
    <3>2. /\ from + i - 1 \in 1 .. Len(log) /\ from + j - 1 \in 1 .. Len(log)
          /\ from + i - 1 =< from + j - 1
      BY <1>1, <1>2, <2>3, <3>1
    <3> QED
      BY <2>2, <3>1, <3>2 DEF InTimeOrder
  <2> QED
    BY <2>3 DEF InTimeOrder
<1>4. InTimeOrder(<<>>)
  BY EmptySeq DEF InTimeOrder
<1> QED
  BY <1>3, <1>4 DEF Segment

\* rejectIfClockWentBackwards keeps the index in order, whatever the stream.
LEMMA TimeStep ==
    ASSUME TimeInv, [Next]_vars
    PROVE  TimeInv'
<1>1. InTimeOrder(<<>>) /\ <<>> \in Seq(Frame) /\ Len(log) \in Nat
  BY EmptySeq, LenProperties DEF InTimeOrder, TimeInv
<1>2. CASE NewSample
  <2> DEFINE time == BufferTime(Stream[arrived + 1])
             frame == [id |-> arrived + 1, ts |-> BaseTime + time]
  <2>1. arrived' \in Nat /\ segment' = segment
    BY <1>2 DEF NewSample, TimeInv
  <2>2. CASE log' = log
    BY <2>1, <2>2 DEF TimeInv
  <2>3. CASE /\ log' = Append(log, frame)
             /\ time # NoTime
             /\ log = <<>> \/ frame.ts >= Newest
    <3>1. arrived + 1 \in 1 .. Len(Stream)
      BY <1>2, StreamAssumption, LenProperties DEF NewSample, TimeInv
    <3>2. time \in Nat \cup {NoTime}
      <4>1. Stream[arrived + 1] \in [dts : Nat \cup {NoTime}, pts : Nat \cup {NoTime}]
        BY <3>1, StreamAssumption, ElementOfSeq
      <4> QED
        BY <4>1 DEF BufferTime
    <3>3. frame \in Frame /\ frame.ts \in Int
      BY <2>3, <3>1, <3>2, BaseAssumption DEF Frame, TimeInv
    <3>4. log = <<>> \/ (Newest = log[Len(log)].ts /\ frame.ts >= Newest)
      BY <2>3 DEF Newest
    <3> HIDE DEF frame, time
    <3>5. /\ log' \in Seq(Frame) /\ Len(log') = Len(log) + 1
          /\ log'[Len(log) + 1] = frame
          /\ \A k \in 1 .. Len(log) : log'[k] = log[k]
      BY <2>3, <3>3, AppendProperties DEF TimeInv
    <3>6. \A k \in 1 .. Len(log) : log[k].ts \in Int /\ log[k].ts =< frame.ts
      <4> SUFFICES ASSUME NEW k \in 1 .. Len(log)
                   PROVE  log[k].ts \in Int /\ log[k].ts =< frame.ts
        OBVIOUS
      <4>1. Len(log) \in 1 .. Len(log) /\ log # <<>> /\ k =< Len(log)
        BY <1>1, EmptySeq
      <4>2. log[k] \in Frame /\ log[Len(log)] \in Frame
        BY <4>1, ElementOfSeq DEF TimeInv
      <4>3. log[k].ts =< log[Len(log)].ts
        BY <4>1 DEF TimeInv, InTimeOrder
      <4>4. log[k].ts \in Int /\ log[Len(log)].ts \in Int
        BY <4>2 DEF Frame
      <4> QED
        BY <3>3, <3>4, <4>1, <4>3, <4>4
    <3>7. ASSUME NEW i \in 1 .. Len(log'), NEW j \in 1 .. Len(log'), i =< j
          PROVE  log'[i].ts =< log'[j].ts
      <4>1. CASE j = Len(log) + 1
        <5>1. i = Len(log) + 1 \/ i \in 1 .. Len(log)
          BY <1>1, <3>5
        <5> QED
          BY <3>3, <3>5, <3>6, <4>1, <5>1
      <4>2. CASE j # Len(log) + 1
        <5>1. i \in 1 .. Len(log) /\ j \in 1 .. Len(log)
          BY <1>1, <3>5, <3>7, <4>2
        <5> QED
          BY <3>5, <3>7, <5>1 DEF TimeInv, InTimeOrder
      <4> QED
        BY <4>1, <4>2
    <3> QED
      BY <2>1, <3>5, <3>7 DEF TimeInv, InTimeOrder
  <2> QED
    BY <1>2, <2>2, <2>3 DEF NewSample
<1>3. ASSUME NEW r \in Requests, SegmentExtracted(r) \/ LegacyRead(r)
      PROVE  TimeInv'
  <2>1. Segment(r) \in Seq(Frame) /\ InTimeOrder(Segment(r))
    BY SegmentIn, SegmentInOrder DEF TimeInv
  <2>2. \E part \in {Segment(r), <<>>} : segment' = [segment EXCEPT ![r] = part]
    BY <1>3 DEF SegmentExtracted, LegacyRead
  <2>3. log' = log /\ arrived' = arrived
    BY <1>3 DEF SegmentExtracted, LegacyRead, captureVars
  <2> QED
    BY <1>1, <2>1, <2>2, <2>3 DEF TimeInv, InTimeOrder
<1>4. CASE UNCHANGED <<captureVars, segment>>
  BY <1>4 DEF captureVars, TimeInv, InTimeOrder
<1>5. \/ NewSample
      \/ \E r \in Requests : SegmentExtracted(r) \/ LegacyRead(r)
      \/ UNCHANGED <<captureVars, segment>>
  <2>1. ASSUME NEW r \in Requests, Mux(r) \/ Streams(r)
        PROVE  UNCHANGED <<captureVars, segment>>
    BY <2>1 DEF Streams, Mux, MuxElsewhere, DropOldPipeline, LaunchPipeline, TakeEnds,
                ConnectSink, SetPlaying, PushFrame, EndOfStream, GetBus, PopMessage,
                PopTimesOut, FrameTaken, ContainerEmitted, PipelineFails
  <2>2. ASSUME NEW r \in Requests,
               \/ Accepted(r) \/ GetClip(r) \/ BadRequest(r) \/ NoClockYet(r)
               \/ WindowAsked(r) \/ CaptureStopped(r) \/ FileWritten(r) \/ ClipSaved(r)
               \/ Described(r)
        PROVE  UNCHANGED <<captureVars, segment>>
    BY <2>2 DEF Accepted, GetClip, BadRequest, NoClockYet, WindowAsked, CaptureStopped,
                FileWritten, ClipSaved, Described
  <2>3. ASSUME StopCapture \/ StopServer \/ ServerJoined \/ UNCHANGED vars
        PROVE  UNCHANGED <<captureVars, segment>>
    BY <2>3 DEF StopCapture, StopServer, ServerJoined, vars
  <2> QED
    BY <2>1, <2>2, <2>3 DEF Next, Handles
<1> QED
  BY <1>2, <1>3, <1>4, <1>5

\* gstreamer_mp4_muxer.cpp: the samples of a clip whose mux() met no other are
\* as far apart as its frames were captured, however long the clip and
\* whatever the times; each lasts until the next one is due.
THEOREM SampleTimelineAlways == Spec => []SampleTimeline
<1>1. MuxInv /\ TimeInv => SampleTimeline
  <2> SUFFICES ASSUME MuxInv, TimeInv, NEW r \in lone, Muxed(r),
                      NEW i \in 2 .. Len(container[r])
               PROVE  LET gap == segment[r][i].ts - segment[r][i - 1].ts
                      IN  /\ container[r][i].ts - container[r][i - 1].ts = gap
                          /\ container[r][i - 1].dur = (IF gap = 0 THEN FrameGap ELSE gap)
    BY DEF SampleTimeline
  <2> DEFINE s == segment[r]
  <2>1. r \in Requests /\ container[r] = Fed(r, Len(s))
    BY DEF MuxInv, MuxTyped, Hand, Alone
  <2>2. s \in Seq(Frame) /\ InTimeOrder(s) /\ Len(s) \in Nat
    BY <2>1, LenProperties DEF TimeInv
  <2>3. container[r] = [k \in 1 .. Len(s) |-> Sample(s, k)]
    BY <2>1 DEF Fed
  <2> HIDE DEF s
  <2>4. Len(container[r]) = Len(s)
    <3>1. container[r] \in Seq(Samples)
      BY <2>1 DEF MuxInv, MuxTyped
    <3> QED
      BY <2>2, <2>3, <3>1, LenProperties
  <2>5. /\ i \in 1 .. Len(s) /\ i - 1 \in 1 .. Len(s) /\ i \in 2 .. Len(s)
        /\ i - 1 < Len(s) /\ (i - 1) + 1 = i /\ 1 \in 1 .. Len(s)
    BY <2>2, <2>4
  <2>6. container[r][i] = Sample(s, i) /\ container[r][i - 1] = Sample(s, i - 1)
    BY <2>3, <2>5
  <2>7. /\ container[r][i].ts = 1 + s[i].ts - s[1].ts
        /\ container[r][i - 1].ts = 1 + s[i - 1].ts - s[1].ts
    BY <2>2, <2>5, <2>6, SampleTimeIsOffset DEF Sample
  <2>8. s[i].ts \in Int /\ s[i - 1].ts \in Int /\ s[1].ts \in Int
    <3>1. s[i] \in Frame /\ s[i - 1] \in Frame /\ s[1] \in Frame
      BY <2>2, <2>5, ElementOfSeq
    <3> QED
      BY <3>1 DEF Frame
  <2>9. Delta(s, i) = s[i].ts - s[i - 1].ts
    BY <2>2, <2>5, DeltaIsGap
  <2>10. container[r][i - 1].dur = IF Delta(s, i) = 0 THEN FrameGap ELSE Delta(s, i)
    <3>1. SampleDuration(s, i - 1) = IF Delta(s, i) = 0 THEN FrameGap ELSE Delta(s, i)
      BY <2>5 DEF SampleDuration
    <3> QED
      BY <2>6, <3>1 DEF Sample
  <2>11. container[r][i].ts - container[r][i - 1].ts = s[i].ts - s[i - 1].ts
    BY <2>7, <2>8
  <2> QED
    BY <2>9, <2>10, <2>11 DEF s
<1>2. Init => TimeInv
  BY EmptySeq DEF Init, TimeInv, InTimeOrder
<1> QED
  BY <1>1, <1>2, TimeStep, MuxInit, MuxStep, PTL DEF Spec

=============================================================================
